------------------------------ MODULE ModeToggle ------------------------------
(***************************************************************************)
(* The mode switch of guard-go/dashboard.go: POST /admin/api/toggle sets   *)
(* the running mode under muCfg (setSealMode), then saves it in            *)
(* ADMIN_ENV_FILE with no lock held (persistSealMode, writeFileAtomic).    *)
(* Nothing in the guard reads that file back: loadConfig takes the mode    *)
(* from the environment of the process, which docker compose fills from    *)
(* .env when it creates the container and not when it restarts it.  The    *)
(* module takes ADMIN_ENV_FILE to be that .env, of 64 KB at most.          *)
(*                                                                         *)
(* Every save uses the same path ".tmp", so two of them may have the same  *)
(* file open, and a rename moves it under the other one's descriptor: a    *)
(* descriptor refers to the file that is now .tmp, to the one that is now  *)
(* ADMIN_ENV_FILE, or to one that has no name any more.                    *)
(***************************************************************************)
EXTENDS Naturals

CONSTANTS
  Admin,    \* goroutines of toggle requests
  Fault     \* file operations that may fail

ASSUME FaultAssumption == Fault \subseteq {"read", "open", "write", "rename"}

Mode == {"open", "sealed"}

\* What SEAL_MODE may be in a file or an environment.  "opened" is what "open"
\* leaves when it is written over "sealed" in place.
Setting == Mode \union {"opened", "none"}

\* A settings file: whether it has the lines other than SEAL_MODE, and the value
\* of its last SEAL_MODE line.
Content == [rest : BOOLEAN, mode : Setting]

Empty == [rest |-> FALSE, mode |-> "none"]

VARIABLES
  mode,        \* cfg.SealMode
  environ,     \* SEAL_MODE in the environment of the container
  env,         \* ADMIN_ENV_FILE
  tmp,         \* its .tmp: {} when there is no such file, else {content}
  pc,          \* where each toggle is
  want,        \* the mode it asks for
  lines,       \* whether it read the other settings
  fd,          \* what its open descriptor refers to
  asked,       \* history: the modes of the first start and of the toggles so far
  overlapped,  \* history: two toggles have been under way at once
  due          \* history: the mode of the first start or of the last save that
               \* went through

files == <<env, tmp>>
history == <<asked, overlapped, due>>
vars == <<mode, environ, env, tmp, pc, want, lines, fd, asked, overlapped, due>>

Init == /\ mode \in Mode
        /\ environ = mode
        /\ env = [rest |-> TRUE, mode |-> mode]
        /\ tmp = {}
        /\ pc = [a \in Admin |-> "idle"]
        /\ want = [a \in Admin |-> "sealed"]
        /\ lines = [a \in Admin |-> FALSE]
        /\ fd = [a \in Admin |-> "none"]
        /\ asked = {mode}
        /\ overlapped = FALSE
        /\ due = mode

Goto(a, l) == pc' = [pc EXCEPT ![a] = l]

\* setSealMode up to persistSealMode.
Toggle(a, m) ==
  /\ pc[a] = "idle"
  /\ mode' = m
  /\ want' = [want EXCEPT ![a] = m]
  /\ Goto(a, "read")
  /\ asked' = asked \union {m}
  /\ overlapped' = (overlapped \/ \E b \in Admin : pc[b] # "idle")
  /\ UNCHANGED <<environ, files, lines, fd, due>>

\* The settings without SEAL_MODE are kept; on an error there are none to keep.
Read(a) ==
  /\ pc[a] = "read"
  /\ \/ lines' = [lines EXCEPT ![a] = env.rest]
     \/ "read" \in Fault /\ lines' = [lines EXCEPT ![a] = FALSE]
  /\ Goto(a, "create")
  /\ UNCHANGED <<mode, environ, files, want, fd, history>>

\* os.MkdirAll or the open of .tmp fails: the error is returned and dropped, and
\* the toggle is answered as if it were saved.
CreateFails(a) ==
  /\ pc[a] = "create"
  /\ "open" \in Fault
  /\ Goto(a, "idle")
  /\ UNCHANGED <<mode, environ, files, want, lines, fd, history>>

\* os.WriteFile opens .tmp: it is created, or truncated if it is there.
Create(a) ==
  /\ pc[a] = "create"
  /\ tmp' = {Empty}
  /\ fd' = [fd EXCEPT ![a] = "tmp"]
  /\ Goto(a, "write")
  /\ UNCHANGED <<mode, environ, env, want, lines, history>>

\* What is in a file with content old after new is written from its beginning:
\* the tail of a longer old content stays.  The other settings take more room
\* than a SEAL_MODE line, and a save puts that line last.
Over(old, new) ==
  CASE old.rest /\ ~new.rest -> [rest |-> FALSE, mode |-> old.mode]
    [] old.rest = new.rest /\ old.mode \in {"sealed", "opened"} /\ new.mode = "open"
         -> [rest |-> new.rest, mode |-> "opened"]
    [] OTHER -> new

\* Mutant of New: the old value is saved.
NewStale(a) == [rest |-> lines[a], mode |-> env.mode]

\* The kept lines and SEAL_MODE=<mode>.
New(a) == [rest |-> lines[a], mode |-> want[a]]

\* Mutant of WriteFails: the error is ignored and the rename goes on.
WriteFailsSilently(a) ==
  /\ pc[a] = "write"
  /\ "write" \in Fault
  /\ fd' = [fd EXCEPT ![a] = "none"]
  /\ Goto(a, "rename")
  /\ UNCHANGED <<mode, environ, files, want, lines, history>>

\* os.WriteFile fails with .tmp empty: writeFileAtomic returns the error, and it
\* is dropped.
WriteFails(a) ==
  /\ pc[a] = "write"
  /\ "write" \in Fault
  /\ fd' = [fd EXCEPT ![a] = "none"]
  /\ Goto(a, "idle")
  /\ UNCHANGED <<mode, environ, files, want, lines, history>>

\* os.WriteFile writes through its descriptor and closes it.
Write(a) ==
  /\ pc[a] = "write"
  /\ tmp' = IF fd[a] = "tmp" THEN {Over(c, New(a)) : c \in tmp} ELSE tmp
  /\ env' = IF fd[a] = "env" THEN Over(env, New(a)) ELSE env
  /\ fd' = [fd EXCEPT ![a] = "none"]
  /\ Goto(a, "rename")
  /\ UNCHANGED <<mode, environ, want, lines, history>>

\* os.Rename: descriptors follow the files.
Rename(a) ==
  /\ pc[a] = "rename"
  /\ env' \in tmp
  /\ tmp' = {}
  /\ fd' = [b \in Admin |-> CASE fd[b] = "tmp" -> "env"
                              [] fd[b] = "env" -> "gone"
                              [] OTHER -> fd[b]]
  /\ due' = want[a]
  /\ Goto(a, "idle")
  /\ UNCHANGED <<mode, environ, want, lines, asked, overlapped>>

\* Another save has renamed .tmp already, or os.Rename fails with .tmp in place:
\* the error is dropped.
RenameFails(a) ==
  /\ pc[a] = "rename"
  /\ tmp = {} \/ "rename" \in Fault
  /\ Goto(a, "idle")
  /\ UNCHANGED <<mode, environ, files, want, lines, fd, history>>

\* Mutants of Load: an unknown mode counts as open; or it is taken as it is.
LoadOpen(v) == IF v = "sealed" THEN "sealed" ELSE "open"
LoadRaw(v) == v

\* loadConfig: a SEAL_MODE that is not "open" is "sealed".
Load(v) == IF v = "open" THEN "open" ELSE "sealed"

\* A process that ended at any step is started with environment v.
Boot(v) ==
  /\ mode' = Load(v)
  /\ pc' = [a \in Admin |-> "idle"]
  /\ fd' = [a \in Admin |-> "none"]
  /\ UNCHANGED <<files, want, lines, history>>

\* The process ends and Docker starts it again in its container (restart:
\* unless-stopped): the environment is the one of its creation.
Restart == Boot(environ) /\ UNCHANGED environ

\* The operator has compose create the container again: env_file is read.
Recreate == Boot(env.mode) /\ environ' = env.mode

Next ==
  \/ \E a \in Admin :
       \/ \E m \in Mode : Toggle(a, m)
       \/ Read(a) \/ Create(a) \/ CreateFails(a) \/ Write(a) \/ WriteFails(a)
       \/ Rename(a) \/ RenameFails(a)
  \/ Restart
  \/ Recreate

Spec == Init /\ [][Next]_vars
------------------------------------------------------------------------------
\* Every variable keeps its type.
TypeOK ==
  /\ mode \in Mode
  /\ environ \in Setting
  /\ env \in Content
  /\ tmp \subseteq Content
  /\ pc \in [Admin -> {"idle", "read", "create", "write", "rename"}]
  /\ want \in [Admin -> Mode]
  /\ lines \in [Admin -> BOOLEAN]
  /\ fd \in [Admin -> {"none", "tmp", "env", "gone"}]
  /\ asked \subseteq Mode
  /\ overlapped \in BOOLEAN
  /\ due \in Mode

\* While no two toggles overlap, ADMIN_ENV_FILE has at every moment the mode of
\* the last toggle whose save went through: a save is all or nothing, whatever
\* file operation fails and wherever the guard is killed, and a container created
\* from the file comes up in that mode.  It is not the running mode: a toggle whose
\* save fails is answered 200 and runs on, and a restart goes back to the mode the
\* container was created with.
SavedIsLast == ~overlapped => Load(env.mode) = due

\* Toggles that come one after the other never lose another setting, not even
\* when a save fails half way or the guard is killed during it.
SettingsKept == ~overlapped => env.rest

\* The guard is open only if it was first started open or an admin asked for it:
\* neither a torn file, two saves in one file, a failing operation nor a kill makes
\* it come up open.
NeverOpensByItself == mode = "open" => "open" \in asked
===============================================================================
