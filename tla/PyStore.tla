-------------------------------- MODULE PyStore --------------------------------
(***************************************************************************)
(* Sealed links of sealed/guard.py: handler threads that burn their key in *)
(* USED_DB behind a lock file (try_burn_sealed, _acquire_lock).  A thread  *)
(* that waits for the lock file for more than 5 s goes on without it, an   *)
(* exception inside the section lets the visitor pass, and a kill leaves   *)
(* the lock file in place.                                                 *)
(*                                                                         *)
(* Links come with a good seal and are not expired: _handle_sealed checks  *)
(* both before, as BurnStore models it.                                    *)
(***************************************************************************)
EXTENDS Naturals, FiniteSets

CONSTANTS
  Thread,      \* handler threads
  Link,        \* links, each with its key name:exp:seal[:16]
  MaxPasses,   \* a link let through this often is presented no more (a bound)
  Fault,       \* file operations that may raise: see FaultKind
  NoLink       \* distinguished value: no request

\* "lock": the lock file cannot be created.  "read", "open": USED_DB or its .tmp
\* cannot be opened.  "write": the disk is full.  "replace": os.replace raises.
\* "unlock": the lock file cannot be removed.
FaultKind == {"lock", "read", "open", "write", "replace", "unlock"}

ASSUME ConstantsAssumption ==
  /\ IsFiniteSet(Link)
  /\ MaxPasses \in Nat
  /\ Fault \subseteq FaultKind
  /\ NoLink \notin Link

\* A file: the keys it is long enough for, and whether it is a list of them or
\* something json.load rejects.
File == [keys : SUBSET Link, torn : BOOLEAN]

VARIABLES
  lock,        \* USED_DB.lock exists
  used,        \* USED_DB
  tmp,         \* USED_DB.tmp: {} when there is no such file, else {content}
  pc,          \* where each thread is
  req,         \* the link it was asked for
  own,         \* whether it created the lock file
  seen,        \* the set used of try_burn_sealed
  fd,          \* the file its open descriptor writes to
  passes,      \* history: how often each link was let through
  expired,     \* history: a wait for the lock file has timed out
  overlapped,  \* history: two threads were in the section at once
  failed,      \* history: a file operation has raised
  crashed      \* history: the process has been killed

store == <<lock, used, tmp>>
local == <<req, own, seen, fd>>
history == <<passes, expired, overlapped, failed, crashed>>
vars == <<store, pc, local, history>>

Empty == [keys |-> {}, torn |-> FALSE]

\* json.load; what it rejects counts as no key.
Keys(f) == IF f.torn THEN {} ELSE f.keys

\* From the read of USED_DB to os.replace.
InSection == {"read", "open", "write", "replace"}

Init == /\ lock = FALSE
        /\ used = Empty
        /\ tmp = {}
        /\ pc = [t \in Thread |-> "idle"]
        /\ req = [t \in Thread |-> NoLink]
        /\ own = [t \in Thread |-> FALSE]
        /\ seen = [t \in Thread |-> {}]
        /\ fd = [t \in Thread |-> "none"]
        /\ passes = [l \in Link |-> 0]
        /\ expired = FALSE
        /\ overlapped = FALSE
        /\ failed = FALSE
        /\ crashed = FALSE

Goto(t, l) == pc' = [pc EXCEPT ![t] = l]

\* The handler is done: an answer, or an exception that closes the connection.
Done(t) == /\ Goto(t, "idle")
           /\ req' = [req EXCEPT ![t] = NoLink]
           /\ seen' = [seen EXCEPT ![t] = {}]

Arrive(t, l) ==
  /\ pc[t] = "idle"
  /\ passes[l] < MaxPasses
  /\ req' = [req EXCEPT ![t] = l]
  /\ Goto(t, "lock")
  /\ UNCHANGED <<store, own, seen, fd, history>>

Enter(t) ==
  /\ Goto(t, "read")
  /\ overlapped' = (overlapped \/ \E u \in Thread \ {t} : pc[u] \in InSection)

\* Mutant of Acquire: the lock file is opened without O_EXCL.
AcquireShared(t) ==
  /\ pc[t] = "lock"
  /\ lock' = TRUE
  /\ own' = [own EXCEPT ![t] = TRUE]
  /\ Enter(t)
  /\ UNCHANGED <<used, tmp, req, seen, fd, passes, expired, failed, crashed>>

\* os.open with O_CREAT and O_EXCL succeeds.
Acquire(t) ==
  /\ pc[t] = "lock"
  /\ ~lock
  /\ lock' = TRUE
  /\ own' = [own EXCEPT ![t] = TRUE]
  /\ Enter(t)
  /\ UNCHANGED <<used, tmp, req, seen, fd, passes, expired, failed, crashed>>

\* An error other than FileExistsError is raised outside the try block: the
\* handler dies and nobody passes.
AcquireFails(t) ==
  /\ pc[t] = "lock"
  /\ "lock" \in Fault
  /\ ~lock
  /\ Done(t)
  /\ failed' = TRUE
  /\ UNCHANGED <<store, own, fd, passes, expired, overlapped, crashed>>

\* Mutant of GiveUp: the timer starts again at every attempt.
GiveUpNever(t) ==
  /\ pc[t] = "lock"
  /\ lock
  /\ UNCHANGED vars

\* The file is still there after 5 s: on without the lock.
GiveUp(t) ==
  /\ pc[t] = "lock"
  /\ lock
  /\ Enter(t)
  /\ expired' = TRUE
  /\ UNCHANGED <<store, local, passes, failed, crashed>>

\* What USED_DB is read as, and whether that took an exception.
ReadResults ==
  {[keys |-> Keys(used), raised |-> FALSE]} \union
  (IF "read" \in Fault THEN {[keys |-> {}, raised |-> TRUE]} ELSE {})

\* The key is there: False.
ReadUsed(t) ==
  /\ pc[t] = "read"
  /\ \E r \in ReadResults : req[t] \in r.keys
  /\ Goto(t, "false")
  /\ UNCHANGED <<store, local, history>>

\* Mutant of ReadFresh: the set starts from scratch.
ReadFreshAlone(t) ==
  /\ pc[t] = "read"
  /\ \E r \in ReadResults : req[t] \notin r.keys
  /\ seen' = [seen EXCEPT ![t] = {req[t]}]
  /\ Goto(t, "open")
  /\ UNCHANGED <<store, req, own, fd, history>>

\* It is not: the key is added.
ReadFresh(t) ==
  /\ pc[t] = "read"
  /\ \E r \in ReadResults :
       /\ req[t] \notin r.keys
       /\ seen' = [seen EXCEPT ![t] = r.keys \union {req[t]}]
       /\ failed' = (failed \/ r.raised)
  /\ Goto(t, "open")
  /\ UNCHANGED <<store, req, own, fd, passes, expired, overlapped, crashed>>

\* open(tmp, "w") creates the file, or truncates the one that is there.
OpenTmp(t) ==
  /\ pc[t] = "open"
  /\ tmp' = {Empty}
  /\ fd' = [fd EXCEPT ![t] = "tmp"]
  /\ Goto(t, "write")
  /\ UNCHANGED <<lock, used, req, own, seen, history>>

\* What a file becomes when a list of other keys is written from its beginning:
\* keys are of one length, and the tail of a longer list is left behind it.
Over(old, new) ==
  IF Cardinality(old.keys) > Cardinality(new)
    THEN [keys |-> old.keys, torn |-> TRUE]
    ELSE [keys |-> new, torn |-> FALSE]

\* json.dump and close: the list goes where the descriptor points.
WriteTmp(t) ==
  /\ pc[t] = "write"
  /\ tmp' = IF fd[t] = "tmp" THEN {Over(f, seen[t]) : f \in tmp} ELSE tmp
  /\ used' = IF fd[t] = "db" THEN Over(used, seen[t]) ELSE used
  /\ fd' = [fd EXCEPT ![t] = "none"]
  /\ Goto(t, "replace")
  /\ UNCHANGED <<lock, req, own, seen, history>>

\* os.replace: descriptors of other threads follow the files.
Replace(t) ==
  /\ pc[t] = "replace"
  /\ used' \in tmp
  /\ tmp' = {}
  /\ fd' = [u \in Thread |-> CASE fd[u] = "tmp" -> "db"
                               [] fd[u] = "db" -> "gone"
                               [] OTHER -> fd[u]]
  /\ Goto(t, "true")
  /\ UNCHANGED <<lock, req, own, seen, history>>

\* What can raise inside the try block: a file operation that fails, or an
\* os.replace whose .tmp another thread has taken.
Raises(t) ==
  \/ pc[t] = "open" /\ "open" \in Fault
  \/ pc[t] = "write" /\ "write" \in Fault
  \/ pc[t] = "replace" /\ (tmp = {} \/ "replace" \in Fault)

\* Mutant of Except: except Exception: return False.
ExceptFalse(t) ==
  /\ Raises(t)
  /\ fd' = [fd EXCEPT ![t] = "none"]
  /\ Goto(t, "false")
  /\ failed' = TRUE
  /\ UNCHANGED <<store, req, own, seen, passes, expired, overlapped, crashed>>

\* except Exception: return True.
Except(t) ==
  /\ Raises(t)
  /\ fd' = [fd EXCEPT ![t] = "none"]
  /\ Goto(t, "true")
  /\ failed' = TRUE
  /\ UNCHANGED <<store, req, own, seen, passes, expired, overlapped, crashed>>

\* The finally block: the lock file goes if this thread created it, and an error
\* of os.remove is ignored.  True goes on to _proxy, False answers "link already
\* used".
Release(t) ==
  /\ pc[t] \in {"true", "false"}
  /\ \/ lock' = (lock /\ ~own[t]) /\ UNCHANGED failed
     \/ "unlock" \in Fault /\ own[t] /\ failed' = TRUE /\ UNCHANGED lock
  /\ own' = [own EXCEPT ![t] = FALSE]
  /\ IF pc[t] = "true" THEN Goto(t, "proxy") /\ UNCHANGED <<req, seen>>
                       ELSE Done(t)
  /\ UNCHANGED <<used, tmp, fd, passes, expired, overlapped, crashed>>

\* Mutant of Proxy: the counter goes the wrong way.
ProxyUncounted(t) ==
  /\ pc[t] = "proxy"
  /\ passes' = [passes EXCEPT ![req[t]] = @ - 1]
  /\ Done(t)
  /\ UNCHANGED <<store, own, fd, expired, overlapped, failed, crashed>>

\* _proxy: the backend answers, or the visitor gets a 413 or a 502.
Proxy(t) ==
  /\ pc[t] = "proxy"
  /\ passes' = [passes EXCEPT ![req[t]] = @ + 1]
  /\ Done(t)
  /\ UNCHANGED <<store, own, fd, expired, overlapped, failed, crashed>>

\* The process is killed and started again: files stay, the lock file too.
CrashRestart ==
  /\ pc' = [t \in Thread |-> "idle"]
  /\ req' = [t \in Thread |-> NoLink]
  /\ own' = [t \in Thread |-> FALSE]
  /\ seen' = [t \in Thread |-> {}]
  /\ fd' = [t \in Thread |-> "none"]
  /\ crashed' = TRUE
  /\ UNCHANGED <<store, passes, expired, overlapped, failed>>

\* What a thread does by itself once it has a request.
Running(t) ==
  \/ Acquire(t) \/ AcquireFails(t) \/ GiveUp(t)
  \/ ReadUsed(t) \/ ReadFresh(t)
  \/ OpenTmp(t) \/ WriteTmp(t) \/ Replace(t) \/ Except(t)
  \/ Release(t) \/ Proxy(t)

Next ==
  \/ \E t \in Thread : (\E l \in Link : Arrive(t, l)) \/ Running(t)
  \/ CrashRestart

Spec == Init /\ [][Next]_vars

\* Threads are scheduled, file operations return, the backend has a timeout, and
\* the loop of _acquire_lock ends after 5 s.
FairSpec == Spec /\ \A t \in Thread : WF_vars(Running(t))
------------------------------------------------------------------------------
\* Every variable keeps its type.
TypeOK ==
  /\ lock \in BOOLEAN
  /\ used \in File
  /\ tmp \subseteq File
  /\ pc \in [Thread -> {"idle", "lock", "true", "false", "proxy"} \union InSection]
  /\ req \in [Thread -> Link \union {NoLink}]
  /\ own \in [Thread -> BOOLEAN]
  /\ seen \in [Thread -> SUBSET Link]
  /\ fd \in [Thread -> {"none", "tmp", "db", "gone"}]
  /\ passes \in [Link -> Nat]
  /\ {expired, overlapped, failed, crashed} \subseteq BOOLEAN

\* The lock file belongs to one thread at most, however many have given up on
\* it, and only a kill or an os.remove that fails leaves one without an owner.
LockOwned ==
  /\ \A t, u \in Thread : own[t] /\ own[u] => t = u
  /\ (\E t \in Thread : own[t]) => lock
  /\ lock => crashed \/ failed \/ \E t \in Thread : own[t]

\* try_burn_sealed, "Check-then-burn" in one piece: two threads are in the
\* section at once only after a wait of 5 s.
ApartUnlessLate == overlapped => expired

\* The lock file does its work: it has one owner at most, nobody leaves it behind
\* but in a kill or an error, and only a wait of 5 s gets a thread past it.
LockSafe == LockOwned /\ ApartUnlessLate

\* A lock file left behind slows visitors down, it does not let them in: as
\* long as no two of them are in the section at once and no file operation
\* fails, a link lets one visitor through, whatever waits time out and however
\* often the guard is killed.
AtMostOnceApart ==
  ~overlapped /\ ~failed => \A l \in Link : passes[l] <= 1

\* Under the same conditions whoever passes has its key in USED_DB.
NoLostBurnApart ==
  ~overlapped /\ ~failed =>
    /\ \A l \in Link : passes[l] > 0 => l \in Keys(used)
    /\ \A t \in Thread : pc[t] \in {"true", "proxy"} => req[t] \in Keys(used)

\* Single use: one visitor per link, and its key on disk before it passes.
BurnSafe == AtMostOnceApart /\ NoLostBurnApart

\* Whatever threads overlap, tear each other's file or fail: a link is refused
\* as used only if somebody passes with it, or the guard was killed.
NoWastedBurn ==
  \A l \in Keys(used) :
    \/ passes[l] > 0
    \/ \E t \in Thread : req[t] = l /\ pc[t] \in {"replace", "true", "proxy"}
    \/ crashed

\* Every request is answered or dropped, behind a lock file that nobody will
\* ever remove too.
Answered == \A t \in Thread : pc[t] # "idle" ~> pc[t] = "idle"
================================================================================
