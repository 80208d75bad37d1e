-------------------------- MODULE ModeToggleProofs --------------------------
(***************************************************************************)
(* Proofs about ModeToggle for any number of admins, any overlap of their  *)
(* toggles, failing file operations, and kills at any step.                *)
(***************************************************************************)
EXTENDS ModeToggle, TLAPS

\* "open" is nowhere unless it was asked for: not in the running mode or the
\* environment, not in a file, and not in a toggle under way.
OpenInv ==
  \/ "open" \in asked
  \/ /\ mode # "open"
     /\ environ # "open"
     /\ env.mode # "open"
     /\ \A c \in tmp : c.mode # "open"
     /\ \A a \in Admin : want[a] # "open"

\* Writing in place makes an "open" of no other content.
LEMMA OverType ==
  ASSUME NEW old \in Content, NEW new \in Content
  PROVE  Over(old, new) \in Content
BY DEF Over, Content, Setting, Mode

LEMMA OverOpen ==
  ASSUME NEW old \in Content, NEW new \in Content,
         old.mode # "open", new.mode # "open"
  PROVE  Over(old, new).mode # "open"
BY DEF Over, Content, Setting, Mode

LEMMA NewType ==
  ASSUME TypeOK, NEW a \in Admin
  PROVE  New(a) \in Content /\ New(a).mode = want[a]
BY DEF TypeOK, New, Content, Setting, Mode

LEMMA TypeStep == TypeOK /\ [Next]_vars => TypeOK'
<1> SUFFICES ASSUME TypeOK, [Next]_vars PROVE TypeOK'
  OBVIOUS
<1> USE DEF files, history, Goto
<1>1. ASSUME NEW a \in Admin, NEW m \in Mode, Toggle(a, m) PROVE TypeOK'
  BY <1>1 DEF Toggle, TypeOK
<1>2. ASSUME NEW a \in Admin, Read(a) PROVE TypeOK'
  <2>1. env.rest \in BOOLEAN
    BY DEF TypeOK, Content
  <2>2. lines' \in [Admin -> BOOLEAN]
    BY <1>2, <2>1, Zenon DEF Read, TypeOK
  <2> QED
    BY <1>2, <2>2 DEF Read, TypeOK
<1>3. ASSUME NEW a \in Admin, Create(a) PROVE TypeOK'
  BY <1>3 DEF Create, TypeOK, Empty, Content, Setting
<1>4. ASSUME NEW a \in Admin, Write(a) PROVE TypeOK'
  <2>1. tmp' \subseteq Content
    BY <1>4, NewType, OverType DEF Write, TypeOK
  <2>2. env' \in Content
    BY <1>4, NewType, OverType DEF Write, TypeOK
  <2> QED
    BY <1>4, <2>1, <2>2 DEF Write, TypeOK
<1>5. ASSUME NEW a \in Admin, WriteFails(a) PROVE TypeOK'
  BY <1>5 DEF WriteFails, TypeOK
<1>6. ASSUME NEW a \in Admin, Rename(a) PROVE TypeOK'
  BY <1>6 DEF Rename, TypeOK
<1>7. ASSUME NEW a \in Admin, RenameFails(a) \/ CreateFails(a) PROVE TypeOK'
  BY <1>7 DEF RenameFails, CreateFails, TypeOK
<1>8. CASE Restart \/ Recreate
  <2>1. environ' \in Setting
    BY <1>8 DEF Restart, Recreate, TypeOK, Content
  <2>2. mode' \in Mode
    BY <1>8 DEF Restart, Recreate, Boot, Load, Mode
  <2> QED
    BY <1>8, <2>1, <2>2 DEF Restart, Recreate, Boot, TypeOK
<1>9. CASE UNCHANGED vars
  BY <1>9 DEF vars, TypeOK
<1> QED
  BY <1>1, <1>2, <1>3, <1>4, <1>5, <1>6, <1>7, <1>8, <1>9 DEF Next

\* Every variable keeps its type.
THEOREM TypeCorrect == Spec => []TypeOK
<1>1. Init => TypeOK
  <2> SUFFICES ASSUME Init PROVE TypeOK
    OBVIOUS
  <2>1. lines \in [Admin -> BOOLEAN]
    BY Zenon DEF Init
  <2>2. env \in Content /\ environ \in Setting
    BY DEF Init, Content, Setting, Mode
  <2>3. /\ mode \in Mode
        /\ tmp \subseteq Content
        /\ asked \subseteq Mode
        /\ due \in Mode
    BY DEF Init, Mode
  <2>4. /\ pc \in [Admin -> {"idle", "read", "create", "write", "rename"}]
        /\ want \in [Admin -> Mode]
        /\ fd \in [Admin -> {"none", "tmp", "env", "gone"}]
    BY DEF Init, Mode
  <2>5. overlapped \in BOOLEAN
    BY Zenon DEF Init
  <2> QED
    BY <2>1, <2>2, <2>3, <2>4, <2>5, Zenon DEF TypeOK
<1> QED
  BY <1>1, TypeStep, PTL DEF Spec

\* The guard never comes up open unless it was started open or an admin asked for it.
THEOREM NeverOpensCorrect == Spec => []NeverOpensByItself
<1>1. Init => OpenInv
  BY DEF Init, OpenInv
<1>2. TypeOK /\ OpenInv /\ [Next]_vars => OpenInv'
  <2> SUFFICES ASSUME TypeOK, OpenInv, [Next]_vars PROVE OpenInv'
    OBVIOUS
  <2> USE DEF files, history, Goto, OpenInv
  <2>1. asked \subseteq asked'
    BY DEF Next, Toggle, Read, Create, CreateFails, Write, WriteFails, Rename,
           RenameFails, Restart, Recreate, Boot, vars
  <2>2. CASE "open" \in asked
    BY <2>1, <2>2
  <2>3. CASE "open" \notin asked
    <3>1. ASSUME NEW a \in Admin, NEW m \in Mode, Toggle(a, m) PROVE OpenInv'
      BY <2>3, <3>1 DEF Toggle, TypeOK, Mode
    <3>2. ASSUME NEW a \in Admin, Read(a) PROVE OpenInv'
      BY <2>3, <3>2 DEF Read
    <3>3. ASSUME NEW a \in Admin, Create(a) PROVE OpenInv'
      BY <2>3, <3>3 DEF Create, Empty
    <3>4. ASSUME NEW a \in Admin, Write(a) PROVE OpenInv'
      <4>1. New(a) \in Content /\ New(a).mode # "open"
        BY <2>3, NewType
      <4>2. \A c \in tmp' : c.mode # "open"
        BY <2>3, <3>4, <4>1, OverOpen DEF Write, TypeOK
      <4>3. env'.mode # "open"
        BY <2>3, <3>4, <4>1, OverOpen DEF Write, TypeOK
      <4> QED
        BY <2>3, <3>4, <4>2, <4>3 DEF Write
    <3>5. ASSUME NEW a \in Admin, CreateFails(a) \/ WriteFails(a) \/ RenameFails(a)
          PROVE  OpenInv'
      BY <2>3, <3>5 DEF CreateFails, WriteFails, RenameFails
    <3>6. ASSUME NEW a \in Admin, Rename(a) PROVE OpenInv'
      BY <2>3, <3>6 DEF Rename
    <3>7. CASE Restart \/ Recreate
      BY <2>3, <3>7 DEF Restart, Recreate, Boot, Load
    <3>8. CASE UNCHANGED vars
      BY <2>3, <3>8 DEF vars
    <3> QED
      BY <3>1, <3>2, <3>3, <3>4, <3>5, <3>6, <3>7, <3>8 DEF Next
  <2> QED
    BY <2>2, <2>3
<1>3. OpenInv => NeverOpensByItself
  BY DEF OpenInv, NeverOpensByItself
<1> QED
  BY <1>1, <1>2, <1>3, TypeCorrect, PTL DEF Spec
------------------------------------------------------------------------------
\* While no two toggles have overlapped: one toggle at most is under way, its
\* descriptor is on .tmp, which is empty until the write and holds the new settings
\* after it; and ADMIN_ENV_FILE has the mode of the last save that went through.
AloneInv ==
  /\ \A a, b \in Admin : pc[a] # "idle" /\ pc[b] # "idle" => a = b
  /\ \A a \in Admin : pc[a] = "write" => fd[a] = "tmp" /\ tmp = {Empty}
  /\ \A a \in Admin : pc[a] = "rename" => tmp = {New(a)}
  /\ Load(env.mode) = due

SavedInv == ~overlapped => AloneInv

LEMMA OverEmpty ==
  ASSUME TypeOK, NEW a \in Admin
  PROVE  Over(Empty, New(a)) = New(a)
BY NewType DEF Over, Empty, New, Content

LEMMA LoadNew ==
  ASSUME TypeOK, NEW a \in Admin
  PROVE  Load(New(a).mode) = want[a]
BY NewType DEF TypeOK, Load, Mode

\* Once two toggles have overlapped, they have.
LEMMA OverlapStays ==
  ASSUME [Next]_vars, overlapped
  PROVE  overlapped'
<1> USE DEF files, history
<1>1. ASSUME NEW a \in Admin, NEW m \in Mode, Toggle(a, m) PROVE overlapped'
  BY <1>1, Zenon DEF Toggle
<1>2. ASSUME NEW a \in Admin,
             Read(a) \/ Create(a) \/ CreateFails(a) \/ Write(a) \/ WriteFails(a)
               \/ Rename(a) \/ RenameFails(a)
      PROVE  overlapped' = overlapped
  BY <1>2, Zenon DEF Read, Create, CreateFails, Write, WriteFails, Rename, RenameFails
<1>3. CASE Restart \/ Recreate \/ UNCHANGED vars
  BY <1>3, Zenon DEF Restart, Recreate, Boot, vars
<1> QED
  BY <1>1, <1>2, <1>3, Zenon DEF Next

\* A step that leaves overlapped FALSE keeps AloneInv.
LEMMA SavedStep == TypeOK /\ SavedInv /\ [Next]_vars => SavedInv'
<1> SUFFICES ASSUME TypeOK, SavedInv, [Next]_vars, ~overlapped' PROVE AloneInv'
  BY DEF SavedInv
<1> USE DEF files, history, Goto
<1>0. ~overlapped /\ AloneInv
  BY OverlapStays DEF SavedInv
<1>1. ASSUME env' = env, due' = due PROVE Load(env.mode)' = due'
  BY <1>0, <1>1 DEF AloneInv, Load
<1>2. ASSUME NEW a \in Admin, NEW m \in Mode, Toggle(a, m) PROVE AloneInv'
  <2>1. \A b \in Admin : pc[b] = "idle"
    BY <1>2, Zenon DEF Toggle
  <2>2. pc'[a] = "read" /\ env' = env /\ due' = due
    BY <1>2 DEF Toggle, TypeOK
  <2>3. \A b \in Admin : b # a => pc'[b] = "idle"
    BY <1>2, <2>1 DEF Toggle, TypeOK
  <2> QED
    BY <1>1, <2>2, <2>3 DEF AloneInv
<1>3. ASSUME NEW a \in Admin, Read(a) PROVE AloneInv'
  <2>1. /\ pc[a] = "read" /\ pc'[a] = "create"
        /\ \A b \in Admin : b # a => pc'[b] = pc[b]
        /\ fd' = fd /\ tmp' = tmp /\ env' = env /\ due' = due
    BY <1>3 DEF Read, TypeOK
  <2>2. \A b \in Admin : b # a => pc'[b] = "idle"
    BY <1>0, <2>1 DEF AloneInv
  <2> QED
    BY <1>1, <2>1, <2>2 DEF AloneInv
<1>4. ASSUME NEW a \in Admin, Create(a) PROVE AloneInv'
  <2>1. /\ pc[a] = "create" /\ pc'[a] = "write" /\ fd'[a] = "tmp"
        /\ \A b \in Admin : b # a => pc'[b] = pc[b]
        /\ tmp' = {Empty} /\ env' = env /\ due' = due
    BY <1>4 DEF Create, TypeOK
  <2>2. \A b \in Admin : b # a => pc'[b] = "idle"
    BY <1>0, <2>1 DEF AloneInv
  <2>3. Empty' = Empty
    BY DEF Empty
  <2> QED
    BY <1>1, <2>1, <2>2, <2>3 DEF AloneInv
<1>5. ASSUME NEW a \in Admin, Write(a) PROVE AloneInv'
  <2>1. /\ pc[a] = "write" /\ pc'[a] = "rename"
        /\ \A b \in Admin : b # a => pc'[b] = pc[b]
        /\ want' = want /\ lines' = lines /\ due' = due
    BY <1>5 DEF Write, TypeOK
  <2>2. \A b \in Admin : b # a => pc'[b] = "idle"
    BY <1>0, <2>1 DEF AloneInv
  <2>3. fd[a] = "tmp" /\ tmp = {Empty}
    BY <1>0, <2>1 DEF AloneInv
  <2>4. tmp' = {Over(Empty, New(a))} /\ env' = env
    BY <1>5, <2>3 DEF Write
  <2>5. New(a)' = New(a)
    BY <2>1 DEF New
  <2>6. tmp' = {New(a)'}
    BY <2>4, <2>5, OverEmpty
  <2> QED
    BY <1>1, <2>1, <2>2, <2>4, <2>6 DEF AloneInv
\* A save that fails, or has nothing to rename, changes no file.
<1>6. ASSUME NEW a \in Admin, CreateFails(a) \/ WriteFails(a) \/ RenameFails(a)
      PROVE  AloneInv'
  <2>1. /\ pc[a] # "idle" /\ pc'[a] = "idle" /\ env' = env /\ due' = due
        /\ \A b \in Admin : b # a => pc'[b] = pc[b]
    BY <1>6 DEF CreateFails, WriteFails, RenameFails, TypeOK
  <2>2. \A b \in Admin : pc'[b] = "idle"
    BY <1>0, <2>1 DEF AloneInv
  <2> QED
    BY <1>1, <2>1, <2>2 DEF AloneInv
<1>7. ASSUME NEW a \in Admin, Rename(a) PROVE AloneInv'
  <2>1. /\ pc[a] = "rename" /\ pc'[a] = "idle" /\ due' = want[a] /\ env' \in tmp
        /\ \A b \in Admin : b # a => pc'[b] = pc[b]
    BY <1>7 DEF Rename, TypeOK
  <2>2. \A b \in Admin : pc'[b] = "idle"
    BY <1>0, <2>1 DEF AloneInv
  <2>3. env' = New(a)
    BY <1>0, <2>1 DEF AloneInv
  <2>4. Load(env'.mode) = due'
    BY <2>1, <2>3, LoadNew
  <2>5. Load(env.mode)' = due'
    BY <2>4 DEF Load
  <2> QED
    BY <2>2, <2>5 DEF AloneInv
<1>8. CASE Restart \/ Recreate
  <2>1. (\A b \in Admin : pc'[b] = "idle") /\ env' = env /\ due' = due
    BY <1>8 DEF Restart, Recreate, Boot
  <2> QED
    BY <1>1, <2>1 DEF AloneInv
<1>9. CASE UNCHANGED vars
  <2>1. \A a \in Admin : New(a)' = New(a)
    BY <1>9 DEF vars, New
  <2>2. Empty' = Empty
    BY DEF Empty
  <2> QED
    BY <1>0, <1>1, <1>9, <2>1, <2>2 DEF vars, AloneInv
<1> QED
  BY <1>2, <1>3, <1>4, <1>5, <1>6, <1>7, <1>8, <1>9 DEF Next

LEMMA SavedHolds == Spec => []SavedInv
<1>1. Init => SavedInv
  BY DEF Init, SavedInv, AloneInv, Load, Mode
<1> QED
  BY <1>1, SavedStep, TypeCorrect, PTL DEF Spec

\* While toggles come one after the other, ADMIN_ENV_FILE has the mode of the last
\* one whose save went through, whatever operations fail and wherever kills come.
THEOREM SavedCorrect == Spec => []SavedIsLast
<1>1. SavedInv => SavedIsLast
  BY DEF SavedInv, AloneInv, SavedIsLast
<1> QED
  BY <1>1, SavedHolds, PTL
------------------------------------------------------------------------------
\* The other settings are in the file, and a save under way has read them.
LinesInv ==
  /\ env.rest
  /\ \A a \in Admin : pc[a] \in {"create", "write", "rename"} => lines[a]

RestInv == ~overlapped => LinesInv

LEMMA RestStep ==
  ASSUME "read" \notin Fault
  PROVE  TypeOK /\ SavedInv /\ RestInv /\ [Next]_vars => RestInv'
<1> SUFFICES ASSUME TypeOK, SavedInv, RestInv, [Next]_vars, ~overlapped'
             PROVE  LinesInv'
  BY DEF RestInv
<1> USE DEF files, history, Goto
<1>0. AloneInv /\ LinesInv
  BY OverlapStays DEF SavedInv, RestInv
<1>1. ASSUME NEW a \in Admin, NEW m \in Mode, Toggle(a, m) PROVE LinesInv'
  BY <1>0, <1>1 DEF Toggle, TypeOK, LinesInv
<1>2. ASSUME NEW a \in Admin, Read(a) PROVE LinesInv'
  <2>1. env' = env /\ lines' = [lines EXCEPT ![a] = env.rest]
    BY <1>2 DEF Read
  <2>2. \A b \in Admin : lines'[b] = IF b = a THEN env.rest ELSE lines[b]
    BY <2>1, Zenon DEF TypeOK
  <2>3. \A b \in Admin : b # a => pc'[b] = pc[b]
    BY <1>2 DEF Read, TypeOK
  <2> QED
    BY <1>0, <2>1, <2>2, <2>3, Zenon DEF LinesInv
<1>3. ASSUME NEW a \in Admin, Create(a) PROVE LinesInv'
  BY <1>0, <1>3 DEF Create, TypeOK, LinesInv
<1>4. ASSUME NEW a \in Admin, Write(a) PROVE LinesInv'
  <2>1. fd[a] = "tmp"
    BY <1>0, <1>4 DEF Write, AloneInv
  <2>2. env' = env
    BY <1>4, <2>1 DEF Write
  <2> QED
    BY <1>0, <1>4, <2>2 DEF Write, TypeOK, LinesInv
<1>5. ASSUME NEW a \in Admin, CreateFails(a) \/ WriteFails(a) \/ RenameFails(a)
      PROVE  LinesInv'
  BY <1>0, <1>5 DEF CreateFails, WriteFails, RenameFails, TypeOK, LinesInv
<1>6. ASSUME NEW a \in Admin, Rename(a) PROVE LinesInv'
  <2>1. env' = New(a)
    BY <1>0, <1>6 DEF Rename, AloneInv
  <2>2. New(a).rest = lines[a]
    BY Zenon DEF New
  <2>3. lines[a]
    BY <1>0, <1>6 DEF Rename, LinesInv
  <2>4. env'.rest
    BY <2>1, <2>2, <2>3, Zenon
  <2> QED
    BY <1>0, <1>6, <2>4 DEF Rename, TypeOK, LinesInv
<1>7. CASE Restart \/ Recreate
  BY <1>0, <1>7 DEF Restart, Recreate, Boot, LinesInv
<1>8. CASE UNCHANGED vars
  BY <1>0, <1>8 DEF vars, LinesInv
<1> QED
  BY <1>1, <1>2, <1>3, <1>4, <1>5, <1>6, <1>7, <1>8 DEF Next

\* When ADMIN_ENV_FILE can be read, toggles that come one after the other never
\* lose another setting, also when a save fails or the guard is killed.
THEOREM SettingsCorrect ==
  ASSUME "read" \notin Fault
  PROVE  Spec => []SettingsKept
<1>1. Init => RestInv
  BY DEF Init, RestInv, LinesInv
<1>2. RestInv => SettingsKept
  BY DEF RestInv, LinesInv, SettingsKept
<1> QED
  BY <1>1, <1>2, RestStep, SavedHolds, TypeCorrect, PTL DEF Spec
=============================================================================
