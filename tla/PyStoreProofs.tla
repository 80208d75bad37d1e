---------------------------- MODULE PyStoreProofs ----------------------------
(***************************************************************************)
(* Proofs about PyStore for any number of threads and links, any file      *)
(* operation that raises, waits that time out and kills at any step.       *)
(***************************************************************************)
EXTENDS PyStore, FiniteSetTheorems, TLAPS

Place == {"idle", "lock", "true", "false", "proxy"} \union InSection

\* Types, and that a thread at work has a link.
TypeInv ==
  /\ lock \in BOOLEAN
  /\ used \in File
  /\ tmp \subseteq File
  /\ pc \in [Thread -> Place]
  /\ req \in [Thread -> Link \union {NoLink}]
  /\ own \in [Thread -> BOOLEAN]
  /\ seen \in [Thread -> SUBSET Link]
  /\ fd \in [Thread -> {"none", "tmp", "db", "gone"}]
  /\ passes \in [Link -> Nat]
  /\ \A t \in Thread : pc[t] # "idle" => req[t] \in Link

LEMMA OverType ==
  ASSUME NEW old \in File, NEW new \in SUBSET Link
  PROVE  Over(old, new) \in File
BY DEF Over, File

LEMMA KeysType ==
  ASSUME NEW f \in File
  PROVE  Keys(f) \subseteq Link
BY DEF Keys, File
------------------------------------------------------------------------------
LEMMA TypeInit == Init => TypeInv
<1> SUFFICES ASSUME Init PROVE TypeInv
  OBVIOUS
<1>1. own \in [Thread -> BOOLEAN] /\ lock \in BOOLEAN
  BY Zenon DEF Init
<1>2. used \in File /\ tmp \subseteq File
  BY DEF Init, File, Empty
<1>3. pc \in [Thread -> Place] /\ \A t \in Thread : pc[t] = "idle"
  BY DEF Init, Place
<1>4. /\ req \in [Thread -> Link \union {NoLink}]
      /\ seen \in [Thread -> SUBSET Link]
      /\ fd \in [Thread -> {"none", "tmp", "db", "gone"}]
      /\ passes \in [Link -> Nat]
  BY DEF Init
<1> QED
  BY <1>1, <1>2, <1>3, <1>4 DEF TypeInv

LEMMA TypeStep == TypeInv /\ [Next]_vars => TypeInv'
<1> SUFFICES ASSUME TypeInv, [Next]_vars PROVE TypeInv'
  OBVIOUS
<1> USE DEF Goto, Place, InSection, store, local, history
<1>1. ASSUME NEW t \in Thread, NEW l \in Link, Arrive(t, l) PROVE TypeInv'
  BY <1>1 DEF Arrive, TypeInv
<1>2. ASSUME NEW t \in Thread, Acquire(t) PROVE TypeInv'
  <2>1. own' \in [Thread -> BOOLEAN] /\ lock' \in BOOLEAN
    BY <1>2, Zenon DEF Acquire, TypeInv
  <2>2. pc[t] = "lock" /\ pc' = [pc EXCEPT ![t] = "read"]
    BY <1>2 DEF Acquire, Enter
  <2>3. UNCHANGED <<used, tmp, req, seen, fd, passes>>
    BY <1>2 DEF Acquire
  <2> QED
    BY <2>1, <2>2, <2>3 DEF TypeInv
<1>3. ASSUME NEW t \in Thread, AcquireFails(t) PROVE TypeInv'
  BY <1>3 DEF AcquireFails, Done, TypeInv
<1>4. ASSUME NEW t \in Thread, GiveUp(t) PROVE TypeInv'
  <2>1. pc[t] = "lock" /\ pc' = [pc EXCEPT ![t] = "read"]
    BY <1>4 DEF GiveUp, Enter
  <2>2. UNCHANGED <<lock, used, tmp, req, own, seen, fd, passes>>
    BY <1>4 DEF GiveUp
  <2> QED
    BY <2>1, <2>2 DEF TypeInv
<1>5. ASSUME NEW t \in Thread, ReadUsed(t) PROVE TypeInv'
  BY <1>5 DEF ReadUsed, TypeInv
<1>6. ASSUME NEW t \in Thread, ReadFresh(t) PROVE TypeInv'
  <2>1. PICK r \in ReadResults : seen' = [seen EXCEPT ![t] = r.keys \union {req[t]}]
    BY <1>6 DEF ReadFresh
  <2>2. r.keys \subseteq Link
    BY <2>1, KeysType DEF ReadResults, TypeInv
  <2>3. pc[t] = "read" /\ req[t] \in Link
    BY <1>6 DEF ReadFresh, TypeInv
  <2>4. seen' \in [Thread -> SUBSET Link]
    BY <2>1, <2>2, <2>3 DEF TypeInv
  <2>5. UNCHANGED <<lock, used, tmp, req, own, fd, passes>>
    BY <1>6 DEF ReadFresh
  <2>6. pc' = [pc EXCEPT ![t] = "open"]
    BY <1>6 DEF ReadFresh
  <2> QED
    BY <2>3, <2>4, <2>5, <2>6 DEF TypeInv
<1>7. ASSUME NEW t \in Thread, OpenTmp(t) PROVE TypeInv'
  <2>1. Empty \in File
    BY DEF Empty, File
  <2> QED
    BY <1>7, <2>1 DEF OpenTmp, TypeInv
<1>8. ASSUME NEW t \in Thread, WriteTmp(t) PROVE TypeInv'
  <2>1. seen[t] \in SUBSET Link
    BY DEF TypeInv
  <2>2. tmp' \subseteq File
    BY <1>8, <2>1, OverType DEF WriteTmp, TypeInv
  <2>3. used' \in File
    BY <1>8, <2>1, OverType DEF WriteTmp, TypeInv
  <2> QED
    BY <1>8, <2>2, <2>3 DEF WriteTmp, TypeInv
<1>9. ASSUME NEW t \in Thread, Replace(t) PROVE TypeInv'
  BY <1>9 DEF Replace, TypeInv
<1>10. ASSUME NEW t \in Thread, Except(t) PROVE TypeInv'
  <2>1. pc[t] \in InSection
    BY <1>10 DEF Except, Raises
  <2> QED
    BY <1>10, <2>1 DEF Except, TypeInv
<1>11. ASSUME NEW t \in Thread, Release(t) PROVE TypeInv'
  <2>1. own' \in [Thread -> BOOLEAN]
    BY <1>11, Zenon DEF Release, TypeInv
  <2>2. lock' \in BOOLEAN
    BY <1>11 DEF Release, TypeInv
  <2>3. CASE Goto(t, "proxy") /\ UNCHANGED <<req, seen>>
    BY <1>11, <2>1, <2>2, <2>3 DEF Release, TypeInv
  <2>4. CASE Done(t)
    BY <1>11, <2>1, <2>2, <2>4 DEF Release, Done, TypeInv
  <2> QED
    BY <1>11, <2>3, <2>4 DEF Release
<1>12. ASSUME NEW t \in Thread, Proxy(t) PROVE TypeInv'
  BY <1>12 DEF Proxy, Done, TypeInv
<1>13. CASE CrashRestart
  <2>1. own' \in [Thread -> BOOLEAN]
    BY <1>13, Zenon DEF CrashRestart
  <2> QED
    BY <1>13, <2>1 DEF CrashRestart, TypeInv
<1>14. CASE UNCHANGED vars
  BY <1>14 DEF vars, TypeInv
<1> QED
  BY <1>1, <1>2, <1>3, <1>4, <1>5, <1>6, <1>7, <1>8, <1>9, <1>10, <1>11, <1>12,
     <1>13, <1>14
  DEF Next, Running

\* Every variable keeps its type.
THEOREM TypeCorrect == Spec => []TypeOK
<1> DEFINE Flags == {expired, overlapped, failed, crashed} \subseteq BOOLEAN
<1>1. Init => TypeInv /\ Flags
  <2>1. Init => Flags
    BY DEF Init
  <2> QED
    BY <2>1, TypeInit
<1>2. Flags /\ [Next]_vars => Flags'
  <2> SUFFICES ASSUME Flags, [Next]_vars PROVE Flags'
    OBVIOUS
  <2> USE DEF history
  <2>1. ASSUME NEW t \in Thread, Running(t) PROVE Flags'
    <3>1. CASE Acquire(t) \/ AcquireFails(t) \/ GiveUp(t)
      BY <3>1 DEF Acquire, AcquireFails, GiveUp, Enter
    <3>2. CASE ReadUsed(t) \/ ReadFresh(t)
      <4>1. ASSUME NEW r \in ReadResults PROVE r.raised = TRUE \/ r.raised = FALSE
        <5>1. \/ r = [keys |-> Keys(used), raised |-> FALSE]
              \/ r = [keys |-> {}, raised |-> TRUE]
          BY DEF ReadResults
        <5>2. CASE r = [keys |-> Keys(used), raised |-> FALSE]
          <6>1. r.raised = FALSE
            BY <5>2, Zenon
          <6> QED
            BY <6>1
        <5>3. CASE r = [keys |-> {}, raised |-> TRUE]
          <6>1. r.raised = TRUE
            BY <5>3, Zenon
          <6> QED
            BY <6>1
        <5> QED
          BY <5>1, <5>2, <5>3
      <4> QED
        BY <3>2, <4>1 DEF ReadUsed, ReadFresh
    <3>3. CASE OpenTmp(t) \/ WriteTmp(t) \/ Replace(t) \/ Except(t)
      BY <3>3 DEF OpenTmp, WriteTmp, Replace, Except
    <3>4. CASE Release(t) \/ Proxy(t)
      BY <3>4 DEF Release, Proxy
    <3> QED
      BY <2>1, <3>1, <3>2, <3>3, <3>4 DEF Running
  <2>2. ASSUME NEW t \in Thread, NEW l \in Link, Arrive(t, l) PROVE Flags'
    BY <2>2 DEF Arrive
  <2>3. CASE CrashRestart \/ UNCHANGED vars
    BY <2>3 DEF CrashRestart, vars
  <2> QED
    BY <2>1, <2>2, <2>3 DEF Next
<1>3. TypeInv /\ Flags => TypeOK
  BY DEF TypeInv, TypeOK, Place
<1> QED
  BY <1>1, <1>2, <1>3, TypeStep, PTL DEF Spec
------------------------------------------------------------------------------
(* The lock file.                                                          *)

\* A thread that created the lock file is on the way to remove it, and nobody
\* is on that way without it unless a wait has timed out.
Inside == InSection \union {"true", "false"}

OwnInv ==
  /\ \A t \in Thread : own[t] => pc[t] \in Inside
  /\ ~expired => \A t \in Thread : pc[t] \in Inside => own[t]

LockInv == LockOwned /\ OwnInv /\ ApartUnlessLate

LEMMA LockStep == TypeInv /\ LockInv /\ [Next]_vars => LockInv'
<1> SUFFICES ASSUME TypeInv, LockInv, [Next]_vars PROVE LockInv'
  OBVIOUS
<1> USE DEF LockInv, LockOwned, OwnInv, ApartUnlessLate, Goto, Place, Inside,
            InSection, store, local, history
\* A step that leaves the lock alone and stays inside or outside.
<1>1. ASSUME NEW t \in Thread, UNCHANGED <<lock, own, expired, overlapped, crashed>>,
             failed => failed',
             NEW l \in Place, Goto(t, l), pc[t] \in Inside <=> l \in Inside
      PROVE  LockInv'
  <2>1. pc'[t] = l /\ \A u \in Thread : u # t => pc'[u] = pc[u]
    BY <1>1 DEF TypeInv
  <2>2. \A u \in Thread : pc'[u] \in Inside <=> pc[u] \in Inside
    BY <1>1, <2>1
  <2>3. OwnInv'
    BY <1>1, <2>2
  <2>4. LockOwned' /\ ApartUnlessLate'
    BY <1>1
  <2> QED
    BY <2>3, <2>4
<1>2. ASSUME NEW t \in Thread, NEW l \in Link, Arrive(t, l) PROVE LockInv'
  BY <1>1, <1>2 DEF Arrive
<1>3. ASSUME NEW t \in Thread, Acquire(t) PROVE LockInv'
  <2>1. \A u \in Thread : ~own[u]
    BY <1>3 DEF Acquire
  <2>2. own'[t] /\ \A u \in Thread : u # t => ~own'[u]
    BY <1>3, <2>1 DEF Acquire, TypeInv
  <2>3. pc'[t] = "read" /\ \A u \in Thread : u # t => pc'[u] = pc[u]
    BY <1>3 DEF Acquire, Enter, TypeInv
  <2>4. lock' /\ UNCHANGED <<expired, failed, crashed>>
    BY <1>3 DEF Acquire
  <2>5. LockOwned'
    BY <2>2, <2>4
  <2>6. OwnInv'
    BY <2>1, <2>2, <2>3, <2>4
  <2>7. ApartUnlessLate'
    <3>1. overlapped' = (overlapped \/ \E u \in Thread \ {t} : pc[u] \in InSection)
      BY <1>3 DEF Acquire, Enter
    <3>2. ASSUME NEW u \in Thread, pc[u] \in InSection PROVE expired
      BY <2>1, <3>2
    <3>3. expired' = expired
      BY <2>4
    <3>4. (overlapped => expired) /\ (overlapped' => overlapped \/ expired)
      BY <3>1, <3>2
    <3> QED
      BY <3>3, <3>4
  <2> QED
    BY <2>5, <2>6, <2>7
<1>4. ASSUME NEW t \in Thread, AcquireFails(t) PROVE LockInv'
  BY <1>1, <1>4 DEF AcquireFails, Done
<1>5. ASSUME NEW t \in Thread, GiveUp(t) PROVE LockInv'
  <2>1. pc'[t] = "read" /\ \A u \in Thread : u # t => pc'[u] = pc[u]
    BY <1>5 DEF GiveUp, Enter, TypeInv
  <2>2. expired' /\ UNCHANGED <<lock, own, failed, crashed>>
    BY <1>5 DEF GiveUp
  <2> QED
    BY <2>1, <2>2
<1>6. ASSUME NEW t \in Thread, ReadUsed(t) PROVE LockInv'
  BY <1>1, <1>6 DEF ReadUsed
<1>7. ASSUME NEW t \in Thread, ReadFresh(t) PROVE LockInv'
  <2>1. failed => failed'
    BY <1>7 DEF ReadFresh
  <2> QED
    BY <1>1, <1>7, <2>1 DEF ReadFresh
<1>8. ASSUME NEW t \in Thread, OpenTmp(t) PROVE LockInv'
  BY <1>1, <1>8 DEF OpenTmp
<1>9. ASSUME NEW t \in Thread, WriteTmp(t) PROVE LockInv'
  BY <1>1, <1>9 DEF WriteTmp
<1>10. ASSUME NEW t \in Thread, Replace(t) PROVE LockInv'
  BY <1>1, <1>10 DEF Replace
<1>11. ASSUME NEW t \in Thread, Except(t) PROVE LockInv'
  BY <1>1, <1>11 DEF Except, Raises
<1>12. ASSUME NEW t \in Thread, Release(t) PROVE LockInv'
  <2>1. pc[t] \in {"true", "false"} /\ pc'[t] \in {"proxy", "idle"}
    BY <1>12 DEF Release, Done, TypeInv
  <2>2. \A u \in Thread : u # t => pc'[u] = pc[u]
    BY <1>12 DEF Release, Done, TypeInv
  <2>3. ~own'[t] /\ \A u \in Thread : u # t => own'[u] = own[u]
    BY <1>12 DEF Release, TypeInv
  <2>4. UNCHANGED <<expired, overlapped, crashed>>
    BY <1>12 DEF Release
  <2>5. \/ lock' = (lock /\ ~own[t]) /\ failed' = failed
        \/ own[t] /\ failed' /\ lock' = lock
    BY <1>12 DEF Release
  <2>6. OwnInv'
    BY <2>1, <2>2, <2>3, <2>4
  <2>7. LockOwned'
    BY <2>3, <2>4, <2>5
  <2> QED
    BY <2>4, <2>6, <2>7
<1>13. ASSUME NEW t \in Thread, Proxy(t) PROVE LockInv'
  BY <1>1, <1>13 DEF Proxy, Done
<1>14. CASE CrashRestart
  BY <1>14 DEF CrashRestart
<1>15. CASE UNCHANGED vars
  BY <1>15 DEF vars
<1> QED
  BY <1>2, <1>3, <1>4, <1>5, <1>6, <1>7, <1>8, <1>9, <1>10, <1>11, <1>12, <1>13,
     <1>14, <1>15
  DEF Next, Running

LEMMA LockInit == Init => LockInv
BY DEF Init, LockInv, LockOwned, OwnInv, ApartUnlessLate, Inside, InSection

\* The lock file has one owner at most, and is left behind only by a kill or a
\* removal that fails; two threads are in the section at once only after a
\* timeout.
THEOREM LockCorrect == Spec => []LockSafe
<1>1. LockInv => LockSafe
  BY DEF LockInv, LockSafe
<1> QED
  BY <1>1, TypeInit, TypeStep, LockInit, LockStep, PTL DEF Spec
------------------------------------------------------------------------------
(* Single use, while sections do not overlap and no file operation fails.  *)

Calm == ~overlapped /\ ~failed

\* One thread at a time is between the read of USED_DB and os.replace.
Alone ==
  \A t, u \in Thread : pc[t] \in InSection /\ pc[u] \in InSection => t = u

\* What it has read is still what the file says, its key is missing there, and
\* .tmp holds what it has written.
SectionInv ==
  \A t \in Thread :
    /\ pc[t] \in {"open", "write", "replace"} =>
         /\ seen[t] = Keys(used) \union {req[t]}
         /\ req[t] \notin Keys(used)
    /\ pc[t] = "write" => fd[t] = "tmp" /\ tmp = {Empty}
    /\ pc[t] = "replace" => tmp = {[keys |-> seen[t], torn |-> FALSE]}

Passing(t) == pc[t] \in {"true", "proxy"}

\* Whoever is let through has its key on disk, alone, and as the first.
PassInv ==
  \A t \in Thread : Passing(t) =>
    /\ req[t] \in Keys(used)
    /\ passes[req[t]] = 0
    /\ \A u \in Thread : Passing(u) /\ req[u] = req[t] => u = t

CountInv ==
  \A l \in Link : passes[l] <= 1 /\ (passes[l] > 0 => l \in Keys(used))

ApartInv == Calm => Alone /\ SectionInv /\ PassInv /\ CountInv

LEMMA OverEmpty ==
  ASSUME NEW new \in SUBSET Link
  PROVE  Over(Empty, new) = [keys |-> new, torn |-> FALSE]
<1>1. IsFiniteSet(new)
  BY ConstantsAssumption, FS_Subset
<1>2. Cardinality(new) \in Nat /\ Cardinality({}) = 0
  BY <1>1, FS_CardinalityType, FS_EmptySet
<1>3. ~(Cardinality({}) > Cardinality(new))
  BY <1>2
<1> QED
  BY <1>3 DEF Over, Empty

LEMMA ApartStep == TypeInv /\ ApartInv /\ [Next]_vars => ApartInv'
<1> SUFFICES ASSUME TypeInv, ApartInv, [Next]_vars, Calm'
             PROVE  (Alone /\ SectionInv /\ PassInv /\ CountInv)'
  BY DEF ApartInv
<1> DEFINE Good == Alone /\ SectionInv /\ PassInv /\ CountInv
           Kept(u) == /\ pc'[u] = pc[u] /\ req'[u] = req[u]
                      /\ seen'[u] = seen[u] /\ fd'[u] = fd[u]
<1> SUFFICES Good'
  OBVIOUS
<1> USE DEF Goto, store, local, history
\* The inductive hypothesis holds if the step cannot have ended the calm.
<1>0. ASSUME overlapped => overlapped', failed => failed' PROVE Good
  BY <1>0 DEF Calm, ApartInv
<1> HIDE DEF Good
\* A step of t that leaves files and visits alone, enters no section, passes
\* nobody, and is not on the way from the read to the replace.
<1>1. ASSUME NEW t \in Thread, Good, UNCHANGED <<used, tmp, passes>>,
             \A u \in Thread : u # t => Kept(u),
             pc'[t] \in {"idle", "lock", "false", "proxy"},
             pc'[t] = "proxy" => Passing(t) /\ req'[t] = req[t]
      PROVE  Good'
  <2>1. Alone'
    BY <1>1 DEF Good, Alone, InSection
  <2>2. SectionInv'
    BY <1>1 DEF Good, SectionInv
  <2>3. \A u \in Thread : Passing(u)' => Passing(u) /\ req'[u] = req[u]
    BY <1>1 DEF Passing
  <2>4. PassInv'
    BY <1>1, <2>3 DEF Good, PassInv
  <2>5. CountInv'
    BY <1>1 DEF Good, CountInv
  <2> QED
    BY <2>1, <2>2, <2>4, <2>5 DEF Good
<1>2. ASSUME NEW t \in Thread, NEW l \in Link, Arrive(t, l) PROVE Good'
  <2>1. Good
    BY <1>0, <1>2 DEF Arrive
  <2>2. pc'[t] = "lock" /\ \A u \in Thread : u # t => Kept(u)
    BY <1>2 DEF Arrive, TypeInv
  <2> QED
    BY <1>1, <1>2, <2>1, <2>2 DEF Arrive
<1>3. ASSUME NEW t \in Thread, Acquire(t) \/ GiveUp(t) PROVE Good'
  <2>1. pc[t] = "lock" /\ Enter(t) /\ UNCHANGED <<used, tmp, req, seen, fd, passes, failed>>
    BY <1>3 DEF Acquire, GiveUp
  <2>2. ~overlapped /\ ~failed /\ \A u \in Thread \ {t} : pc[u] \notin InSection
    BY <2>1 DEF Enter, Calm
  <2>3. Good
    BY <1>0, <2>2
  <2>4. pc'[t] = "read" /\ \A u \in Thread : u # t => Kept(u)
    BY <2>1 DEF Enter, TypeInv
  <2>5. Alone'
    BY <2>2, <2>4 DEF Alone
  <2>6. SectionInv'
    BY <2>1, <2>3, <2>4 DEF Good, SectionInv
  <2>7. PassInv'
    BY <2>1, <2>3, <2>4 DEF Good, PassInv, Passing
  <2>8. CountInv'
    BY <2>1, <2>3 DEF Good, CountInv
  <2> QED
    BY <2>5, <2>6, <2>7, <2>8 DEF Good
<1>4. ASSUME NEW t \in Thread, AcquireFails(t) \/ Except(t) PROVE Good'
  BY <1>4 DEF AcquireFails, Except, Calm
<1>5. ASSUME NEW t \in Thread, ReadUsed(t) PROVE Good'
  <2>1. Good
    BY <1>0, <1>5 DEF ReadUsed
  <2>2. pc'[t] = "false" /\ \A u \in Thread : u # t => Kept(u)
    BY <1>5 DEF ReadUsed, TypeInv
  <2> QED
    BY <1>1, <1>5, <2>1, <2>2 DEF ReadUsed
<1>6. ASSUME NEW t \in Thread, ReadFresh(t) PROVE Good'
  <2>1. Good
    BY <1>0, <1>6 DEF ReadFresh
  <2>2. PICK r \in ReadResults : /\ req[t] \notin r.keys
                                 /\ seen' = [seen EXCEPT ![t] = r.keys \union {req[t]}]
                                 /\ failed' = (failed \/ r.raised)
    BY <1>6 DEF ReadFresh
  <2>3. r = [keys |-> Keys(used), raised |-> FALSE]
    <3>1. \/ r = [keys |-> Keys(used), raised |-> FALSE]
          \/ r = [keys |-> {}, raised |-> TRUE]
      BY DEF ReadResults
    <3>2. CASE r = [keys |-> {}, raised |-> TRUE]
      <4>1. r.raised
        BY <3>2
      <4> QED
        BY <2>2, <4>1 DEF Calm
    <3> QED
      BY <3>1, <3>2
  <2>4. r.keys = Keys(used)
    BY <2>3
  <2>5. seen'[t] = Keys(used) \union {req[t]} /\ req[t] \notin Keys(used)
    BY <2>2, <2>4 DEF TypeInv
  <2>6. pc[t] = "read" /\ pc'[t] = "open" /\ UNCHANGED <<used, tmp, req, fd, passes>>
    BY <1>6 DEF ReadFresh, TypeInv
  <2>7. \A u \in Thread : u # t => Kept(u)
    BY <1>6, <2>2 DEF ReadFresh, TypeInv
  <2>8. Alone'
    BY <2>1, <2>6, <2>7 DEF Good, Alone, InSection
  <2>9. SectionInv'
    BY <2>1, <2>5, <2>6, <2>7 DEF Good, SectionInv
  <2>10. PassInv' /\ CountInv'
    BY <2>1, <2>6, <2>7 DEF Good, PassInv, Passing, CountInv
  <2> QED
    BY <2>8, <2>9, <2>10 DEF Good
\* The rest of the section: nobody else is in it.
<1>7. ASSUME NEW t \in Thread, Good, pc[t] \in InSection, NEW u \in Thread, u # t
      PROVE  pc[u] \notin InSection
  BY <1>7 DEF Good, Alone
<1>8. ASSUME NEW t \in Thread, OpenTmp(t) PROVE Good'
  <2>1. Good
    BY <1>0, <1>8 DEF OpenTmp
  <2>2. /\ pc[t] = "open" /\ pc'[t] = "write" /\ fd'[t] = "tmp" /\ tmp' = {Empty}
        /\ UNCHANGED <<used, req, seen, passes>>
    BY <1>8 DEF OpenTmp, TypeInv
  <2>3. \A u \in Thread : u # t => pc[u] \notin InSection /\ Kept(u)
    BY <1>7, <1>8, <2>1, <2>2 DEF OpenTmp, TypeInv, InSection
  <2>4. Alone'
    BY <2>2, <2>3 DEF Alone
  <2>5. SectionInv'
    BY <2>1, <2>2, <2>3 DEF Good, SectionInv, InSection
  <2>6. PassInv' /\ CountInv'
    BY <2>1, <2>2, <2>3 DEF Good, PassInv, Passing, CountInv
  <2> QED
    BY <2>4, <2>5, <2>6 DEF Good
<1>9. ASSUME NEW t \in Thread, WriteTmp(t) PROVE Good'
  <2>1. Good
    BY <1>0, <1>9 DEF WriteTmp
  <2>2. pc[t] = "write" /\ fd[t] = "tmp" /\ tmp = {Empty}
    BY <1>9, <2>1 DEF WriteTmp, Good, SectionInv
  <2>3. /\ tmp' = {Over(Empty, seen[t])} /\ used' = used
        /\ pc'[t] = "replace" /\ UNCHANGED <<req, seen, passes>>
    BY <1>9, <2>2 DEF WriteTmp, TypeInv
  <2>4. tmp' = {[keys |-> seen[t], torn |-> FALSE]}
    BY <2>3, OverEmpty DEF TypeInv
  <2>5. \A u \in Thread : u # t => pc[u] \notin InSection /\ Kept(u)
    BY <1>7, <1>9, <2>1, <2>2 DEF WriteTmp, TypeInv, InSection
  <2>6. Alone'
    BY <2>3, <2>5 DEF Alone
  <2>7. SectionInv'
    BY <2>1, <2>2, <2>3, <2>4, <2>5 DEF Good, SectionInv, InSection
  <2>8. PassInv' /\ CountInv'
    BY <2>1, <2>2, <2>3, <2>5 DEF Good, PassInv, Passing, CountInv
  <2> QED
    BY <2>6, <2>7, <2>8 DEF Good
<1>10. ASSUME NEW t \in Thread, Replace(t) PROVE Good'
  <2>1. Good
    BY <1>0, <1>10 DEF Replace
  <2>2. /\ pc[t] = "replace" /\ tmp = {[keys |-> seen[t], torn |-> FALSE]}
        /\ seen[t] = Keys(used) \union {req[t]} /\ req[t] \notin Keys(used)
    BY <1>10, <2>1 DEF Replace, Good, SectionInv
  <2>3. Keys(used') = Keys(used) \union {req[t]}
    BY <1>10, <2>2 DEF Replace, Keys
  <2>4. /\ pc'[t] = "true" /\ UNCHANGED <<req, seen, passes>>
        /\ \A u \in Thread : u # t => pc'[u] = pc[u]
    BY <1>10 DEF Replace, TypeInv
  <2>5. \A u \in Thread : u # t => pc[u] \notin InSection
    BY <1>7, <2>1, <2>2 DEF InSection
  <2>6. Alone' /\ SectionInv'
    BY <2>4, <2>5 DEF Alone, SectionInv, InSection
  <2>7. passes[req[t]] = 0
    BY <2>1, <2>2 DEF Good, CountInv, TypeInv
  <2>8. \A u \in Thread : u # t /\ Passing(u)' => Passing(u) /\ req[u] # req[t]
    BY <2>1, <2>2, <2>4 DEF Good, PassInv, Passing
  <2>9. PassInv'
    BY <2>1, <2>3, <2>4, <2>7, <2>8 DEF Good, PassInv
  <2>10. CountInv'
    BY <2>1, <2>3, <2>4 DEF Good, CountInv
  <2> QED
    BY <2>6, <2>9, <2>10 DEF Good
<1>11. ASSUME NEW t \in Thread, Release(t) PROVE Good'
  <2>1. Good
    BY <1>0, <1>11 DEF Release
  <2>2. /\ \A u \in Thread : u # t => Kept(u)
        /\ UNCHANGED <<used, tmp, passes>>
    BY <1>11 DEF Release, Done, TypeInv
  <2>3. \/ pc'[t] = "idle"
        \/ pc[t] = "true" /\ pc'[t] = "proxy" /\ req'[t] = req[t]
    BY <1>11 DEF Release, Done, TypeInv
  <2> QED
    BY <1>1, <2>1, <2>2, <2>3 DEF Passing
<1>12. ASSUME NEW t \in Thread, Proxy(t) PROVE Good'
  <2>1. Good
    BY <1>0, <1>12 DEF Proxy
  <2>2. /\ pc[t] = "proxy" /\ pc'[t] = "idle" /\ UNCHANGED <<used, tmp>>
        /\ \A u \in Thread : u # t => Kept(u)
    BY <1>12 DEF Proxy, Done, TypeInv
  <2>3. /\ req[t] \in Link /\ passes' = [passes EXCEPT ![req[t]] = @ + 1]
        /\ req[t] \in Keys(used) /\ passes[req[t]] = 0
    BY <1>12, <2>1, <2>2 DEF Proxy, TypeInv, Good, PassInv, Passing
  <2>4. /\ passes'[req[t]] = 1
        /\ \A l \in Link : l # req[t] => passes'[l] = passes[l]
    BY <2>3 DEF TypeInv
  <2>5. Alone'
    BY <2>1, <2>2 DEF Good, Alone, InSection
  <2>6. SectionInv'
    BY <2>1, <2>2 DEF Good, SectionInv
  <2>7. \A u \in Thread : Passing(u)' =>
           u # t /\ Passing(u) /\ req'[u] = req[u] /\ req[u] # req[t] /\ req[u] \in Link
    BY <2>1, <2>2 DEF Good, PassInv, Passing, TypeInv
  <2>8. PassInv'
    BY <2>1, <2>2, <2>4, <2>7 DEF Good, PassInv
  <2>9. CountInv'
    BY <2>1, <2>2, <2>3, <2>4 DEF Good, CountInv
  <2> QED
    BY <2>5, <2>6, <2>8, <2>9 DEF Good
<1>13. CASE CrashRestart
  <2>1. Good
    BY <1>0, <1>13 DEF CrashRestart
  <2> QED
    BY <1>13, <2>1
    DEF CrashRestart, Good, Alone, InSection, SectionInv, PassInv, Passing, CountInv
<1>14. CASE UNCHANGED vars
  <2>1. Good
    BY <1>0, <1>14 DEF vars
  <2> QED
    BY <1>14, <2>1
    DEF vars, Good, Alone, SectionInv, PassInv, Passing, CountInv
<1> QED
  BY <1>2, <1>3, <1>4, <1>5, <1>6, <1>8, <1>9, <1>10, <1>11, <1>12, <1>13, <1>14
  DEF Next, Running

LEMMA ApartInit == Init => ApartInv
<1> SUFFICES ASSUME Init PROVE Alone /\ SectionInv /\ PassInv /\ CountInv
  BY DEF ApartInv
<1>1. \A t \in Thread : pc[t] = "idle"
  BY DEF Init
<1>2. Alone /\ SectionInv /\ PassInv
  BY <1>1 DEF Alone, InSection, SectionInv, PassInv, Passing
<1>3. CountInv
  BY DEF Init, CountInv
<1> QED
  BY <1>2, <1>3

\* As long as sections do not overlap and no file operation fails, a link lets
\* one visitor through and whoever passes has its key on disk, whatever waits
\* time out and whenever the guard is killed.
THEOREM SingleUseCorrect == Spec => []BurnSafe
<1>1. ApartInv => AtMostOnceApart
  BY DEF ApartInv, AtMostOnceApart, Calm, CountInv
<1>2. ApartInv => NoLostBurnApart
  BY DEF ApartInv, NoLostBurnApart, Calm, CountInv, PassInv, Passing
<1>3. ApartInv => BurnSafe
  BY <1>1, <1>2 DEF BurnSafe
<1> QED
  BY <1>3, TypeInit, TypeStep, ApartInit, ApartStep, PTL DEF Spec
------------------------------------------------------------------------------
(* Burns are not wasted, whatever overlaps, raises or times out.           *)

\* Somebody has passed with l or passes next, or a kill is to blame.
Backed(l) ==
  \/ passes[l] > 0
  \/ \E t \in Thread : req[t] = l /\ pc[t] \in {"replace", "true", "proxy"}
  \/ crashed

\* Every key on its way to USED_DB is backed, but for the one a thread adds: it
\* will be when the thread has written it.
BackedInv ==
  /\ \A l \in Keys(used) : Backed(l)
  /\ \A f \in tmp : \A l \in Keys(f) : Backed(l)
  /\ \A t \in Thread : pc[t] \in {"open", "write"} =>
       \A l \in seen[t] \ {req[t]} : Backed(l)

LEMMA BackedStable ==
  TypeInv /\ [Next]_vars => \A l \in Link : Backed(l) => Backed(l)'
<1> SUFFICES ASSUME TypeInv, [Next]_vars, NEW l \in Link, Backed(l)
             PROVE  Backed(l)'
  OBVIOUS
<1> DEFINE Passes(u) == pc[u] \in {"replace", "true", "proxy"}
<1> USE DEF Goto, store, local, history
\* A step of t that takes no visit away and does not leave the way to a pass.
<1>1. ASSUME NEW t \in Thread, UNCHANGED <<passes, crashed>>,
             \A u \in Thread : u # t => pc'[u] = pc[u] /\ req'[u] = req[u],
             Passes(t) => req'[t] = req[t] /\ Passes(t)'
      PROVE  Backed(l)'
  <2>1. \A u \in Thread : Passes(u) => Passes(u)' /\ req'[u] = req[u]
    BY <1>1
  <2> QED
    BY <1>1, <2>1 DEF Backed
<1>2. ASSUME NEW t \in Thread, NEW k \in Link, Arrive(t, k) PROVE Backed(l)'
  BY <1>1, <1>2 DEF Arrive, TypeInv
<1>3. ASSUME NEW t \in Thread, Acquire(t) \/ GiveUp(t) PROVE Backed(l)'
  BY <1>1, <1>3 DEF Acquire, GiveUp, Enter, TypeInv
<1>4. ASSUME NEW t \in Thread, AcquireFails(t) PROVE Backed(l)'
  BY <1>1, <1>4 DEF AcquireFails, Done, TypeInv
<1>5. ASSUME NEW t \in Thread, ReadUsed(t) PROVE Backed(l)'
  BY <1>1, <1>5 DEF ReadUsed, TypeInv
<1>6. ASSUME NEW t \in Thread, ReadFresh(t) PROVE Backed(l)'
  BY <1>1, <1>6 DEF ReadFresh, TypeInv
<1>7. ASSUME NEW t \in Thread, OpenTmp(t) \/ WriteTmp(t) PROVE Backed(l)'
  BY <1>1, <1>7 DEF OpenTmp, WriteTmp, TypeInv
<1>8. ASSUME NEW t \in Thread, Replace(t) \/ Except(t) PROVE Backed(l)'
  BY <1>1, <1>8 DEF Replace, Except, TypeInv
<1>9. ASSUME NEW t \in Thread, Release(t) PROVE Backed(l)'
  <2>1. UNCHANGED <<passes, crashed>>
    BY <1>9 DEF Release
  <2>2. \A u \in Thread : u # t => pc'[u] = pc[u] /\ req'[u] = req[u]
    BY <1>9 DEF Release, Done, TypeInv
  <2>3. Passes(t) => req'[t] = req[t] /\ Passes(t)'
    BY <1>9 DEF Release, Done, TypeInv
  <2> QED
    BY <1>1, <2>1, <2>2, <2>3
<1>10. ASSUME NEW t \in Thread, Proxy(t) PROVE Backed(l)'
  <2>1. req[t] \in Link /\ passes' = [passes EXCEPT ![req[t]] = @ + 1]
    BY <1>10 DEF Proxy, TypeInv
  <2>2. \A k \in Link : passes[k] > 0 => passes'[k] > 0
    BY <2>1 DEF TypeInv
  <2>3. passes'[req[t]] > 0
    BY <2>1 DEF TypeInv
  <2>4. \A u \in Thread : u # t => pc'[u] = pc[u] /\ req'[u] = req[u]
    BY <1>10 DEF Proxy, Done, TypeInv
  <2>5. crashed' = crashed
    BY <1>10 DEF Proxy
  <2> QED
    BY <2>2, <2>3, <2>4, <2>5 DEF Backed
<1>11. CASE CrashRestart
  BY <1>11 DEF CrashRestart, Backed
<1>12. CASE UNCHANGED vars
  BY <1>12 DEF vars, Backed
<1> QED
  BY <1>2, <1>3, <1>4, <1>5, <1>6, <1>7, <1>8, <1>9, <1>10, <1>11, <1>12
  DEF Next, Running

LEMMA BackedStep == TypeInv /\ BackedInv /\ [Next]_vars => BackedInv'
<1> SUFFICES ASSUME TypeInv, BackedInv, [Next]_vars PROVE BackedInv'
  OBVIOUS
<1> USE DEF Goto, store, local, history
<1>0. \A l \in Link : Backed(l) => Backed(l)'
  BY BackedStable
<1>1. Keys(used) \subseteq Link /\ \A f \in tmp : Keys(f) \subseteq Link
  BY KeysType DEF TypeInv
<1>2. /\ \A l \in Keys(used) : Backed(l)'
      /\ \A f \in tmp : \A l \in Keys(f) : Backed(l)'
  BY <1>0, <1>1 DEF BackedInv
<1>3. \A t \in Thread : pc[t] \in {"open", "write"} =>
         \A l \in seen[t] \ {req[t]} : Backed(l)'
  BY <1>0 DEF BackedInv, TypeInv
\* A step that leaves the files alone and takes no thread into the section.
<1>4. ASSUME UNCHANGED <<used, tmp>>,
             \A t \in Thread : pc'[t] \in {"open", "write"} =>
               pc[t] \in {"open", "write"} /\ seen'[t] = seen[t] /\ req'[t] = req[t]
      PROVE  BackedInv'
  <2>1. (\A l \in Keys(used) : Backed(l))' /\ (\A f \in tmp : \A l \in Keys(f) : Backed(l))'
    BY <1>2, <1>4
  <2>2. \A t \in Thread : pc'[t] \in {"open", "write"} =>
           \A l \in seen'[t] \ {req'[t]} : Backed(l)'
    BY <1>3, <1>4
  <2> QED
    BY <2>1, <2>2 DEF BackedInv
<1>5. ASSUME NEW t \in Thread, NEW l \in Link, Arrive(t, l) PROVE BackedInv'
  BY <1>4, <1>5 DEF Arrive, TypeInv
<1>6. ASSUME NEW t \in Thread, Acquire(t) \/ GiveUp(t) PROVE BackedInv'
  BY <1>4, <1>6 DEF Acquire, GiveUp, Enter, TypeInv
<1>7. ASSUME NEW t \in Thread, AcquireFails(t) \/ Proxy(t) PROVE BackedInv'
  BY <1>4, <1>7 DEF AcquireFails, Proxy, Done, TypeInv
<1>8. ASSUME NEW t \in Thread, ReadUsed(t) \/ Except(t) PROVE BackedInv'
  BY <1>4, <1>8 DEF ReadUsed, Except, TypeInv
<1>9. ASSUME NEW t \in Thread, ReadFresh(t) PROVE BackedInv'
  <2>1. PICK r \in ReadResults : seen' = [seen EXCEPT ![t] = r.keys \union {req[t]}]
    BY <1>9 DEF ReadFresh
  <2>2. r.keys \subseteq Keys(used)
    <3>1. \/ r = [keys |-> Keys(used), raised |-> FALSE]
          \/ r = [keys |-> {}, raised |-> TRUE]
      BY DEF ReadResults
    <3> QED
      BY <3>1
  <2>3. seen'[t] \ {req[t]} \subseteq Keys(used)
    BY <2>1, <2>2 DEF TypeInv
  <2>4. UNCHANGED <<used, tmp, req>>
    BY <1>9 DEF ReadFresh
  <2>5. \A u \in Thread : u # t => pc'[u] = pc[u] /\ seen'[u] = seen[u]
    BY <1>9, <2>1 DEF ReadFresh, TypeInv
  <2>6. \A u \in Thread : pc'[u] \in {"open", "write"} =>
           \A l \in seen'[u] \ {req'[u]} : Backed(l)'
    BY <1>2, <1>3, <2>3, <2>4, <2>5
  <2>7. (\A l \in Keys(used) : Backed(l))' /\ (\A f \in tmp : \A l \in Keys(f) : Backed(l))'
    BY <1>2, <2>4
  <2> QED
    BY <2>6, <2>7 DEF BackedInv
<1>10. ASSUME NEW t \in Thread, OpenTmp(t) PROVE BackedInv'
  <2>1. tmp' = {Empty} /\ UNCHANGED <<used, req, seen>>
    BY <1>10 DEF OpenTmp
  <2>2. Keys(Empty) = {}
    BY DEF Keys, Empty
  <2>3. \A u \in Thread : pc'[u] \in {"open", "write"} => pc[u] \in {"open", "write"}
    BY <1>10 DEF OpenTmp, TypeInv
  <2>4. \A u \in Thread : pc'[u] \in {"open", "write"} =>
           \A l \in seen'[u] \ {req'[u]} : Backed(l)'
    BY <1>3, <2>1, <2>3
  <2>5. (\A l \in Keys(used) : Backed(l))' /\ (\A f \in tmp : \A l \in Keys(f) : Backed(l))'
    BY <1>2, <2>1, <2>2
  <2> QED
    BY <2>4, <2>5 DEF BackedInv
<1>11. ASSUME NEW t \in Thread, WriteTmp(t) PROVE BackedInv'
  <2>1. pc[t] = "write" /\ pc'[t] = "replace" /\ UNCHANGED <<req, seen>>
    BY <1>11 DEF WriteTmp, TypeInv
  <2>2. \A l \in seen[t] : Backed(l)'
    <3>1. Backed(req[t])'
      BY <2>1 DEF Backed
    <3> QED
      BY <1>3, <2>1, <3>1
  <2>3. \A f \in File : Keys(Over(f, seen[t])) \subseteq seen[t]
    BY DEF Over, Keys, File
  <2>4. used' = used \/ used' = Over(used, seen[t])
    BY <1>11 DEF WriteTmp
  <2>5. \A f \in tmp' : f \in tmp \/ \E g \in tmp : f = Over(g, seen[t])
    BY <1>11 DEF WriteTmp
  <2>6. \A l \in Keys(used') : Backed(l)'
    BY <1>2, <2>2, <2>3, <2>4 DEF TypeInv
  <2>7. \A f \in tmp' : \A l \in Keys(f) : Backed(l)'
    BY <1>2, <2>2, <2>3, <2>5 DEF TypeInv
  <2>8. \A u \in Thread : pc'[u] \in {"open", "write"} => pc[u] \in {"open", "write"}
    BY <1>11 DEF WriteTmp, TypeInv
  <2>9. \A u \in Thread : pc'[u] \in {"open", "write"} =>
           \A l \in seen'[u] \ {req'[u]} : Backed(l)'
    BY <1>3, <2>1, <2>8
  <2> QED
    BY <2>6, <2>7, <2>9 DEF BackedInv
<1>12. ASSUME NEW t \in Thread, Replace(t) PROVE BackedInv'
  <2>1. used' \in tmp /\ tmp' = {} /\ UNCHANGED <<req, seen>>
    BY <1>12 DEF Replace
  <2>2. \A u \in Thread : pc'[u] \in {"open", "write"} => pc[u] \in {"open", "write"}
    BY <1>12 DEF Replace, TypeInv
  <2>3. \A u \in Thread : pc'[u] \in {"open", "write"} =>
           \A l \in seen'[u] \ {req'[u]} : Backed(l)'
    BY <1>3, <2>1, <2>2
  <2>4. (\A l \in Keys(used) : Backed(l))' /\ (\A f \in tmp : \A l \in Keys(f) : Backed(l))'
    BY <1>2, <2>1
  <2> QED
    BY <2>3, <2>4 DEF BackedInv
<1>13. ASSUME NEW t \in Thread, Release(t) PROVE BackedInv'
  <2>1. UNCHANGED <<used, tmp>>
    BY <1>13 DEF Release
  <2>2. pc'[t] \in {"proxy", "idle"}
    BY <1>13 DEF Release, Done, TypeInv
  <2>3. \A u \in Thread : u # t =>
           pc'[u] = pc[u] /\ seen'[u] = seen[u] /\ req'[u] = req[u]
    BY <1>13 DEF Release, Done, TypeInv
  <2> QED
    BY <1>4, <2>1, <2>2, <2>3
<1>14. CASE CrashRestart
  BY <1>4, <1>14 DEF CrashRestart
<1>15. CASE UNCHANGED vars
  BY <1>4, <1>15 DEF vars
<1> QED
  BY <1>5, <1>6, <1>7, <1>8, <1>9, <1>10, <1>11, <1>12, <1>13, <1>14, <1>15
  DEF Next, Running

LEMMA BackedInit == Init => BackedInv
<1> SUFFICES ASSUME Init PROVE BackedInv
  OBVIOUS
<1>1. Keys(used) = {} /\ tmp = {}
  BY DEF Init, Keys, Empty
<1>2. \A t \in Thread : pc[t] = "idle"
  BY DEF Init
<1> QED
  BY <1>1, <1>2 DEF BackedInv

\* A link is refused as used only if somebody passes with it or the guard was
\* killed, whatever threads overlap, time out or fail.
THEOREM BurnUseful == Spec => []NoWastedBurn
<1>1. BackedInv => NoWastedBurn
  BY DEF BackedInv, Backed, NoWastedBurn
<1> QED
  BY <1>1, TypeInit, TypeStep, BackedInit, BackedStep, PTL DEF Spec
==============================================================================
