--------------------------- MODULE BurnStoreProofs ---------------------------
(***************************************************************************)
(* Proofs about BurnStore for any number of goroutines, links and expiry   *)
(* times, with the guard killed and restarted at any step.  Types, and     *)
(* that no link is spent in vain, need no assumption; everything else      *)
(* assumes single-use links and a file system whose operations succeed,    *)
(* which is what NoSilentFault says.                                       *)
(***************************************************************************)
EXTENDS BurnStore, TLAPS

NoSilentFault == SingleUse = TRUE /\ Fault = {}

\* A goroutine past "idle" holds a request.
HasRequest == \A t \in Thread : pc[t] # "idle" => req[t] \in Key

TypeInv == TypeOK /\ HasRequest

\* Whoever is inside tryBurnSealed holds muUsed, and nobody else does.
MutexInv == \A t \in Thread : pc[t] \in InSection <=> muUsed = t

\* Between the read and the rename nobody else changes either file.
SectionInv ==
  \A t \in Thread :
    /\ pc[t] = "write"  => req[t] \notin used /\ seen[t] = used \union {req[t]}
    /\ pc[t] = "rename" => req[t] \notin used /\ tmp = {used \union {req[t]}}

\* One goroutine at most is on its way to the backend with a key, the key is
\* burnt and nobody has passed with it; whoever has passed left it burnt.
PassInv ==
  /\ \A t \in Thread : pc[t] = "proxy" => req[t] \in used /\ passes[req[t]] = 0
  /\ \A t, u \in Thread :
       pc[t] = "proxy" /\ pc[u] = "proxy" /\ req[t] = req[u] => t = u
  /\ \A k \in Key : passes[k] <= 1 /\ (passes[k] > 0 => k \in used)

IInv == TypeInv /\ MutexInv /\ SectionInv /\ PassInv
------------------------------------------------------------------------------
(* Types.                                                                  *)

\* Each step of a goroutine and of the environment keeps the types.
LEMMA TypeStep == TypeInv /\ [Next]_vars => TypeInv'
<1> SUFFICES ASSUME TypeInv, [Next]_vars PROVE TypeInv'
  OBVIOUS
<1> USE ConstantsAssumption DEF TypeInv, TypeOK, HasRequest, InSection
<1>1. ASSUME NEW t \in Thread, NEW k \in Key, Arrive(t, k) PROVE TypeInv'
  BY <1>1 DEF Arrive
<1>2. ASSUME NEW t \in Thread, Refuse(t) PROVE TypeInv'
  BY <1>2 DEF Refuse, Reply
<1>3. ASSUME NEW t \in Thread, Verify(t) PROVE TypeInv'
  BY <1>3 DEF Verify
<1>4. ASSUME NEW t \in Thread, Lock(t) PROVE TypeInv'
  BY <1>4 DEF Lock
<1>5. ASSUME NEW t \in Thread, ReadBurned(t) PROVE TypeInv'
  BY <1>5 DEF ReadBurned, Reply
<1>6. ASSUME NEW t \in Thread, ReadFresh(t) PROVE TypeInv'
  <2>1. PICK m \in ReadResults : seen' = [seen EXCEPT ![t] = m \union {req[t]}]
    BY <1>6 DEF ReadFresh
  <2>2. m \subseteq Key
    BY DEF ReadResults
  <2>3. req[t] \in Key
    BY <1>6 DEF ReadFresh
  <2> QED
    BY <1>6, <2>1, <2>2, <2>3 DEF ReadFresh
<1>7. ASSUME NEW t \in Thread, WriteTmp(t) PROVE TypeInv'
  BY <1>7 DEF WriteTmp
<1>8. ASSUME NEW t \in Thread, Rename(t) PROVE TypeInv'
  BY <1>8 DEF Rename
<1>9. ASSUME NEW t \in Thread, Proxy(t) PROVE TypeInv'
  BY <1>9 DEF Proxy, Reply
<1>10. CASE CrashRestart
  BY <1>10 DEF CrashRestart
<1>11. CASE Tick
  BY <1>11 DEF Tick
<1>12. CASE UNCHANGED vars
  BY <1>12 DEF vars
<1> QED
  BY <1>1, <1>2, <1>3, <1>4, <1>5, <1>6, <1>7, <1>8, <1>9, <1>10, <1>11, <1>12
  DEF Next

LEMMA TypeInit == Init => TypeInv
<1> SUFFICES ASSUME Init PROVE TypeInv
  OBVIOUS
<1>1. /\ now \in Nat /\ used \subseteq Key
      /\ tmp \subseteq SUBSET Key
      /\ muUsed \in Thread \union {NoThread}
      /\ crashed \in BOOLEAN
  BY DEF Init
<1>2. /\ pc \in [Thread -> {"idle", "verify", "lock", "proxy"} \union InSection]
      /\ req \in [Thread -> Key \union {NoKey}]
      /\ seen \in [Thread -> SUBSET Key]
  BY DEF Init
<1>3. passes \in [Key -> Nat]
  BY DEF Init
<1>4. HasRequest
  BY DEF Init, HasRequest
<1> QED
  BY <1>1, <1>2, <1>3, <1>4 DEF TypeInv, TypeOK

\* Every variable keeps its type, whatever fails and whenever the guard dies.
THEOREM TypeCorrect == Spec => []TypeOK
<1>1. TypeInv => TypeOK
  BY DEF TypeInv
<1> QED
  BY <1>1, TypeInit, TypeStep, PTL DEF Spec
------------------------------------------------------------------------------
(* Mutual exclusion inside tryBurnSealed.                                  *)

LEMMA MutexInit == Init => MutexInv
<1> SUFFICES ASSUME Init, NEW t \in Thread
             PROVE  pc[t] \in InSection <=> muUsed = t
  BY DEF MutexInv
<1>1. pc[t] = "idle" /\ muUsed = NoThread
  BY DEF Init
<1> QED
  BY <1>1, ConstantsAssumption DEF InSection

\* Only the holder moves inside the section, and only a free mutex is taken.
LEMMA MutexStep == TypeInv /\ MutexInv /\ [Next]_vars => MutexInv'
<1> SUFFICES ASSUME TypeInv, MutexInv, [Next]_vars PROVE MutexInv'
  OBVIOUS
<1> USE ConstantsAssumption DEF TypeInv, TypeOK, MutexInv, InSection
<1>1. ASSUME NEW t \in Thread, NEW k \in Key, Arrive(t, k) PROVE MutexInv'
  BY <1>1 DEF Arrive
<1>2. ASSUME NEW t \in Thread, Refuse(t) PROVE MutexInv'
  BY <1>2 DEF Refuse, Reply
<1>3. ASSUME NEW t \in Thread, Verify(t) PROVE MutexInv'
  BY <1>3 DEF Verify
<1>4. ASSUME NEW t \in Thread, Lock(t) PROVE MutexInv'
  BY <1>4 DEF Lock
<1>5. ASSUME NEW t \in Thread, ReadBurned(t) PROVE MutexInv'
  BY <1>5 DEF ReadBurned, Reply
<1>6. ASSUME NEW t \in Thread, ReadFresh(t) PROVE MutexInv'
  BY <1>6 DEF ReadFresh
<1>7. ASSUME NEW t \in Thread, WriteTmp(t) PROVE MutexInv'
  BY <1>7 DEF WriteTmp
<1>8. ASSUME NEW t \in Thread, Rename(t) PROVE MutexInv'
  BY <1>8 DEF Rename
<1>9. ASSUME NEW t \in Thread, Proxy(t) PROVE MutexInv'
  BY <1>9 DEF Proxy, Reply
<1>10. CASE CrashRestart
  BY <1>10 DEF CrashRestart
<1>11. CASE Tick
  BY <1>11 DEF Tick
<1>12. CASE UNCHANGED vars
  BY <1>12 DEF vars
<1> QED
  BY <1>1, <1>2, <1>3, <1>4, <1>5, <1>6, <1>7, <1>8, <1>9, <1>10, <1>11, <1>12
  DEF Next
------------------------------------------------------------------------------
(* The burn protocol.                                                      *)

LEMMA BurnInit == Init => SectionInv /\ PassInv
<1> SUFFICES ASSUME Init PROVE SectionInv /\ PassInv
  OBVIOUS
<1>1. \A t \in Thread : pc[t] = "idle"
  BY DEF Init
<1>2. \A k \in Key : passes[k] = 0
  BY DEF Init
<1> QED
  BY <1>1, <1>2 DEF SectionInv, PassInv

\* A step that moves no goroutine into the section or towards the backend, and
\* touches neither file nor history, keeps the burn protocol.
LEMMA QuietStep ==
  ASSUME SectionInv, PassInv,
         UNCHANGED <<used, tmp, passes>>,
         \A t \in Thread :
           pc'[t] \in InSection \union {"proxy"} =>
             \/ pc'[t] = "read"
             \/ pc'[t] = pc[t] /\ req'[t] = req[t] /\ seen'[t] = seen[t]
  PROVE  SectionInv' /\ PassInv'
<1>1. SectionInv'
  BY DEF SectionInv, InSection
<1>2. PassInv'
  BY DEF PassInv, InSection
<1> QED
  BY <1>1, <1>2

\* One case per action: the section's owner brings the burn from memory to the
\* .tmp file to USED_DB, and passing comes after.
LEMMA BurnStep ==
  NoSilentFault /\ IInv /\ [Next]_vars => SectionInv' /\ PassInv'
<1> SUFFICES ASSUME NoSilentFault, IInv, [Next]_vars
             PROVE  SectionInv' /\ PassInv'
  OBVIOUS
<1> USE ConstantsAssumption DEF IInv, TypeInv, TypeOK, HasRequest
<1>1. ASSUME NEW t \in Thread, NEW k \in Key, Arrive(t, k)
      PROVE  SectionInv' /\ PassInv'
  BY <1>1, QuietStep DEF Arrive, InSection
<1>2. ASSUME NEW t \in Thread, Refuse(t) PROVE SectionInv' /\ PassInv'
  BY <1>2, QuietStep DEF Refuse, Reply, InSection
<1>3. ASSUME NEW t \in Thread, Verify(t) PROVE SectionInv' /\ PassInv'
  BY <1>3, QuietStep DEF Verify, NoSilentFault, InSection
<1>4. ASSUME NEW t \in Thread, Lock(t) PROVE SectionInv' /\ PassInv'
  BY <1>4, QuietStep DEF Lock, InSection
<1>5. ASSUME NEW t \in Thread, ReadBurned(t) PROVE SectionInv' /\ PassInv'
  BY <1>5, QuietStep DEF ReadBurned, Reply, InSection
<1>6. ASSUME NEW t \in Thread, ReadFresh(t) PROVE SectionInv' /\ PassInv'
  <2>1. req[t] \notin used /\ seen' = [seen EXCEPT ![t] = used \union {req[t]}]
    BY <1>6 DEF ReadFresh, ReadResults, NoSilentFault
  <2>2. SectionInv'
    BY <1>6, <2>1 DEF ReadFresh, SectionInv
  <2>3. PassInv'
    BY <1>6 DEF ReadFresh, PassInv
  <2> QED
    BY <2>2, <2>3
<1>7. ASSUME NEW t \in Thread, WriteTmp(t) PROVE SectionInv' /\ PassInv'
  <2>1. tmp' = {used \union {req[t]}} /\ req[t] \notin used
    BY <1>7 DEF WriteTmp, NoSilentFault, SectionInv
  <2>2. \A u \in Thread : u # t => pc[u] \notin InSection
    BY <1>7 DEF WriteTmp, MutexInv, InSection
  <2>3. SectionInv'
    BY <1>7, <2>1, <2>2 DEF WriteTmp, SectionInv, InSection
  <2>4. PassInv'
    BY <1>7 DEF WriteTmp, PassInv
  <2> QED
    BY <2>3, <2>4
<1>8. ASSUME NEW t \in Thread, Rename(t) PROVE SectionInv' /\ PassInv'
  <2>1. req[t] \notin used /\ used' = used \union {req[t]}
    BY <1>8 DEF Rename, NoSilentFault, SectionInv
  <2>2. \A u \in Thread : u # t => pc[u] \notin InSection
    BY <1>8 DEF Rename, MutexInv, InSection
  <2>3. SectionInv'
    BY <1>8, <2>2 DEF Rename, SectionInv, InSection
  <2>4. passes[req[t]] = 0
    BY <1>8, <2>1 DEF Rename, PassInv
  <2>5. PassInv'
    BY <1>8, <2>1, <2>4 DEF Rename, PassInv
  <2> QED
    BY <2>3, <2>5
<1>9. ASSUME NEW t \in Thread, Proxy(t) PROVE SectionInv' /\ PassInv'
  <2>1. req[t] \in used /\ passes[req[t]] = 0
    BY <1>9 DEF Proxy, PassInv
  <2>2. SectionInv'
    BY <1>9 DEF Proxy, Reply, SectionInv
  <2>3. \A u \in Thread : u # t /\ pc[u] = "proxy" => req[u] # req[t]
    BY <1>9 DEF Proxy, PassInv
  <2>4. PassInv'
    BY <1>9, <2>1, <2>3 DEF Proxy, Reply, PassInv
  <2> QED
    BY <2>2, <2>4
<1>10. CASE CrashRestart
  <2>1. \A t \in Thread : pc'[t] = "idle"
    BY <1>10 DEF CrashRestart
  <2>2. SectionInv'
    BY <2>1 DEF SectionInv
  <2>3. PassInv'
    BY <1>10, <2>1 DEF CrashRestart, PassInv
  <2> QED
    BY <2>2, <2>3
<1>11. CASE Tick
  BY <1>11, QuietStep DEF Tick
<1>12. CASE UNCHANGED vars
  BY <1>12, QuietStep DEF vars
<1> QED
  BY <1>1, <1>2, <1>3, <1>4, <1>5, <1>6, <1>7, <1>8, <1>9, <1>10, <1>11, <1>12
  DEF Next
------------------------------------------------------------------------------
(* The properties.                                                         *)

LEMMA IInvCorrect == NoSilentFault => (Spec => []IInv)
<1> SUFFICES ASSUME NoSilentFault PROVE Spec => []IInv
  OBVIOUS
<1>1. Init => IInv
  BY TypeInit, MutexInit, BurnInit DEF IInv
<1>2. IInv /\ [Next]_vars => IInv'
  BY TypeStep, MutexStep, BurnStep DEF IInv
<1> QED
  BY <1>1, <1>2, PTL DEF Spec

\* On each channel a link lets at most one visitor through, whatever the
\* interleaving of the requests and the restarts of the guard.
THEOREM SingleUseCorrect == NoSilentFault => (Spec => []AtMostOnce)
<1>1. IInv => AtMostOnce
  BY DEF IInv, PassInv, AtMostOnce
<1> QED
  BY <1>1, IInvCorrect, PTL

\* A visitor is let through only by a burn that is on disk and stays there.
THEOREM BurnDurable == NoSilentFault => (Spec => []NoLostBurn)
<1>1. IInv => NoLostBurn
  BY DEF IInv, PassInv, NoLostBurn
<1> QED
  BY <1>1, IInvCorrect, PTL

\* The rest of the way to the backend: whoever is on it arrives, or is killed.
Burning == {"write", "rename", "proxy"}

\* Somebody has passed with the key or is on that way, or the guard was killed.
Backed(k) ==
  \/ passes[k] > 0
  \/ \E t \in Thread : pc[t] \in Burning /\ req[t] = k
  \/ crashed

\* What may become USED_DB holds such keys only, whatever was read or written.
BackedInv ==
  /\ \A t \in Thread : pc[t] = "write" => \A k \in seen[t] : Backed(k)
  /\ \A f \in tmp : \A k \in f : Backed(k)

\* Nobody on the way to the backend leaves it but by passing.
LEMMA BackedStable ==
  ASSUME \A t \in Thread : pc[t] \in Burning =>
           \/ pc'[t] \in Burning /\ req'[t] = req[t]
           \/ passes'[req[t]] > 0,
         \A k \in Key : passes[k] > 0 => passes'[k] > 0,
         crashed => crashed', NEW k \in Key, Backed(k)
  PROVE  Backed(k)'
BY DEF Backed

\* A step that touches no file and moves nobody on that way.
LEMMA BackedQuiet ==
  ASSUME TypeInv, BackedInv, NoWastedBurn, UNCHANGED <<used, tmp, passes, crashed>>,
         \A t \in Thread :
           pc[t] \in Burning \/ pc'[t] \in Burning \ {"proxy"} =>
             pc'[t] = pc[t] /\ req'[t] = req[t] /\ seen'[t] = seen[t]
  PROVE  BackedInv' /\ NoWastedBurn'
<1>1. \A k \in Key : Backed(k) => Backed(k)'
  BY DEF Backed
<1>2. ASSUME NEW t \in Thread, pc'[t] = "write", NEW k \in seen'[t] PROVE Backed(k)'
  <2>1. pc[t] = "write" /\ seen'[t] = seen[t]
    BY <1>2 DEF Burning
  <2>2. k \in Key
    BY <1>2, <2>1 DEF TypeInv, TypeOK
  <2> QED
    BY <1>1, <1>2, <2>1, <2>2 DEF BackedInv
<1>3. ASSUME NEW f \in tmp', NEW k \in f PROVE Backed(k)'
  <2>1. f \in tmp /\ k \in Key
    BY <1>3 DEF TypeInv, TypeOK
  <2> QED
    BY <1>1, <1>3, <2>1 DEF BackedInv
<1>4. NoWastedBurn'
  BY DEF NoWastedBurn, Burning
<1> QED
  BY <1>2, <1>3, <1>4 DEF BackedInv

LEMMA BackedStep ==
  TypeInv /\ MutexInv /\ BackedInv /\ NoWastedBurn /\ [Next]_vars
    => BackedInv' /\ NoWastedBurn'
<1> SUFFICES ASSUME TypeInv, MutexInv, BackedInv, NoWastedBurn, [Next]_vars
             PROVE  BackedInv' /\ NoWastedBurn'
  OBVIOUS
<1>1. /\ pc \in [Thread -> {"idle", "verify", "lock", "proxy"} \union InSection]
      /\ req \in [Thread -> Key \union {NoKey}]
      /\ seen \in [Thread -> SUBSET Key]
      /\ passes \in [Key -> Nat]
      /\ used \subseteq Key /\ tmp \subseteq SUBSET Key
      /\ \A t \in Thread : pc[t] # "idle" => req[t] \in Key
  BY DEF TypeInv, TypeOK, HasRequest
<1>2. ASSUME NEW t \in Thread, NEW k \in Key, Arrive(t, k)
      PROVE  BackedInv' /\ NoWastedBurn'
  BY <1>1, <1>2, BackedQuiet DEF Arrive, Burning
<1>3. ASSUME NEW t \in Thread, Refuse(t) \/ Verify(t) \/ Lock(t) \/ ReadBurned(t)
      PROVE  BackedInv' /\ NoWastedBurn'
  BY <1>1, <1>3, BackedQuiet DEF Refuse, Verify, Lock, ReadBurned, Reply, Burning
<1>4. ASSUME NEW t \in Thread, ReadFresh(t) PROVE BackedInv' /\ NoWastedBurn'
  <2>1. PICK m \in ReadResults : seen' = [seen EXCEPT ![t] = m \union {req[t]}]
    BY <1>4 DEF ReadFresh
  <2>2. m \subseteq used
    BY DEF ReadResults
  <2>3. /\ pc[t] = "read" /\ pc' = [pc EXCEPT ![t] = "write"]
        /\ UNCHANGED <<used, tmp, req, passes, crashed>>
    BY <1>4 DEF ReadFresh
  <2>4. \A k \in Key : Backed(k) => Backed(k)'
    BY <1>1, <2>3 DEF Backed, Burning
  <2>5. \A k : k = req[t] => Backed(k)'
    BY <1>1, <2>3 DEF Backed, Burning
  <2>6. \A k \in used : Backed(k)
    BY DEF NoWastedBurn, Backed, Burning
  <2>7. ASSUME NEW u \in Thread, pc'[u] = "write", NEW k \in seen'[u] PROVE Backed(k)'
    <3>1. CASE u = t
      <4>1. k \in m \/ k = req[t]
        BY <1>1, <2>1, <2>7, <3>1
      <4>2. k \in m => k \in Key /\ Backed(k)
        BY <1>1, <2>2, <2>6
      <4> QED
        BY <2>4, <2>5, <4>1, <4>2
    <3>2. CASE u # t
      <4>1. pc[u] = "write" /\ seen'[u] = seen[u]
        BY <1>1, <2>1, <2>3, <2>7, <3>2
      <4> QED
        BY <1>1, <2>4, <2>7, <4>1 DEF BackedInv
    <3> QED
      BY <3>1, <3>2
  <2>8. ASSUME NEW f \in tmp', NEW k \in f PROVE Backed(k)'
    BY <1>1, <2>3, <2>4, <2>8 DEF BackedInv
  <2>9. NoWastedBurn'
    BY <1>1, <2>3 DEF NoWastedBurn
  <2> QED
    BY <2>7, <2>8, <2>9 DEF BackedInv
<1>5. ASSUME NEW t \in Thread, WriteTmp(t) PROVE BackedInv' /\ NoWastedBurn'
  <2>1. /\ pc[t] = "write" /\ pc' = [pc EXCEPT ![t] = "rename"]
        /\ UNCHANGED <<used, req, seen, passes, crashed>>
        /\ tmp' \in {{seen[t]}, tmp, {{}}}
    BY <1>5 DEF WriteTmp
  <2>2. \A k \in Key : Backed(k) => Backed(k)'
    BY <1>1, <2>1 DEF Backed, Burning
  <2>3. ASSUME NEW u \in Thread, pc'[u] = "write", NEW k \in seen'[u] PROVE Backed(k)'
    <3>1. pc[u] = "write" /\ k \in seen[u]
      BY <1>1, <2>1, <2>3
    <3> QED
      BY <1>1, <2>2, <3>1 DEF BackedInv
  <2>4. ASSUME NEW f \in tmp', NEW k \in f PROVE Backed(k)'
    <3>1. f = seen[t] \/ f \in tmp
      BY <2>1, <2>4
    <3>2. k \in Key /\ Backed(k)
      BY <1>1, <2>1, <2>4, <3>1 DEF BackedInv
    <3> QED
      BY <2>2, <3>2
  <2>5. NoWastedBurn'
    BY <1>1, <2>1 DEF NoWastedBurn
  <2> QED
    BY <2>3, <2>4, <2>5 DEF BackedInv
<1>6. ASSUME NEW t \in Thread, Rename(t) PROVE BackedInv' /\ NoWastedBurn'
  <2>1. /\ pc[t] = "rename" /\ pc' = [pc EXCEPT ![t] = "proxy"]
        /\ UNCHANGED <<req, seen, passes, crashed>>
        /\ used' \in tmp \/ used' = used
        /\ tmp' \subseteq tmp
    BY <1>6 DEF Rename
  <2>2. \A u \in Thread : pc[u] \in {"write", "rename"} => u = t
    BY <1>1, <2>1 DEF MutexInv, InSection
  <2>3. \A k \in Key : Backed(k) => Backed(k)'
    BY <1>1, <2>1 DEF Backed, Burning
  <2>4. BackedInv'
    <3>1. \A u \in Thread : pc'[u] # "write"
      BY <1>1, <2>1, <2>2
    <3>2. ASSUME NEW f \in tmp', NEW k \in f PROVE Backed(k)'
      BY <1>1, <2>1, <2>3, <3>2 DEF BackedInv
    <3> QED
      BY <3>1, <3>2 DEF BackedInv
  <2>5. ASSUME NEW k \in used'
        PROVE  passes'[k] > 0 \/ (\E u \in Thread : pc'[u] = "proxy" /\ req'[u] = k) \/ crashed'
    <3>1. CASE k \in used
      BY <1>1, <2>1, <3>1 DEF NoWastedBurn
    <3>2. CASE k \notin used
      <4>1. Backed(k)
        BY <2>1, <2>5, <3>2 DEF BackedInv
      <4>2. ASSUME NEW u \in Thread, pc[u] \in Burning, req[u] = k
            PROVE  pc'[u] = "proxy" /\ req'[u] = k
        BY <1>1, <2>1, <2>2, <4>2 DEF Burning
      <4> QED
        BY <2>1, <4>1, <4>2 DEF Backed
    <3> QED
      BY <3>1, <3>2
  <2> QED
    BY <2>4, <2>5 DEF NoWastedBurn
<1>7. ASSUME NEW t \in Thread, Proxy(t) PROVE BackedInv' /\ NoWastedBurn'
  <2>1. /\ pc[t] = "proxy" /\ req[t] \in Key
        /\ pc' = [pc EXCEPT ![t] = "idle"]
        /\ \A u \in Thread : u # t => req'[u] = req[u] /\ seen'[u] = seen[u]
        /\ passes' = [passes EXCEPT ![req[t]] = @ + 1]
        /\ UNCHANGED <<used, tmp, crashed>>
    BY <1>1, <1>7 DEF Proxy, Reply
  <2>2. passes'[req[t]] > 0 /\ \A k \in Key : passes[k] > 0 => passes'[k] > 0
    BY <1>1, <2>1
  <2>3. \A k \in Key : Backed(k) => Backed(k)'
    BY <1>1, <2>1, <2>2, BackedStable DEF Burning
  <2>4. ASSUME NEW u \in Thread, pc'[u] = "write", NEW k \in seen'[u] PROVE Backed(k)'
    <3>1. pc[u] = "write" /\ k \in seen[u]
      BY <1>1, <2>1, <2>4
    <3> QED
      BY <1>1, <2>3, <3>1 DEF BackedInv
  <2>5. ASSUME NEW f \in tmp', NEW k \in f PROVE Backed(k)'
    BY <1>1, <2>1, <2>3, <2>5 DEF BackedInv
  <2>6. NoWastedBurn'
    BY <1>1, <2>1, <2>2 DEF NoWastedBurn
  <2> QED
    BY <2>4, <2>5, <2>6 DEF BackedInv
<1>8. CASE CrashRestart
  BY <1>8 DEF CrashRestart, BackedInv, Backed, NoWastedBurn
<1>9. CASE Tick \/ UNCHANGED vars
  BY <1>9, BackedQuiet DEF Tick, vars
<1> QED
  BY <1>2, <1>3, <1>4, <1>5, <1>6, <1>7, <1>8, <1>9 DEF Next

\* Only a kill of the guard can spend a link without letting its visitor through;
\* an error of readJSONSet or writeJSONSet that is dropped cannot, whichever it is.
THEOREM BurnUseful == Spec => []NoWastedBurn
<1>1. Init => BackedInv /\ NoWastedBurn
  <2> SUFFICES ASSUME Init PROVE BackedInv /\ NoWastedBurn
    OBVIOUS
  <2>1. used = {} /\ tmp = {} /\ \A t \in Thread : pc[t] = "idle"
    BY DEF Init
  <2> QED
    BY <2>1 DEF BackedInv, NoWastedBurn
<1> QED
  BY <1>1, TypeInit, TypeStep, MutexInit, MutexStep, BackedStep, PTL DEF Spec

\* Mutex, file, goroutines and restarts together implement a single-use store:
\* a key is spent by the rename and used by the pass.
THEOREM Refinement == NoSilentFault => (Spec => StoreSpec)
<1> SUFFICES ASSUME NoSilentFault PROVE Spec => StoreSpec
  OBVIOUS
<1>1. Init => Store!Init
  BY DEF Init, Store!Init
<1>2. IInv /\ [Next]_vars => [Store!Next]_(Store!vars)
  <2> SUFFICES ASSUME IInv, [Next]_vars PROVE [Store!Next]_(Store!vars)
    OBVIOUS
  <2> USE DEF IInv, TypeInv, TypeOK, HasRequest
  <2>1. ASSUME UNCHANGED <<used, passes>> PROVE [Store!Next]_(Store!vars)
    BY <2>1 DEF Store!vars
  <2>2. ASSUME NEW t \in Thread, Rename(t) PROVE [Store!Next]_(Store!vars)
    <3>1. req[t] \in Key /\ req[t] \notin used /\ used' = used \union {req[t]}
      BY <2>2 DEF Rename, NoSilentFault, SectionInv
    <3>2. Store!Burn(req[t])
      BY <2>2, <3>1 DEF Rename, Store!Burn
    <3> QED
      BY <3>1, <3>2 DEF Store!Next
  <2>3. ASSUME NEW t \in Thread, Proxy(t) PROVE [Store!Next]_(Store!vars)
    <3>1. req[t] \in Key /\ req[t] \in used /\ passes[req[t]] = 0
      BY <2>3 DEF Proxy, PassInv
    <3>2. Store!Pass(req[t])
      BY <2>3, <3>1 DEF Proxy, Store!Pass
    <3> QED
      BY <3>1, <3>2 DEF Store!Next
  <2>4. ASSUME NEW t \in Thread,
               \/ Refuse(t) \/ Verify(t) \/ Lock(t)
               \/ ReadBurned(t) \/ ReadFresh(t) \/ WriteTmp(t)
        PROVE  [Store!Next]_(Store!vars)
    BY <2>1, <2>4 DEF Refuse, Verify, Lock, ReadBurned, ReadFresh, WriteTmp
  <2>5. ASSUME NEW t \in Thread, NEW k \in Key, Arrive(t, k)
        PROVE  [Store!Next]_(Store!vars)
    BY <2>1, <2>5 DEF Arrive
  <2>6. CASE CrashRestart \/ Tick \/ UNCHANGED vars
    BY <2>1, <2>6 DEF CrashRestart, Tick, vars
  <2> QED
    BY <2>2, <2>3, <2>4, <2>5, <2>6 DEF Next
<1> QED
  BY <1>1, <1>2, IInvCorrect, PTL DEF Spec, StoreSpec, Store!Spec
==============================================================================
