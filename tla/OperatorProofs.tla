---------------------------- MODULE OperatorProofs -----------------------------
(***************************************************************************)
(* Proofs about what the operator of the guard works with.                 *)
(*                                                                         *)
(* FrpUpdate: its types, and that .frp-version never runs ahead of         *)
(* docker-compose.yml, for any versions and kills.                         *)
(*                                                                         *)
(* Dashboard: that the log keeps the newest entries, and that nothing is   *)
(* shown that has not happened, for any goroutines, questions and size of  *)
(* the log.                                                                *)
(***************************************************************************)
EXTENDS FrpUpdate, Dashboard, FiniteSetTheorems, SequenceTheorems, TLAPS

\* From the check of the release to the write of .frp-version.
Decided == {"verify", "apply", "compose", "pin", "version"}

\* A file holds no version its track rules out.
OnTrack(f) ==
  f # Empty => /\ track = "patch" => f[1] = 0
               /\ track = "pinned" => f = First

\* A run works with what the files held when it began, and in this order.
RunInv ==
  /\ track = "pinned" => pc = "idle"
  /\ pc \in {"fetch", "verify", "apply", "compose", "pin"} => cur = pinned
  /\ pc \in Decided => /\ cur \in Version
                       /\ Newer(new, cur)
                       /\ OnTrack(new)
  /\ pc = "compose" => compose = Empty
  /\ pc \in {"pin", "version"} => compose = new
  /\ pc = "version" => pinned = Empty

FileInv ==
  /\ compose \in Version /\ pinned \in Version => ~Newer(pinned, compose)
  /\ OnTrack(compose) /\ OnTrack(pinned)

IInv == TypeOK /\ RunInv /\ FileInv

LEMMA VersionFacts ==
  /\ First \in Version /\ Empty \notin Version /\ First[1] = 0
  /\ \A v \in Version : v[1] \in Nat /\ v[2] \in Nat /\ ~Newer(v, v)
  /\ \A v, w \in Version : Newer(v, w) => ~Newer(w, v)
<1>1. First \in Version /\ First[1] = 0
  BY ConstantsAssumption DEF First, Version
<1>2. Empty \notin Version
  BY DEF Empty, Version
<1>3. \A v \in Version : v[1] \in Nat /\ v[2] \in Nat
  BY ConstantsAssumption DEF Version
<1>4. \A v, w \in Version : Newer(v, w) => ~Newer(w, v)
  BY <1>3 DEF Newer
<1>5. \A v \in Version : ~Newer(v, v)
  BY <1>3 DEF Newer
<1> QED
  BY <1>1, <1>2, <1>3, <1>4, <1>5

LEMMA InvInit == Init => IInv
<1> SUFFICES ASSUME Init PROVE IInv
  OBVIOUS
<1>1. TypeOK
  BY VersionFacts DEF Init, TypeOK, File
<1>2. RunInv
  BY DEF Init, RunInv, Decided
<1>3. FileInv
  BY VersionFacts DEF Init, FileInv, OnTrack
<1> QED
  BY <1>1, <1>2, <1>3 DEF IInv

LEMMA InvStep == IInv /\ [Next]_vars => IInv'
<1> SUFFICES ASSUME IInv, [Next]_vars PROVE IInv'
  OBVIOUS
<1>a. TypeOK /\ RunInv /\ FileInv
  BY DEF IInv
\* A step that leaves the files alone.
<1>1. ASSUME UNCHANGED <<track, compose, pinned>>, TypeOK', RunInv' PROVE IInv'
  BY <1>1, <1>a DEF IInv, FileInv, OnTrack
<1>2. CASE Publish
  <2>1. TypeOK'
    BY <1>2, <1>a DEF Publish, TypeOK
  <2>2. RunInv'
    BY <1>2, <1>a DEF Publish, RunInv, OnTrack
  <2> QED
    BY <1>1, <1>2, <2>1, <2>2 DEF Publish
<1>3. CASE Start
  <2>1. TypeOK'
    BY <1>3, <1>a DEF Start, TypeOK
  <2>2. RunInv'
    BY <1>3, <1>a DEF Start, RunInv, Decided
  <2> QED
    BY <1>1, <1>3, <2>1, <2>2 DEF Start
<1>4. CASE Fetch
  <2>1. TypeOK'
    BY <1>4, <1>a DEF Fetch, TypeOK
  <2>2. cur = pinned /\ pinned \in Version /\ new' \in Version /\ Newer(new', cur)
    BY <1>4, <1>a DEF Fetch, allowed, RunInv, TypeOK, File
  <2>3. OnTrack(new)'
    <3>1. track = "patch" => new'[1] = 0
      BY <1>4, <1>a, <2>2, VersionFacts DEF Fetch, allowed, FileInv, OnTrack
    <3>2. track # "pinned"
      BY <1>4, <1>a DEF Fetch, RunInv
    <3> QED
      BY <1>4, <3>1, <3>2 DEF Fetch, OnTrack
  <2>4. pc' = "verify" /\ UNCHANGED <<track, compose, pinned, cur>> /\ track # "pinned"
    BY <1>4, <1>a DEF Fetch, RunInv
  <2>5. RunInv'
    BY <2>2, <2>3, <2>4 DEF RunInv, Decided, OnTrack
  <2> QED
    BY <1>1, <2>1, <2>4, <2>5
<1>5. CASE Verified
  <2>1. TypeOK'
    BY <1>5, <1>a DEF Verified, TypeOK
  <2>2. RunInv'
    BY <1>5, <1>a DEF Verified, RunInv, Decided, OnTrack
  <2> QED
    BY <1>1, <1>5, <2>1, <2>2 DEF Verified
<1>6. CASE Ends \/ Killed
  <2>1. UNCHANGED <<track, latest, compose, pinned>> /\ Return
    BY <1>6 DEF Ends, Killed
  <2>2. torn' \in BOOLEAN
    BY <1>6, <1>a DEF Ends, Killed, TypeOK
  <2>3. TypeOK'
    BY <1>a, <2>1, <2>2, VersionFacts DEF Return, TypeOK, File
  <2>4. RunInv'
    BY <2>1 DEF Return, RunInv, Decided
  <2> QED
    BY <1>1, <2>1, <2>3, <2>4
<1>7. CASE TruncateCompose
  <2>1. TypeOK'
    BY <1>7, <1>a DEF TruncateCompose, TypeOK, File
  <2>2. RunInv'
    BY <1>7, <1>a DEF TruncateCompose, RunInv, Decided, OnTrack
  <2>3. FileInv'
    BY <1>7, <1>a, VersionFacts DEF TruncateCompose, FileInv, OnTrack
  <2> QED
    BY <2>1, <2>2, <2>3 DEF IInv
<1>8. CASE WriteCompose
  <2>1. TypeOK'
    BY <1>8, <1>a DEF WriteCompose, TypeOK, File
  <2>2. RunInv'
    BY <1>8, <1>a DEF WriteCompose, RunInv, Decided, OnTrack
  <2>3. compose' = new /\ pinned' = cur /\ cur \in Version /\ new \in Version /\ Newer(new, cur)
    BY <1>8, <1>a DEF WriteCompose, RunInv, Decided, TypeOK
  <2>4. ~Newer(pinned', compose')
    BY <2>3, VersionFacts
  <2>5. OnTrack(compose)' /\ OnTrack(pinned)'
    BY <1>8, <1>a DEF WriteCompose, RunInv, Decided, FileInv, OnTrack
  <2> QED
    BY <2>1, <2>2, <2>4, <2>5 DEF IInv, FileInv
<1>9. CASE TruncatePin
  <2>1. TypeOK'
    BY <1>9, <1>a DEF TruncatePin, TypeOK, File
  <2>2. RunInv'
    BY <1>9, <1>a DEF TruncatePin, RunInv, Decided, OnTrack
  <2>3. FileInv'
    BY <1>9, <1>a, VersionFacts DEF TruncatePin, FileInv, OnTrack
  <2> QED
    BY <2>1, <2>2, <2>3 DEF IInv
<1>10. CASE WritePin
  <2>1. TypeOK'
    BY <1>10, <1>a, VersionFacts DEF WritePin, Return, TypeOK, File
  <2>2. RunInv'
    BY <1>10 DEF WritePin, Return, RunInv, Decided
  <2>3. pinned' = new /\ compose' = new /\ new \in Version
    BY <1>10, <1>a DEF WritePin, RunInv, TypeOK
  <2>4. ~Newer(pinned', compose')
    BY <2>3, VersionFacts
  <2>5. OnTrack(compose)' /\ OnTrack(pinned)'
    BY <1>10, <1>a, <2>3 DEF WritePin, RunInv, Decided, OnTrack
  <2> QED
    BY <2>1, <2>2, <2>4, <2>5 DEF IInv, FileInv
<1>11. CASE UNCHANGED vars
  BY <1>11, <1>a DEF vars, IInv, TypeOK, RunInv, FileInv, OnTrack
<1> QED
  BY <1>2, <1>3, <1>4, <1>5, <1>6, <1>7, <1>8, <1>9, <1>10, <1>11 DEF Next, Work

\* The types of FrpUpdate hold, killed or not.
THEOREM TypeCorrect == Spec => []TypeOK
<1>1. IInv => TypeOK
  BY DEF IInv
<1> QED
  BY <1>1, InvInit, InvStep, PTL DEF Spec

\* Killed or not, .frp-version never names a version that docker-compose.yml does not
\* have yet, and both stay on the track.
THEOREM PinCorrect == Spec => []PinBehind
<1>1. IInv => PinBehind
  BY VersionFacts DEF IInv, TypeOK, File, FileInv, OnTrack, PinBehind
<1> QED
  BY <1>1, InvInit, InvStep, PTL DEF Spec
------------------------------------------------------------------------------
(* The dashboard.  Types of what withStats and the status API work with.   *)

Data == [mode : Mode, total : Nat, ok : Nat, deny : Nat]
Stage == {"none", "mode", "total", "ok", "deny", "answer"}

DashType ==
  /\ mode \in Mode
  /\ total \in Nat
  /\ kinds \in [Kind -> Nat]
  /\ recent \in Seq(Outcome) /\ pushed \in Seq(Outcome)
  /\ step \in [Thread -> {"handler", "total", "kind", "log"}]
  /\ entry \in [Thread -> Outcome]
  /\ poll \in [Poll -> [at : Stage, data : Data]]

\* The log is the end of all that was ever logged.
RingInv ==
  /\ Len(recent) = IF Len(pushed) < LogCap THEN Len(pushed) ELSE LogCap
  /\ \A i \in 1..Len(recent) : recent[i] = pushed[Len(pushed) - Len(recent) + i]

\* Who is inside withStats; who has counted in the total and not in a kind; who has
\* counted in kind k and not logged it.
Inside == {t \in Thread : step[t] # "handler"}
AtKind == {t \in Thread : step[t] = "kind"}
AtLog(k) == {t \in Thread : step[t] = "log" /\ entry[t] = k}
Logged(k) == {i \in DOMAIN pushed : pushed[i] = k}

\* What the data d of a question tells is not ahead of a total and of counters.
Covered(d, sum, ks) == d.total <= sum /\ d.ok <= ks["ok"] /\ d.deny <= ks["deny"]

\* They make up for the difference between total, kinds and log, and what a question
\* has loaded is not ahead of what it was loaded from.
AheadInv ==
  /\ IsFiniteSet(Inside)
  /\ \A k \in Kind : Cardinality(Logged(k)) + Cardinality(AtLog(k)) <= kinds[k]
  /\ kinds["ok"] + kinds["deny"] + Cardinality(AtKind) <= total
  /\ \A p \in Poll : Covered(poll[p].data, total, kinds)


\* The log is cut to its end.
LEMMA KeptLast ==
  ASSUME NEW log \in Seq(Outcome)
  PROVE  /\ Kept(log) \in Seq(Outcome)
         /\ Len(Kept(log)) = IF Len(log) > LogCap THEN LogCap ELSE Len(log)
         /\ \A i \in 1..Len(Kept(log)) : Kept(log)[i] = log[Len(log) - Len(Kept(log)) + i]
<1>1. Len(log) \in Nat /\ LogCap \in Nat \ {0}
  BY LenProperties, DashAssumption
<1>2. CASE Len(log) > LogCap
  <2> DEFINE m == Len(log) - LogCap + 1
  <2>1. m \in Nat /\ 1 <= m /\ m <= Len(log) /\ Len(log) - m + 1 = LogCap
    BY <1>1, <1>2
  <2>2. \A i \in m..Len(log) : log[i] \in Outcome
    BY <1>1, <2>1, ElementOfSeq
  <2>3. Kept(log) = SubSeq(log, m, Len(log))
    BY <1>2 DEF Kept
  <2> HIDE DEF m
  <2>4. /\ Kept(log) \in Seq(Outcome)
        /\ Len(Kept(log)) = IF m <= Len(log) THEN Len(log) - m + 1 ELSE 0
        /\ \A i \in 1..Len(log) - m + 1 : Kept(log)[i] = log[m + i - 1]
    BY <1>1, <2>1, <2>2, <2>3, SubSeqProperties
  <2>5. Len(Kept(log)) = LogCap
    BY <2>1, <2>4
  <2>6. ASSUME NEW i \in 1..LogCap PROVE Kept(log)[i] = log[Len(log) - LogCap + i]
    <3>1. m + i - 1 = Len(log) - LogCap + i
      BY <1>1, <2>1
    <3> QED
      BY <2>1, <2>4, <3>1
  <2> QED
    BY <1>2, <2>4, <2>5, <2>6
<1>3. CASE ~(Len(log) > LogCap)
  <2>1. Kept(log) = log
    BY <1>3 DEF Kept
  <2>2. \A i \in 1..Len(log) : Len(log) - Len(log) + i = i
    BY <1>1
  <2> QED
    BY <1>1, <1>3, <2>1, <2>2
<1> QED
  BY <1>2, <1>3

LEMMA DashTypeStep == DashType /\ [DashNext]_dashVars => DashType'
<1> SUFFICES ASSUME DashType, [DashNext]_dashVars PROVE DashType'
  OBVIOUS
<1> USE DEF DashType, Goto, requests
<1>1. ASSUME NEW t \in Thread, Served(t) PROVE DashType'
  BY <1>1 DEF Served
<1>2. ASSUME NEW t \in Thread, CountTotal(t) PROVE DashType'
  BY <1>2 DEF CountTotal
<1>3. "skip" \in Outcome
  BY DEF Outcome
<1>4. ASSUME NEW t \in Thread, CountKind(t) PROVE DashType'
  <2>1. kinds' \in [Kind -> Nat]
    BY <1>4 DEF CountKind
  <2>2. /\ step' \in [Thread -> {"handler", "total", "kind", "log"}]
        /\ entry' \in [Thread -> Outcome]
    BY <1>3, <1>4 DEF CountKind, Done
  <2> QED
    BY <1>4, <2>1, <2>2 DEF CountKind
<1>5. ASSUME NEW t \in Thread, PushLog(t) PROVE DashType'
  <2>1. Append(recent, entry[t]) \in Seq(Outcome) /\ pushed' \in Seq(Outcome)
    BY <1>5, AppendProperties DEF PushLog
  <2>2. recent' \in Seq(Outcome)
    BY <1>5, <2>1, KeptLast DEF PushLog
  <2>3. /\ step' \in [Thread -> {"handler", "total", "kind", "log"}]
        /\ entry' \in [Thread -> Outcome]
    BY <1>3, <1>5 DEF PushLog, Done
  <2> QED
    BY <1>5, <2>1, <2>2, <2>3 DEF PushLog
<1>6. ASSUME NEW p \in Poll, Status(p) PROVE DashType'
  <2> DEFINE d == poll[p].data
  <2>1. ASSUME NEW e \in Data, NEW at, NEW l \in Stage, Load(p, at, e, l)
        PROVE  DashType'
    <3>1. poll' = [poll EXCEPT ![p] = [at |-> l, data |-> e]]
      BY <2>1 DEF Load
    <3>2. poll' \in [Poll -> [at : Stage, data : Data]]
      BY <2>1, <3>1
    <3> QED
      BY <2>1, <3>2 DEF Load
  <2>2. kinds["ok"] \in Nat /\ kinds["deny"] \in Nat /\ d \in Data
    BY DEF Kind
  <2>3. /\ [d EXCEPT !.mode = mode] \in Data /\ [d EXCEPT !.total = total] \in Data
        /\ [d EXCEPT !.ok = kinds["ok"]] \in Data /\ [d EXCEPT !.deny = kinds["deny"]] \in Data
    BY <2>2 DEF Data
  <2>4. {"total", "ok", "deny", "answer"} \subseteq Stage
    BY DEF Stage
  <2> QED
    BY <1>6, <2>1, <2>3, <2>4 DEF Status
<1>7. ASSUME NEW at \in {"none", "mode"}
      PROVE  [at |-> at, data |-> Blank]
               \in [at : Stage, data : Data]
  <2>1. Blank \in Data
    BY DEF Blank, Data, Mode
  <2> QED
    BY <2>1 DEF Stage
<1>8. ASSUME NEW p \in Poll, Refresh(p) \/ Show(p) \/ Lost(p) PROVE DashType'
  <2>1. PICK at \in {"none", "mode"} : poll' = [poll EXCEPT ![p] = [at |-> at, data |-> Blank]]
    BY <1>8 DEF Refresh, Show, Lost, NoPoll
  <2>2. poll' \in [Poll -> [at : Stage, data : Data]]
    BY <1>7, <2>1
  <2>3. UNCHANGED <<mode, total, kinds, recent, pushed, step, entry>>
    BY <1>8 DEF Refresh, Show, Lost
  <2> QED
    BY <2>2, <2>3
<1>9. CASE Toggle
  BY <1>9 DEF Toggle
<1>10. CASE UNCHANGED dashVars
  BY <1>10 DEF dashVars
<1> QED
  BY <1>1, <1>2, <1>4, <1>5, <1>6, <1>8, <1>9, <1>10 DEF DashNext

LEMMA DashInitType == DashInit => DashType /\ RingInv /\ AheadInv
<1> SUFFICES ASSUME DashInit PROVE DashType /\ RingInv /\ AheadInv
  OBVIOUS
<1>1. recent = <<>> /\ pushed = <<>> /\ Len(recent) = 0 /\ Len(pushed) = 0
  BY EmptySeq DEF DashInit
<1>2. "skip" \in Outcome /\ Blank \in Data
  BY DEF Outcome, Blank, Data, Mode
<1>3. <<>> \in Seq(Outcome)
  BY EmptySeq
<1>4. DashType
  BY <1>1, <1>2, <1>3 DEF DashInit, DashType, NoPoll, Stage
<1>5. RingInv
  BY <1>1, DashAssumption DEF RingInv
<1>6. Inside = {} /\ AtKind = {} /\ \A k \in Kind : AtLog(k) = {} /\ Logged(k) = {}
  BY <1>1 DEF DashInit, Inside, AtKind, AtLog, Logged
<1>7. IsFiniteSet({}) /\ Cardinality({}) = 0
  BY FS_EmptySet
<1>8. \A k \in Kind : kinds[k] = 0
  BY DEF DashInit
<1>9. \A p \in Poll : poll[p].data = Blank
  BY DEF DashInit, NoPoll
<1>10. kinds["ok"] = 0 /\ kinds["deny"] = 0 /\ total = 0
  BY <1>8 DEF DashInit, Kind
<1>11. \A k \in Kind : Cardinality(Logged(k)) + Cardinality(AtLog(k)) <= kinds[k]
  BY <1>6, <1>7, <1>8
<1>12. kinds["ok"] + kinds["deny"] + Cardinality(AtKind) <= total
  BY <1>6, <1>7, <1>10
<1>13. \A p \in Poll : Covered(poll[p].data, total, kinds)
  BY <1>9, <1>10 DEF Covered, Blank
<1>14. AheadInv
  BY <1>6, <1>7, <1>11, <1>12, <1>13 DEF AheadInv
<1> QED
  BY <1>4, <1>5, <1>14
------------------------------------------------------------------------------
(* The log.                                                                *)

LEMMA RingStep == DashType /\ RingInv /\ [DashNext]_dashVars => RingInv'
<1> SUFFICES ASSUME DashType, RingInv, [DashNext]_dashVars PROVE RingInv'
  OBVIOUS
<1>1. ASSUME UNCHANGED <<recent, pushed>> PROVE RingInv'
  BY <1>1 DEF RingInv
<1>2. ASSUME NEW t \in Thread, PushLog(t) PROVE RingInv'
  <2> DEFINE log == Append(recent, entry[t])
             r == Len(recent)
             p == Len(pushed)
  <2>1. /\ recent' = Kept(log) /\ pushed' = Append(pushed, entry[t])
        /\ recent \in Seq(Outcome) /\ pushed \in Seq(Outcome) /\ entry[t] \in Outcome
    BY <1>2 DEF PushLog, DashType
  <2>2. r \in Nat /\ p \in Nat /\ LogCap \in Nat \ {0}
    BY <2>1, LenProperties, DashAssumption
  <2>3. /\ log \in Seq(Outcome) /\ Len(log) = r + 1 /\ log[r + 1] = entry[t]
        /\ \A i \in 1..r : log[i] = recent[i]
    BY <2>1, AppendProperties
  <2>4. /\ Len(pushed') = p + 1 /\ pushed'[p + 1] = entry[t]
        /\ \A i \in 1..p : pushed'[i] = pushed[i]
    BY <2>1, AppendProperties
  <2>5. /\ Len(recent') = IF r + 1 > LogCap THEN LogCap ELSE r + 1
        /\ \A i \in 1..Len(recent') : recent'[i] = log[r + 1 - Len(recent') + i]
    <3> HIDE DEF log, r, p
    <3>1. /\ Len(Kept(log)) = IF Len(log) > LogCap THEN LogCap ELSE Len(log)
          /\ \A i \in 1..Len(Kept(log)) : Kept(log)[i] = log[Len(log) - Len(Kept(log)) + i]
      BY <2>3, KeptLast
    <3>2. recent' = Kept(log)
      BY <2>1
    <3>3. /\ Len(recent') = IF Len(log) > LogCap THEN LogCap ELSE Len(log)
          /\ \A i \in 1..Len(recent') : recent'[i] = log[Len(log) - Len(recent') + i]
      BY <3>1, <3>2, Zenon
    <3>4. Len(log) = r + 1
      BY <2>3
    <3>5. Len(recent') = IF r + 1 > LogCap THEN LogCap ELSE r + 1
      BY <3>3, <3>4
    <3>6. ASSUME NEW i \in 1..Len(recent') PROVE recent'[i] = log[r + 1 - Len(recent') + i]
      <4>1. recent'[i] = log[Len(log) - Len(recent') + i]
        BY <3>3
      <4>2. Len(log) - Len(recent') + i = r + 1 - Len(recent') + i
        BY <2>2, <3>4, <3>5
      <4> QED
        BY <4>1, <4>2
    <3> QED
      BY <3>5, <3>6
  <2>6. /\ r = IF p < LogCap THEN p ELSE LogCap
        /\ \A i \in 1..r : recent[i] = pushed[p - r + i]
    BY DEF RingInv
  <2> HIDE DEF log, r, p
  <2>7. ASSUME NEW i \in 1..r + 1 PROVE log[i] = pushed'[p - r + i]
    <3>1. CASE i = r + 1
      BY <2>2, <2>3, <2>4, <3>1
    <3>2. CASE i # r + 1
      <4>1. i \in 1..r /\ p - r + i \in 1..p
        BY <2>2, <2>6, <3>2
      <4> QED
        BY <2>3, <2>4, <2>6, <4>1
    <3> QED
      BY <3>1, <3>2
  <2>8. Len(recent') = IF p + 1 < LogCap THEN p + 1 ELSE LogCap
    BY <2>2, <2>5, <2>6
  <2>9. ASSUME NEW i \in 1..Len(recent')
        PROVE  recent'[i] = pushed'[Len(pushed') - Len(recent') + i]
    <3>1. Len(recent') \in Nat /\ Len(recent') <= r + 1
      BY <2>2, <2>5
    <3>2. r + 1 - Len(recent') + i \in 1..r + 1
      BY <2>2, <2>9, <3>1
    <3>3. p - r + (r + 1 - Len(recent') + i) = Len(pushed') - Len(recent') + i
      BY <2>2, <2>4, <3>1
    <3> QED
      BY <2>5, <2>7, <3>2, <3>3
  <2> QED
    BY <2>4, <2>8, <2>9 DEF RingInv
<1> QED
  BY <1>1, <1>2
  DEF DashNext, Served, CountTotal, CountKind, Refresh, Status, Load, Show, Lost,
      Toggle, requests, dashVars

\* Whatever handlers log at once, the log keeps the newest entries and the log API
\* gives the last ones it is asked for, newest first.
THEOREM LogCorrect == DashSpec => []NewestFirst
<1>1. DashType /\ RingInv => NewestFirst
  <2> SUFFICES ASSUME DashType, RingInv PROVE NewestFirst
    OBVIOUS
  <2> DEFINE r == Len(recent)
             p == Len(pushed)
  <2>1. r \in Nat /\ p \in Nat /\ LogCap \in Nat \ {0}
    BY LenProperties, DashAssumption DEF DashType
  <2>2. /\ r = IF p < LogCap THEN p ELSE LogCap
        /\ \A i \in 1..r : recent[i] = pushed[p - r + i]
    BY DEF RingInv
  <2>3. ASSUME NEW n \in 1..LogCap
        PROVE  Logs(n) = [i \in 1..(IF p < n THEN p ELSE n) |-> pushed[p + 1 - i]]
    <3> DEFINE k == IF p < n THEN p ELSE n
    <3>1. r - (IF r < n THEN 0 ELSE r - n) = k
      <4> HIDE DEF r, p
      <4>1. n \in Nat /\ n <= LogCap
        BY <2>1
      <4>2. CASE r < n
        BY <2>1, <2>2, <4>1, <4>2
      <4>3. CASE ~(r < n)
        <5>1. ~(p < n)
          BY <2>1, <2>2, <4>1, <4>3
        <5> QED
          BY <2>1, <4>1, <4>3, <5>1
      <4> QED
        BY <4>2, <4>3
    <3>2. Logs(n) = [i \in 1..k |-> recent[r + 1 - i]]
      BY <3>1 DEF Logs
    <3>3. k \in Nat /\ k <= r
      BY <2>1, <2>2
    <3> HIDE DEF k, r, p
    <3>4. ASSUME NEW i \in 1..k PROVE recent[r + 1 - i] = pushed[p + 1 - i]
      <4>1. r + 1 - i \in 1..r /\ p - r + (r + 1 - i) = p + 1 - i
        BY <2>1, <3>3
      <4> QED
        BY <2>2, <4>1
    <3>5. Logs(n) = [i \in 1..k |-> pushed[p + 1 - i]]
      BY <3>2, <3>4
    <3> QED
      BY <3>5 DEF k
  <2>4. r <= LogCap
    BY <2>1, <2>2
  <2> QED
    BY <2>3, <2>4 DEF NewestFirst
<1> QED
  BY <1>1, DashInitType, DashTypeStep, RingStep, PTL DEF DashSpec
------------------------------------------------------------------------------
(* The counters.                                                           *)

\* All goroutines but t are where they were, with the same entry.
Moves(t) == \A u \in Thread \ {t} : step'[u] = step[u] /\ entry'[u] = entry[u]

\* Those inside withStats are finitely many, and so is what is made of them.
LEMMA DashFinite ==
  DashType /\ AheadInv =>
    /\ IsFiniteSet(AtKind) /\ Cardinality(AtKind) \in Nat
    /\ \A k \in Kind : /\ IsFiniteSet(AtLog(k)) /\ Cardinality(AtLog(k)) \in Nat
                       /\ IsFiniteSet(Logged(k)) /\ Cardinality(Logged(k)) \in Nat
<1> SUFFICES ASSUME DashType, AheadInv
             PROVE  /\ IsFiniteSet(AtKind) /\ Cardinality(AtKind) \in Nat
                    /\ \A k \in Kind :
                         /\ IsFiniteSet(AtLog(k)) /\ Cardinality(AtLog(k)) \in Nat
                         /\ IsFiniteSet(Logged(k)) /\ Cardinality(Logged(k)) \in Nat
  OBVIOUS
<1>1. IsFiniteSet(Inside)
  BY DEF AheadInv
<1>2. AtKind \subseteq Inside /\ \A k \in Kind : AtLog(k) \subseteq Inside
  BY DEF AtKind, AtLog, Inside
<1>3. Len(pushed) \in Nat /\ DOMAIN pushed = 1..Len(pushed)
  BY LenProperties DEF DashType
<1>4. IsFiniteSet(1..Len(pushed))
  BY <1>3, FS_Interval
<1>5. \A k \in Kind : Logged(k) \subseteq 1..Len(pushed)
  BY <1>3 DEF Logged
<1>6. IsFiniteSet(AtKind)
  BY <1>1, <1>2, FS_Subset
<1>7. \A k \in Kind : IsFiniteSet(AtLog(k))
  BY <1>1, <1>2, FS_Subset
<1>8. \A k \in Kind : IsFiniteSet(Logged(k))
  BY <1>4, <1>5, FS_Subset
<1> QED
  BY <1>6, <1>7, <1>8, FS_CardinalityType

\* Whoever moves, those inside stay finitely many.
LEMMA InsideFinite ==
  ASSUME AheadInv, NEW t \in Thread, Moves(t)
  PROVE  IsFiniteSet(Inside')
<1>1. IsFiniteSet(Inside \union {t})
  BY FS_AddElement DEF AheadInv
<1>2. Inside' \subseteq Inside \union {t}
  BY DEF Inside, Moves
<1> QED
  BY <1>1, <1>2, FS_Subset

\* What questions have loaded stays covered while counters do not fall.
LEMMA PollsCovered ==
  ASSUME DashType, AheadInv, DashType', UNCHANGED poll, total' >= total,
         kinds'["ok"] >= kinds["ok"], kinds'["deny"] >= kinds["deny"]
  PROVE  \A p \in Poll : Covered(poll'[p].data, total', kinds')
<1> SUFFICES ASSUME NEW p \in Poll
             PROVE  Covered(poll[p].data, total', kinds')
  OBVIOUS
<1>1. poll[p].data \in Data
  BY DEF DashType
<1>2. poll[p].data.total \in Nat /\ poll[p].data.ok \in Nat /\ poll[p].data.deny \in Nat
  BY <1>1 DEF Data
<1>3. /\ kinds["ok"] \in Nat /\ kinds["deny"] \in Nat /\ total \in Nat
      /\ kinds'["ok"] \in Nat /\ kinds'["deny"] \in Nat /\ total' \in Nat
  BY DEF DashType, Kind
<1>4. Covered(poll[p].data, total, kinds)
  BY DEF AheadInv
<1> QED
  BY <1>2, <1>3, <1>4 DEF Covered

\* Served: nobody comes to count or to log.
LEMMA ServedAhead ==
  ASSUME DashType, AheadInv, DashType', NEW t \in Thread, Served(t)
  PROVE  AheadInv'
<1>1. /\ Moves(t) /\ step[t] = "handler" /\ step'[t] = "total"
      /\ UNCHANGED <<total, kinds, pushed, poll>>
  BY DEF Served, Goto, Moves, DashType
<1>2. AtKind' = AtKind /\ \A k \in Kind : AtLog(k)' = AtLog(k)
  BY <1>1 DEF AtKind, AtLog, Moves
<1>3. \A k \in Kind : Logged(k)' = Logged(k)
  BY <1>1 DEF Logged
<1> QED
  BY <1>1, <1>2, <1>3, InsideFinite DEF AheadInv

\* CountTotal: one more has counted in the total only.
LEMMA CountTotalAhead ==
  ASSUME DashType, AheadInv, DashType', NEW t \in Thread, CountTotal(t)
  PROVE  AheadInv'
<1>1. /\ Moves(t) /\ step[t] = "total" /\ step'[t] = "kind" /\ total' = total + 1
      /\ UNCHANGED <<kinds, pushed, poll>>
  BY DEF CountTotal, Goto, Moves, DashType
<1>2. AtKind' = AtKind \union {t} /\ t \notin AtKind
  BY <1>1 DEF AtKind, Moves
<1>3. Cardinality(AtKind') = Cardinality(AtKind) + 1
  BY <1>2, DashFinite, FS_AddElement
<1>4. \A k \in Kind : AtLog(k)' = AtLog(k)
  BY <1>1 DEF AtLog, Moves
<1>5. \A k \in Kind : Logged(k)' = Logged(k)
  BY <1>1 DEF Logged
<1>6. /\ total \in Nat /\ kinds["ok"] \in Nat /\ kinds["deny"] \in Nat
      /\ Cardinality(AtKind) \in Nat
  BY DashFinite DEF DashType, Kind
<1>7. kinds["ok"] + kinds["deny"] + Cardinality(AtKind) <= total
  BY DEF AheadInv
<1>8. kinds'["ok"] + kinds'["deny"] + Cardinality(AtKind') <= total'
  BY <1>1, <1>3, <1>6, <1>7
<1>9. \A k \in Kind : Cardinality(Logged(k)') + Cardinality(AtLog(k)') <= kinds'[k]
  BY <1>1, <1>4, <1>5 DEF AheadInv
<1>10. \A p \in Poll : Covered(poll'[p].data, total', kinds')
  BY <1>1, <1>6, PollsCovered
<1> QED
  BY <1>1, <1>8, <1>9, <1>10, InsideFinite DEF AheadInv

\* CountKind: the one more of the total is the one more of the kind, which will be logged.
LEMMA CountKindAhead ==
  ASSUME DashType, AheadInv, DashType', NEW t \in Thread, CountKind(t)
  PROVE  AheadInv'
<1>1. /\ step[t] = "kind" /\ step'[t] # "kind"
      /\ \A k \in Kind : kinds'[k] = kinds[k] + IF entry[t] = k THEN 1 ELSE 0
      /\ UNCHANGED <<total, pushed, poll>>
  BY DEF CountKind, Goto, Done, DashType
<1>2. Moves(t)
  BY DEF CountKind, Goto, Done, Moves, DashType
<1>3. /\ entry[t] \in Kind => step'[t] = "log" /\ entry'[t] = entry[t]
      /\ entry[t] \notin Kind => entry'[t] \notin Kind
  BY DEF CountKind, Goto, Done, DashType, Kind
<1>4. /\ total \in Nat /\ \A k \in Kind : kinds[k] \in Nat
      /\ Cardinality(AtKind) \in Nat
  BY DashFinite DEF DashType
<1>5. AtKind' = AtKind \ {t} /\ t \in AtKind
  BY <1>1, <1>2 DEF AtKind, Moves
<1>6. Cardinality(AtKind') = Cardinality(AtKind) - 1
  BY <1>5, DashFinite, FS_RemoveElement
<1>7. \A k \in Kind : kinds'[k] \in Nat /\ kinds'[k] >= kinds[k]
  BY <1>1, <1>4
<1>8. kinds'["ok"] + kinds'["deny"] <= kinds["ok"] + kinds["deny"] + 1
  <2>1. /\ kinds'["ok"] = kinds["ok"] + IF entry[t] = "ok" THEN 1 ELSE 0
        /\ kinds'["deny"] = kinds["deny"] + IF entry[t] = "deny" THEN 1 ELSE 0
        /\ kinds["ok"] \in Nat /\ kinds["deny"] \in Nat
    BY <1>1, <1>4 DEF Kind
  <2> QED
    BY <2>1
<1>9. kinds["ok"] + kinds["deny"] + Cardinality(AtKind) <= total
  BY DEF AheadInv
<1>10. /\ kinds["ok"] \in Nat /\ kinds["deny"] \in Nat
       /\ kinds'["ok"] \in Nat /\ kinds'["deny"] \in Nat
       /\ kinds'["ok"] >= kinds["ok"] /\ kinds'["deny"] >= kinds["deny"]
  BY <1>4, <1>7 DEF Kind
<1>11. kinds'["ok"] + kinds'["deny"] + Cardinality(AtKind') <= total'
  BY <1>1, <1>4, <1>6, <1>8, <1>9, <1>10
<1>12. ASSUME NEW k \in Kind PROVE Cardinality(Logged(k)') + Cardinality(AtLog(k)') <= kinds'[k]
  <2>1. Logged(k)' = Logged(k)
    BY <1>1 DEF Logged
  <2>2. /\ Cardinality(Logged(k)) \in Nat /\ Cardinality(AtLog(k)) \in Nat
        /\ kinds[k] \in Nat /\ IsFiniteSet(AtLog(k))
    BY <1>4, DashFinite
  <2>3. Cardinality(Logged(k)) + Cardinality(AtLog(k)) <= kinds[k]
    BY DEF AheadInv
  <2>4. CASE entry[t] = k
    <3>1. AtLog(k)' = AtLog(k) \union {t} /\ t \notin AtLog(k)
      BY <1>1, <1>2, <1>3, <2>4 DEF AtLog, Moves
    <3>2. Cardinality(AtLog(k)') = Cardinality(AtLog(k)) + 1
      BY <2>2, <3>1, FS_AddElement
    <3>3. kinds'[k] = kinds[k] + 1
      BY <1>1, <2>4
    <3> QED
      BY <2>1, <2>2, <2>3, <3>2, <3>3
  <2>5. CASE entry[t] # k
    <3>1. entry'[t] # k
      BY <1>3, <2>5
    <3>2. AtLog(k)' = AtLog(k)
      BY <1>1, <1>2, <2>5, <3>1 DEF AtLog, Moves
    <3>3. kinds'[k] = kinds[k]
      BY <1>1, <2>2, <2>5
    <3> QED
      BY <2>1, <2>3, <3>2, <3>3
  <2> QED
    BY <2>4, <2>5
<1>13. \A p \in Poll : Covered(poll'[p].data, total', kinds')
  BY <1>1, <1>4, <1>10, PollsCovered
<1> QED
  BY <1>2, <1>11, <1>12, <1>13, InsideFinite DEF AheadInv

\* PushLog: the entry is logged by one that had counted it.
LEMMA PushLogAhead ==
  ASSUME DashType, AheadInv, DashType', NEW t \in Thread, PushLog(t)
  PROVE  AheadInv'
<1>1. /\ step[t] = "log" /\ step'[t] = "handler"
      /\ pushed' = Append(pushed, entry[t])
      /\ UNCHANGED <<total, kinds, poll>>
  BY DEF PushLog, Goto, Done, DashType
<1>2. Moves(t)
  BY DEF PushLog, Goto, Done, Moves, DashType
<1>3. AtKind' = AtKind
  BY <1>1, <1>2 DEF AtKind, Moves
<1> DEFINE n == Len(pushed)
<1>4. /\ n \in Nat /\ DOMAIN pushed = 1..n /\ DOMAIN pushed' = 1..n + 1
      /\ pushed'[n + 1] = entry[t] /\ \A i \in 1..n : pushed'[i] = pushed[i]
  <2>1. pushed \in Seq(Outcome) /\ entry[t] \in Outcome
    BY DEF DashType
  <2>2. pushed' \in Seq(Outcome) /\ Len(pushed') = n + 1
    BY <1>1, <2>1, AppendProperties
  <2>3. DOMAIN pushed = 1..n /\ n \in Nat /\ DOMAIN pushed' = 1..Len(pushed')
    BY <2>1, <2>2, LenProperties
  <2>4. pushed'[n + 1] = entry[t] /\ \A i \in 1..n : pushed'[i] = pushed[i]
    BY <1>1, <2>1, AppendProperties
  <2> QED
    BY <2>2, <2>3, <2>4
<1> HIDE DEF n
<1>5. ASSUME NEW k \in Kind PROVE Cardinality(Logged(k)') + Cardinality(AtLog(k)') <= kinds'[k]
  <2>1. /\ Cardinality(Logged(k)) \in Nat /\ Cardinality(AtLog(k)) \in Nat
        /\ IsFiniteSet(AtLog(k)) /\ IsFiniteSet(Logged(k)) /\ kinds[k] \in Nat
    BY DashFinite DEF DashType
  <2>2. Cardinality(Logged(k)) + Cardinality(AtLog(k)) <= kinds[k]
    BY DEF AheadInv
  <2>3. 1..n + 1 = 1..n \union {n + 1} /\ n + 1 \notin 1..n
    BY <1>4
  <2>4. CASE entry[t] = k
    <3>1. AtLog(k)' = AtLog(k) \ {t} /\ t \in AtLog(k)
      BY <1>1, <1>2, <2>4 DEF AtLog, Moves
    <3>2. Cardinality(AtLog(k)') = Cardinality(AtLog(k)) - 1
      BY <2>1, <3>1, FS_RemoveElement
    <3>3. Logged(k)' = Logged(k) \union {n + 1} /\ n + 1 \notin Logged(k)
      BY <1>4, <2>3, <2>4 DEF Logged
    <3>4. Cardinality(Logged(k)') = Cardinality(Logged(k)) + 1
      BY <2>1, <3>3, FS_AddElement
    <3> QED
      BY <1>1, <2>1, <2>2, <3>2, <3>4
  <2>5. CASE entry[t] # k
    <3>1. AtLog(k)' = AtLog(k)
      BY <1>1, <1>2, <2>5 DEF AtLog, Moves
    <3>2. Logged(k)' = Logged(k)
      BY <1>4, <2>3, <2>5 DEF Logged
    <3> QED
      BY <1>1, <2>2, <3>1, <3>2
  <2> QED
    BY <2>4, <2>5
<1>6. kinds'["ok"] + kinds'["deny"] + Cardinality(AtKind') <= total'
  BY <1>1, <1>3 DEF AheadInv
<1>7. \A p \in Poll : Covered(poll'[p].data, total', kinds')
  BY <1>1 DEF AheadInv
<1> QED
  BY <1>2, <1>5, <1>6, <1>7, InsideFinite DEF AheadInv

\* A step of a question loads a counter as it is, or nothing.
LEMMA PollAhead ==
  ASSUME DashType, AheadInv, NEW p \in Poll, Refresh(p) \/ Status(p) \/ Show(p) \/ Lost(p)
  PROVE  AheadInv'
<1>1. UNCHANGED <<total, kinds, pushed, step, entry>>
  BY DEF Refresh, Status, Load, Show, Lost, requests
<1>2. /\ Inside' = Inside /\ AtKind' = AtKind
      /\ \A k \in Kind : AtLog(k)' = AtLog(k) /\ Logged(k)' = Logged(k)
  BY <1>1 DEF Inside, AtKind, AtLog, Logged
<1>3. kinds["ok"] \in Nat /\ kinds["deny"] \in Nat /\ total \in Nat
  BY DEF DashType, Kind
<1> DEFINE d == poll[p].data
<1>4. d \in Data /\ Covered(d, total, kinds)
  BY DEF DashType, AheadInv
<1>5. ASSUME NEW at, NEW e, NEW l, Covered(e, total, kinds), Load(p, at, e, l)
      PROVE  Covered(poll'[p].data, total, kinds) /\ \A q \in Poll \ {p} : poll'[q] = poll[q]
  <2>1. poll' = [poll EXCEPT ![p] = [at |-> l, data |-> e]]
    BY <1>5 DEF Load
  <2>2. poll'[p].data = e /\ \A q \in Poll \ {p} : poll'[q] = poll[q]
    BY <2>1 DEF DashType
  <2> QED
    BY <1>5, <2>2
<1>6. /\ Covered([d EXCEPT !.mode = mode], total, kinds)
      /\ Covered([d EXCEPT !.total = total], total, kinds)
      /\ Covered([d EXCEPT !.ok = kinds["ok"]], total, kinds)
      /\ Covered([d EXCEPT !.deny = kinds["deny"]], total, kinds)
  BY <1>3, <1>4 DEF Data, Covered
<1>7. ASSUME Refresh(p) \/ Show(p) \/ Lost(p)
      PROVE  Covered(poll'[p].data, total, kinds) /\ \A q \in Poll \ {p} : poll'[q] = poll[q]
  <2>1. /\ poll'[p].data = Blank
        /\ \A q \in Poll \ {p} : poll'[q] = poll[q]
    BY <1>7 DEF Refresh, Show, Lost, NoPoll, DashType
  <2> QED
    BY <1>3, <2>1 DEF Blank, Covered
<1>8. Covered(poll'[p].data, total, kinds) /\ \A q \in Poll \ {p} : poll'[q] = poll[q]
  BY <1>5, <1>6, <1>7 DEF Status
<1>9. \A q \in Poll : Covered(poll'[q].data, total', kinds')
  BY <1>1, <1>8 DEF AheadInv
<1> QED
  BY <1>1, <1>2, <1>9 DEF AheadInv

LEMMA AheadStep == DashType /\ AheadInv /\ [DashNext]_dashVars => AheadInv'
<1> SUFFICES ASSUME DashType, AheadInv, [DashNext]_dashVars PROVE AheadInv'
  OBVIOUS
<1>1. DashType'
  BY DashTypeStep
<1>2. ASSUME UNCHANGED <<total, kinds, pushed, step, entry, poll>> PROVE AheadInv'
  BY <1>2 DEF AheadInv, Inside, AtKind, AtLog, Logged
<1>3. Toggle \/ UNCHANGED dashVars => AheadInv'
  BY <1>2 DEF Toggle, requests, dashVars
<1> QED
  BY <1>1, <1>3, ServedAhead, CountTotalAhead, CountKindAhead, PushLogAhead, PollAhead
  DEF DashNext

\* For any handlers and questions: what an answer of the status API tells has happened,
\* and its counters exceed its total by no more than the requests counted since.
THEOREM AheadCorrect == DashSpec => []CountersAhead
<1>1. DashType /\ AheadInv => CountersAhead
  <2> SUFFICES ASSUME DashType, AheadInv PROVE CountersAhead
    OBVIOUS
  <2>1. ASSUME NEW k \in Kind PROVE Counted(k) <= kinds[k]
    <3>1. Counted(k) = Cardinality(Logged(k))
      BY DEF Counted, Logged
    <3>2. /\ Cardinality(Logged(k)) \in Nat /\ Cardinality(AtLog(k)) \in Nat
          /\ kinds[k] \in Nat
      BY DashFinite DEF DashType
    <3>3. Cardinality(Logged(k)) + Cardinality(AtLog(k)) <= kinds[k]
      BY DEF AheadInv
    <3> QED
      BY <3>1, <3>2, <3>3
  <2>2. /\ kinds["ok"] \in Nat /\ kinds["deny"] \in Nat /\ total \in Nat
        /\ Cardinality(AtKind) \in Nat
    BY DashFinite DEF DashType, Kind
  <2>3. kinds["ok"] + kinds["deny"] + Cardinality(AtKind) <= total
    BY DEF AheadInv
  <2>4. kinds["ok"] + kinds["deny"] <= total
    BY <2>2, <2>3
  <2>5. ASSUME NEW p \in Poll, NEW d, d = poll[p].data
        PROVE  /\ d.total <= total /\ d.ok <= kinds["ok"] /\ d.deny <= kinds["deny"]
               /\ d.ok + d.deny <= d.total + CountedSince(d)
    <3>1. d \in Data /\ Covered(d, total, kinds)
      BY <2>5 DEF DashType, AheadInv
    <3>2. d.total \in Nat /\ d.ok \in Nat /\ d.deny \in Nat
      BY <3>1 DEF Data
    <3>3. d.total <= total /\ d.ok <= kinds["ok"] /\ d.deny <= kinds["deny"]
      BY <3>1 DEF Covered
    <3>4. d.ok + d.deny <= d.total + (total - d.total)
      BY <2>2, <2>4, <3>2, <3>3
    <3> QED
      BY <3>3, <3>4 DEF CountedSince
  <2> QED
    BY <2>1, <2>4, <2>5 DEF CountersAhead
<1> QED
  BY <1>1, DashInitType, DashTypeStep, AheadStep, PTL DEF DashSpec
================================================================================
