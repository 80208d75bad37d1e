------------------------------ MODULE LimitProofs ------------------------------
(***************************************************************************)
(* Proofs about the two limits of guard-go/main.go, the quota of a room    *)
(* and the rate limit.                                                     *)
(*                                                                         *)
(* RoomQuota: for any number of goroutines and rooms, any quota and any    *)
(* number of rounds.  The quota is proved for requests that wait for       *)
(* muRoom through at most one change of round: the pruning of tryIncRoom   *)
(* forgets older rounds, so a request that is later than that would be     *)
(* counted from zero again.                                                *)
(*                                                                         *)
(* RateLimit: for any clients, threads and limit, and a minute of any      *)
(* number of ticks.                                                        *)
(***************************************************************************)
EXTENDS RoomQuota, RateLimit, SequenceTheorems, TLAPS

Prompt == MaxLag <= 1

\* A request carries the round it read, MaxLag old at most, and a ticket of
\* that round or the one before.
LagInv ==
  \A t \in Thread : req[t] # NoReq =>
    /\ req[t].rnd <= round
    /\ round - req[t].rnd <= MaxLag
    /\ req[t].ticket \in {req[t].rnd, req[t].rnd - 1}

TypeInv == TypeOK /\ LagInv

\* Visits of the two rounds in which a ticket of round w is taken.
Reach(r, w) == hits[r][w] + (IF w + 1 \in Round THEN hits[r][w + 1] ELSE 0)

ReachInv == \A r \in Room, w \in Round : uses[r][w] <= Reach(r, w)

\* There is no entry of a round to come.
NoFuture == \A r \in Room, n \in Round : Entry(r, n) > 0 => n <= round
------------------------------------------------------------------------------
(* Operators.                                                              *)

\* Counting a visit adds one at its place and nowhere else.
LEMMA CountValue ==
  ASSUME NEW f \in [Room -> [Round -> Nat]], NEW r \in Room, NEW n \in Round
  PROVE  /\ Count(f, r, n) \in [Room -> [Round -> Nat]]
         /\ \A q \in Room, m \in Round :
              Count(f, r, n)[q][m] = IF q = r /\ m = n THEN f[r][n] + 1 ELSE f[q][m]
BY DEF Count

\* What is before and after the last colon of a key is the room and the round it
\* was made from, whatever the room's name is.
LEMMA KeyParts ==
  \A r \in Room, n \in Round : NameOf(Key(r, n)) = r /\ RoundOf(Key(r, n)) = n
<1> SUFFICES ASSUME NEW r \in Room, NEW n \in Round
             PROVE  NameOf(Key(r, n)) = r /\ RoundOf(Key(r, n)) = n
  OBVIOUS
<1> DEFINE S == Part \union Round
           k == Key(r, n)
<1>1. r \in Seq(S) /\ n \in S
  BY RoomAssumption
<1>2. /\ k \in Seq(S) /\ Len(k) = Len(r) + 1
      /\ \A i \in 1..Len(r) : k[i] = r[i]
      /\ k[Len(r) + 1] = n
  BY <1>1, AppendProperties DEF Key
<1>3. Len(r) \in Nat
  BY <1>1, LenProperties
<1> HIDE DEF k
<1>4. SubSeq(k, 1, Len(r)) = [i \in 1..Len(r) |-> k[i]]
  BY <1>2, <1>3
<1>5. r = [i \in 1..Len(r) |-> r[i]]
  BY <1>1
<1>6. SubSeq(k, 1, Len(r)) = r
  BY <1>2, <1>4, <1>5
<1>7. NameOf(k) = r /\ RoundOf(k) = n
  BY <1>2, <1>3, <1>6 DEF NameOf, RoundOf
<1> QED
  BY <1>7 DEF k

\* The keys that rooms and rounds make.
Keys == {Key(r, n) : r \in Room, n \in Round}

\* An entry is a number, stored or not.
LEMMA EntryValue ==
  ASSUME TypeOK
  PROVE  \A r \in Room, n \in Round : Entry(r, n) \in Nat
BY DEF TypeOK, Entry

\* What tryIncRoom writes to ROOM_DB.
LEMMA CountVisitValue ==
  ASSUME TypeOK, NEW r \in Room, NEW n \in Round, CountVisit(r, n)
  PROVE  /\ DOMAIN counts' \subseteq Keys
         /\ counts' \in [DOMAIN counts' -> Nat \ {0}]
         /\ \A q \in Room, m \in Round :
              Entry(q, m)' = IF q = r /\ m = n THEN Entry(r, n) + 1
                             ELSE IF q # r \/ m >= n - 1 THEN Entry(q, m) ELSE 0
<1> DEFINE K == {j \in DOMAIN counts \union {Key(r, n)} : Keeps(j, r, n)}
<1>1. counts' = [k \in K |-> IF k = Key(r, n) THEN Entry(r, n) + 1 ELSE counts[k]]
  BY DEF CountVisit
<1>2. DOMAIN counts' = K
  BY <1>1
<1>3. K \subseteq Keys
  BY DEF TypeOK, Keys
<1>4. Entry(r, n) + 1 \in Nat \ {0}
  BY EntryValue
<1>5. \A k \in K : k # Key(r, n) => counts[k] \in Nat \ {0}
  BY DEF TypeOK
<1>6. \A q \in Room, m \in Round : Key(q, m) = Key(r, n) => q = r /\ m = n
  BY KeyParts
<1>7. \A q \in Room, m \in Round :
        Keeps(Key(q, m), r, n) <=> (q # r \/ m >= n - 1)
  BY KeyParts DEF Keeps
<1>8. n >= n - 1
  BY DEF Round
<1>9. ASSUME NEW q \in Room, NEW m \in Round
      PROVE  Entry(q, m)' = IF q = r /\ m = n THEN Entry(r, n) + 1
                            ELSE IF q # r \/ m >= n - 1 THEN Entry(q, m) ELSE 0
  <2>1. Key(q, m) \in K <=> /\ Key(q, m) \in DOMAIN counts \/ (q = r /\ m = n)
                            /\ q # r \/ m >= n - 1
    BY <1>6, <1>7
  <2>2. Entry(q, m)' = IF Key(q, m) \in K THEN counts'[Key(q, m)] ELSE 0
    BY <1>2 DEF Entry
  <2> HIDE DEF K
  <2>3. CASE q = r /\ m = n
    BY <1>1, <1>8, <2>1, <2>2, <2>3
  <2>4. CASE ~(q = r /\ m = n)
    <3>1. Key(q, m) \in K => counts'[Key(q, m)] = counts[Key(q, m)]
      BY <1>1, <1>6, <2>4
    <3> QED
      BY <2>1, <2>2, <2>4, <3>1 DEF Entry
  <2> QED
    BY <2>3, <2>4
<1>10. counts' \in [K -> Nat \ {0}]
  <2> HIDE DEF K
  <2> QED
    BY <1>1, <1>4, <1>5
<1> QED
  BY <1>2, <1>3, <1>9, <1>10

\* An admission, spelt out: who is counted where.
LEMMA AdmitValue ==
  ASSUME ConstantsAssumption, TypeInv, NEW t \in Thread, Admit(t)
  PROVE  /\ req[t] \in Request
         /\ UNCHANGED round
         /\ hits' = Count(hits, req[t].room, req[t].rnd)
         /\ uses' = Count(uses, req[t].room, req[t].ticket)
         /\ Limited => /\ HasQuota(req[t].room, req[t].rnd)
                       /\ CountVisit(req[t].room, req[t].rnd)
         /\ ~Limited => UNCHANGED counts
BY DEF Admit, TypeInv, TypeOK
------------------------------------------------------------------------------
(* Types and lag.                                                          *)

LEMMA TypeStep == TypeInv /\ [Next]_vars => TypeInv'
<1> SUFFICES ASSUME TypeInv, [Next]_vars PROVE TypeInv'
  OBVIOUS
<1> USE ConstantsAssumption
<1>1. ASSUME NEW t \in Thread, NEW r \in Room, NEW w \in Round, Present(t, r, w)
      PROVE  TypeInv'
  <2>1. [room |-> r, rnd |-> round, ticket |-> w] \in Request
    BY DEF TypeInv, TypeOK, Request
  <2>2. TypeOK'
    BY <1>1, <2>1 DEF Present, TypeInv, TypeOK
  <2>3. LagInv'
    BY <1>1, <2>1 DEF Present, Accepted, TypeInv, TypeOK, LagInv, Round
  <2> QED
    BY <2>2, <2>3 DEF TypeInv
<1>2. ASSUME NEW t \in Thread, Admit(t) PROVE TypeInv'
  <2>1. req[t].room \in Room /\ req[t].rnd \in Round /\ req[t].ticket \in Round
    BY <1>2, AdmitValue DEF Request
  <2>2. hits' \in [Room -> [Round -> Nat]] /\ uses' \in [Room -> [Round -> Nat]]
    <3>1. hits' = Count(hits, req[t].room, req[t].rnd)
      BY <1>2, AdmitValue
    <3>2. uses' = Count(uses, req[t].room, req[t].ticket)
      BY <1>2, AdmitValue
    <3>3. hits \in [Room -> [Round -> Nat]] /\ uses \in [Room -> [Round -> Nat]]
      BY DEF TypeInv, TypeOK
    <3> QED
      BY <2>1, <3>1, <3>2, <3>3, CountValue
  <2>3. /\ DOMAIN counts' \subseteq Keys
        /\ counts' \in [DOMAIN counts' -> Nat \ {0}]
    <3>1. TypeOK
      BY DEF TypeInv
    <3>2. CASE Limited
      <4>1. CountVisit(req[t].room, req[t].rnd)
        BY <1>2, <3>2, AdmitValue
      <4> QED
        BY <2>1, <3>1, <4>1, CountVisitValue
    <3>3. CASE ~Limited
      <4>1. counts' = counts
        BY <1>2, <3>3, AdmitValue
      <4> QED
        BY <3>1, <4>1 DEF TypeOK, Keys
    <3> QED
      BY <3>2, <3>3
  <2>4. TypeOK'
    BY <1>2, <2>2, <2>3 DEF Admit, TypeInv, TypeOK, Keys
  <2>5. LagInv'
    BY <1>2 DEF Admit, TypeInv, TypeOK, LagInv
  <2> QED
    BY <2>4, <2>5 DEF TypeInv
<1>3. ASSUME NEW t \in Thread, Full(t) PROVE TypeInv'
  BY <1>3 DEF Full, TypeInv, TypeOK, LagInv
<1>4. ASSUME NEW r \in Room, NEW w \in Round, TcpAdmit(r, w) PROVE TypeInv'
  BY <1>4 DEF TcpAdmit, TypeInv, TypeOK, LagInv
<1>5. CASE CrashRestart
  BY <1>5 DEF CrashRestart, TypeInv, TypeOK, LagInv
<1>6. CASE Tick
  <2>1. TypeOK'
    BY <1>6 DEF Tick, TypeInv, TypeOK, Round
  <2>2. LagInv'
    <3> SUFFICES ASSUME NEW t \in Thread, req[t] # NoReq
                 PROVE  /\ req[t].rnd <= round'
                        /\ round' - req[t].rnd <= MaxLag
                        /\ req[t].ticket \in {req[t].rnd, req[t].rnd - 1}
      BY <1>6 DEF Tick, LagInv
    <3>1. req[t].rnd \in Int /\ round \in Int /\ MaxLag \in Int
      BY DEF TypeInv, TypeOK, Request, Round
    <3>2. round' = round + 1 /\ round - req[t].rnd < MaxLag
      BY <1>6 DEF Tick
    <3>3. req[t].rnd <= round /\ req[t].ticket \in {req[t].rnd, req[t].rnd - 1}
      BY DEF TypeInv, LagInv
    <3> QED
      BY <3>1, <3>2, <3>3
  <2> QED
    BY <2>1, <2>2 DEF TypeInv
<1>7. CASE UNCHANGED vars
  BY <1>7 DEF vars, TypeInv, TypeOK, LagInv
<1> QED
  BY <1>1, <1>2, <1>3, <1>4, <1>5, <1>6, <1>7 DEF Next

LEMMA TypeInit == Init => TypeInv
<1> SUFFICES ASSUME Init PROVE TypeInv
  OBVIOUS
<1>1. TypeOK
  BY ConstantsAssumption DEF Init, Zero, TypeOK, Round
<1>2. LagInv
  BY DEF Init, LagInv
<1> QED
  BY <1>1, <1>2 DEF TypeInv

LEMMA TypeInvCorrect == Spec => []TypeInv
BY TypeInit, TypeStep, PTL DEF Spec

\* Every variable keeps its type.
THEOREM TypeCorrect == Spec => []TypeOK
<1>1. TypeInv => TypeOK
  BY DEF TypeInv
<1> QED
  BY <1>1, TypeInvCorrect, PTL
------------------------------------------------------------------------------
(* The quota.                                                              *)

\* With prompt requests a visit is counted in this round or the previous one,
\* and pruning drops neither.
QuotaInv == QuotaPerRound /\ CountsExact

LEMMA QuotaStep == Prompt /\ TypeInv /\ QuotaInv /\ [Next]_vars => QuotaInv'
<1> SUFFICES ASSUME Prompt, TypeInv, QuotaInv, [Next]_vars PROVE QuotaInv'
  OBVIOUS
<1> USE ConstantsAssumption
<1>1. ASSUME UNCHANGED <<counts, hits>>, round' \in Int, round' >= round
      PROVE  QuotaInv'
  <2>1. QuotaPerRound'
    BY <1>1 DEF QuotaInv, QuotaPerRound
  <2>2. \A n \in Round : n >= round' - 1 => n >= round - 1
    <3>1. round \in Int /\ \A n \in Round : n \in Int
      BY DEF TypeInv, TypeOK, Round
    <3> QED
      BY <1>1, <3>1
  <2>3. CountsExact'
    BY <1>1, <2>2 DEF QuotaInv, CountsExact, Entry
  <2> QED
    BY <2>1, <2>3 DEF QuotaInv
<1>2. ASSUME NEW t \in Thread, Admit(t), Limited PROVE QuotaInv'
  <2> DEFINE r == req[t].room
             n == req[t].rnd
  <2>1. /\ r \in Room /\ n \in Round /\ UNCHANGED round
        /\ hits' = Count(hits, r, n)
        /\ HasQuota(r, n) /\ CountVisit(r, n)
    BY <1>2, AdmitValue DEF Request
  <2>2. n <= round /\ n >= round - 1
    <3>1. req[t] # NoReq
      BY <1>2 DEF Admit
    <3>2. round - n <= MaxLag /\ n <= round
      BY <3>1 DEF TypeInv, LagInv
    <3>3. n \in Int /\ round \in Int /\ MaxLag \in Int
      BY <2>1 DEF TypeInv, TypeOK, Round
    <3> QED
      BY <3>2, <3>3 DEF Prompt
  <2> HIDE DEF r, n
  <2>3. \A q \in Room, m \in Round :
          hits'[q][m] = IF q = r /\ m = n THEN hits[r][n] + 1 ELSE hits[q][m]
    <3>1. hits \in [Room -> [Round -> Nat]]
      BY DEF TypeInv, TypeOK
    <3>2. hits' = Count(hits, r, n)
      BY <2>1
    <3>3. \A q \in Room, m \in Round :
            Count(hits, r, n)[q][m]
              = IF q = r /\ m = n THEN hits[r][n] + 1 ELSE hits[q][m]
      BY <2>1, <3>1, CountValue
    <3> QED
      BY <3>2, <3>3
  <2>4. \A q \in Room, m \in Round :
          Entry(q, m)' = IF q = r /\ m = n THEN Entry(r, n) + 1
                         ELSE IF q # r \/ m >= n - 1 THEN Entry(q, m) ELSE 0
    BY <2>1, CountVisitValue DEF TypeInv
  <2>5. Entry(r, n) = hits[r][n]
    BY <1>2, <2>1, <2>2 DEF QuotaInv, CountsExact
  <2>6. hits[r][n] + 1 <= RoomMaxUses
    BY <2>1, <2>5 DEF HasQuota, TypeInv, TypeOK
  <2>7. QuotaPerRound'
    BY <1>2, <2>3, <2>6 DEF QuotaInv, QuotaPerRound, Limited
  <2>8. CountsExact'
    <3> SUFFICES ASSUME NEW q \in Room, NEW m \in Round, m >= round - 1
                 PROVE  Entry(q, m)' = hits'[q][m]
      BY <2>1 DEF CountsExact
    <3>1. Entry(q, m) = hits[q][m]
      BY <1>2 DEF QuotaInv, CountsExact
    <3>2. CASE q # r
      BY <2>3, <2>4, <3>1, <3>2
    <3>3. CASE q = r
      <4>1. m >= n - 1
        BY <2>1, <2>2 DEF Round, TypeInv, TypeOK
      <4> QED
        BY <2>3, <2>4, <2>5, <3>1, <3>3, <4>1
    <3> QED
      BY <3>2, <3>3
  <2> QED
    BY <2>7, <2>8 DEF QuotaInv
<1>3. ASSUME NEW t \in Thread, Admit(t), ~Limited PROVE QuotaInv'
  BY <1>3 DEF QuotaInv, QuotaPerRound, CountsExact, Limited
<1>4. ASSUME \/ \E t \in Thread, r \in Room, w \in Round : Present(t, r, w)
             \/ \E t \in Thread : Full(t)
             \/ \E r \in Room, w \in Round : TcpAdmit(r, w)
             \/ CrashRestart
             \/ Tick
             \/ UNCHANGED vars
      PROVE  QuotaInv'
  <2>1. UNCHANGED <<counts, hits>>
    BY <1>4 DEF Present, Full, TcpAdmit, CrashRestart, Tick, vars
  <2>2. round' \in Int /\ round' >= round
    BY <1>4 DEF Present, Full, TcpAdmit, CrashRestart, Tick, vars, TypeInv, TypeOK, Round
  <2> QED
    BY <1>1, <2>1, <2>2
<1> QED
  BY <1>2, <1>3, <1>4 DEF Next

LEMMA QuotaInvCorrect == Prompt => (Spec => []QuotaInv)
<1> SUFFICES ASSUME Prompt PROVE Spec => []QuotaInv
  OBVIOUS
<1>1. Init => QuotaInv
  BY ConstantsAssumption
  DEF Init, Zero, Entry, QuotaInv, QuotaPerRound, CountsExact, Limited
<1>2. TypeInv /\ QuotaInv /\ [Next]_vars => QuotaInv'
  BY QuotaStep
<1> QED
  BY <1>1, <1>2, TypeInvCorrect, PTL DEF Spec

\* No round of a room lets more visitors through than SEAL_ROOM_MAX_USES.
THEOREM QuotaCorrect == Prompt => (Spec => []QuotaPerRound)
<1>1. QuotaInv => QuotaPerRound
  BY DEF QuotaInv
<1> QED
  BY <1>1, QuotaInvCorrect, PTL

\* ROOM_DB knows every visit that can still matter, and no other.
THEOREM CountsCorrect == Prompt => (Spec => []CountsExact)
<1>1. QuotaInv => CountsExact
  BY DEF QuotaInv
<1> QED
  BY <1>1, QuotaInvCorrect, PTL
------------------------------------------------------------------------------
(* Tickets.                                                                *)

\* A step that lets nobody through keeps the history.
LEMMA ReachStep == TypeInv /\ ReachInv /\ [Next]_vars => ReachInv'
<1> SUFFICES ASSUME TypeInv, ReachInv, [Next]_vars PROVE ReachInv'
  OBVIOUS
<1> USE ConstantsAssumption
<1>1. ASSUME NEW t \in Thread, Admit(t) PROVE ReachInv'
  <2> DEFINE r == req[t].room
             n == req[t].rnd
             w == req[t].ticket
  <2>1. /\ r \in Room /\ n \in Round /\ w \in Round
        /\ hits' = Count(hits, r, n)
        /\ uses' = Count(uses, r, w)
    BY <1>1, AdmitValue DEF Request
  <2>2. n = w \/ n = w + 1
    <3>1. w \in {n, n - 1}
      BY <1>1 DEF Admit, TypeInv, LagInv
    <3>2. n \in Int /\ w \in Int
      BY <2>1 DEF Round
    <3> QED
      BY <3>1, <3>2
  <2> HIDE DEF r, n, w
  <2>3. hits \in [Room -> [Round -> Nat]] /\ uses \in [Room -> [Round -> Nat]]
    BY DEF TypeInv, TypeOK
  <2>4. \A q \in Room, m \in Round :
          hits'[q][m] = IF q = r /\ m = n THEN hits[r][n] + 1 ELSE hits[q][m]
    BY <2>1, <2>3, CountValue
  <2>5. \A q \in Room, m \in Round :
          uses'[q][m] = IF q = r /\ m = w THEN uses[r][w] + 1 ELSE uses[q][m]
    <3>1. \A q \in Room, m \in Round :
            Count(uses, r, w)[q][m]
              = IF q = r /\ m = w THEN uses[r][w] + 1 ELSE uses[q][m]
      <4>1. r \in Room /\ w \in Round /\ uses \in [Room -> [Round -> Nat]]
        BY <2>1, <2>3
      <4> QED
        BY <4>1, CountValue
    <3> QED
      BY <2>1, <3>1
  <2>6. ASSUME NEW q \in Room, NEW m \in Round
        PROVE  uses'[q][m] <= Reach(q, m)'
    <3>1. uses[q][m] <= Reach(q, m)
      BY DEF ReachInv
    <3>2. /\ uses[q][m] \in Nat /\ hits[q][m] \in Nat
          /\ m + 1 \in Round => hits[q][m + 1] \in Nat
      BY <2>3
    <3>3. CASE q = r /\ m = w
      <4>1. uses'[q][m] = uses[q][m] + 1
        BY <2>5, <3>3
      <4>2. CASE n = m
        <5>1. hits'[q][m] = hits[q][m] + 1
          BY <2>4, <3>3, <4>2
        <5>2. m + 1 \in Round => hits'[q][m + 1] = hits[q][m + 1]
          BY <2>1, <2>4, <3>3, <4>2 DEF Round
        <5> QED
          BY <3>1, <3>2, <4>1, <5>1, <5>2 DEF Reach
      <4>3. CASE n = m + 1
        <5>1. m + 1 \in Round /\ hits'[q][m + 1] = hits[q][m + 1] + 1
          BY <2>1, <2>4, <3>3, <4>3
        <5>2. hits'[q][m] = hits[q][m]
          BY <2>1, <2>4, <3>3, <4>3 DEF Round
        <5> QED
          BY <3>1, <3>2, <4>1, <5>1, <5>2 DEF Reach
      <4> QED
        BY <2>2, <3>3, <4>2, <4>3
    <3>4. CASE ~(q = r /\ m = w)
      <4>1. uses'[q][m] = uses[q][m]
        BY <2>5, <3>4
      <4>2. hits'[q][m] >= hits[q][m] /\ hits'[q][m] \in Nat
        BY <2>4, <3>2
      <4>3. m + 1 \in Round => hits'[q][m + 1] >= hits[q][m + 1] /\ hits'[q][m + 1] \in Nat
        BY <2>4, <3>2
      <4> QED
        BY <3>1, <3>2, <4>1, <4>2, <4>3 DEF Reach
    <3> QED
      BY <3>3, <3>4
  <2> QED
    BY <2>6 DEF ReachInv
<1>2. ASSUME UNCHANGED <<hits, uses>> PROVE ReachInv'
  BY <1>2 DEF ReachInv, Reach
<1>3. ASSUME \/ \E t \in Thread, r \in Room, w \in Round : Present(t, r, w)
             \/ \E t \in Thread : Full(t)
             \/ \E r \in Room, w \in Round : TcpAdmit(r, w)
             \/ CrashRestart
             \/ Tick
             \/ UNCHANGED vars
      PROVE  UNCHANGED <<hits, uses>>
  BY <1>3 DEF Present, Full, TcpAdmit, CrashRestart, Tick, vars
<1> QED
  BY <1>1, <1>2, <1>3 DEF Next

\* The HTTP visits on a ticket are the quota of two rounds at most; TCP connections
\* on it are not counted (TcpAdmit) and not bounded.
THEOREM TicketCorrect == Prompt => (Spec => []TicketReach)
<1> SUFFICES ASSUME Prompt PROVE Spec => []TicketReach
  OBVIOUS
<1>1. Init => ReachInv
  BY DEF Init, Zero, ReachInv, Reach
<1>2. TypeInv /\ QuotaInv /\ ReachInv => TicketReach
  <2> SUFFICES ASSUME TypeInv, QuotaInv, ReachInv, Limited,
                      NEW r \in Room, NEW w \in Round
               PROVE  uses[r][w] <= 2 * RoomMaxUses
    BY DEF TicketReach
  <2>1. RoomMaxUses \in Nat
    BY ConstantsAssumption DEF Limited
  <2>2. uses[r][w] <= Reach(r, w)
    BY DEF ReachInv
  <2>3. \A n \in Round : hits[r][n] \in Nat /\ hits[r][n] <= RoomMaxUses
    BY DEF QuotaInv, QuotaPerRound, TypeInv, TypeOK
  <2>4. uses[r][w] \in Nat
    BY DEF TypeInv, TypeOK
  <2> QED
    BY <2>1, <2>2, <2>3, <2>4 DEF Reach
<1> QED
  BY <1>1, <1>2, ReachStep, TypeInvCorrect, QuotaInvCorrect, PTL DEF Spec
------------------------------------------------------------------------------
(* The store.                                                              *)

StoreInv == StoreBounded /\ NoFuture

LEMMA StoreStep == TypeInv /\ StoreInv /\ [Next]_vars => StoreInv'
<1> SUFFICES ASSUME TypeInv, StoreInv, [Next]_vars PROVE StoreInv'
  OBVIOUS
<1> USE ConstantsAssumption
<1>1. ASSUME UNCHANGED counts, round' \in Int, round' >= round PROVE StoreInv'
  <2>1. round \in Int /\ \A n \in Round : n \in Int
    BY DEF TypeInv, TypeOK, Round
  <2>2. StoreBounded'
    BY <1>1 DEF StoreInv, StoreBounded, Entry
  <2>3. NoFuture'
    BY <1>1, <2>1 DEF StoreInv, NoFuture, Entry
  <2> QED
    BY <2>2, <2>3 DEF StoreInv
<1>2. ASSUME NEW t \in Thread, Admit(t), Limited PROVE StoreInv'
  <2> DEFINE r == req[t].room
             n == req[t].rnd
  <2>1. r \in Room /\ n \in Round /\ UNCHANGED round /\ CountVisit(r, n)
    BY <1>2, AdmitValue DEF Request
  <2>2. n <= round /\ round - n <= MaxLag
    BY <1>2 DEF Admit, TypeInv, LagInv
  <2> HIDE DEF r, n
  <2>4. \A q \in Room, m \in Round :
          Entry(q, m)' = IF q = r /\ m = n THEN Entry(r, n) + 1
                         ELSE IF q # r \/ m >= n - 1 THEN Entry(q, m) ELSE 0
    BY <2>1, CountVisitValue DEF TypeInv
  <2>5. round \in Int /\ MaxLag \in Int /\ n \in Int /\ \A m \in Round : m \in Int
    BY <2>1 DEF TypeInv, TypeOK, Round
  <2>6. ASSUME NEW q \in Room, NEW m \in Round, q = r, Entry(q, m)' > 0
        PROVE  m >= n - 1 /\ m <= round
    <3>1. CASE m = n
      BY <2>2, <2>5, <3>1
    <3>2. CASE m # n
      <4>1. Entry(q, m)' = IF m >= n - 1 THEN Entry(q, m) ELSE 0
        BY <2>4, <2>6, <3>2
      <4>2. m >= n - 1 /\ Entry(q, m) > 0
        BY <2>6, <4>1
      <4> QED
        BY <4>2 DEF StoreInv, NoFuture
    <3> QED
      BY <3>1, <3>2
  <2>7. NoFuture'
    <3> SUFFICES ASSUME NEW q \in Room, NEW m \in Round, Entry(q, m)' > 0
                 PROVE  m <= round'
      BY DEF NoFuture
    <3>1. CASE q = r
      BY <2>1, <2>6, <3>1
    <3>2. CASE q # r
      <4>1. Entry(q, m)' = Entry(q, m)
        BY <2>4, <3>2
      <4> QED
        BY <2>1, <4>1 DEF StoreInv, NoFuture
    <3> QED
      BY <3>1, <3>2
  <2>8. StoreBounded'
    <3> SUFFICES ASSUME NEW q \in Room, NEW m \in Round, NEW l \in Round,
                        Entry(q, m)' > 0, Entry(q, l)' > 0
                 PROVE  l - m <= MaxLag + 1
      BY DEF StoreBounded
    <3>1. CASE q # r
      BY <2>4, <3>1 DEF StoreInv, StoreBounded
    <3>2. CASE q = r
      <4>1. m >= n - 1 /\ l <= round
        BY <2>6, <3>2
      <4> QED
        BY <2>2, <2>5, <4>1
    <3> QED
      BY <3>1, <3>2
  <2> QED
    BY <2>7, <2>8 DEF StoreInv
<1>3. ASSUME \/ \E t \in Thread : Admit(t) /\ ~Limited
             \/ \E t \in Thread, r \in Room, w \in Round : Present(t, r, w)
             \/ \E t \in Thread : Full(t)
             \/ \E r \in Room, w \in Round : TcpAdmit(r, w)
             \/ CrashRestart
             \/ Tick
             \/ UNCHANGED vars
      PROVE  StoreInv'
  <2>1. UNCHANGED counts
    BY <1>3 DEF Admit, Present, Full, TcpAdmit, CrashRestart, Tick, vars
  <2>2. round' \in Int /\ round' >= round
    BY <1>3
    DEF Admit, Present, Full, TcpAdmit, CrashRestart, Tick, vars, TypeInv, TypeOK, Round
  <2> QED
    BY <1>1, <2>1, <2>2
<1> QED
  BY <1>2, <1>3 DEF Next

\* ROOM_DB holds entries of a bounded number of rounds of a room, however late
\* requests are.
THEOREM StoreCorrect == Spec => []StoreBounded
<1>1. Init => StoreInv
  BY DEF Init, Entry, StoreInv, StoreBounded, NoFuture
<1>2. StoreInv => StoreBounded
  BY DEF StoreInv
<1> QED
  BY <1>1, <1>2, StoreStep, TypeInvCorrect, PTL DEF Spec

\* A visit to a room leaves the entries of every other room alone: for any names of
\* rooms, the last colon of a key ends the name it was made from (KeyParts).
THEOREM RoomsApartCorrect == Spec => RoomsApart
<1>1. TypeInv /\ [Next]_vars =>
        [\A r \in Room :
           hits'[r] = hits[r] => \A n \in Round : Entry(r, n)' = Entry(r, n)]_vars
  <2> SUFFICES ASSUME TypeInv, [Next]_vars, NEW r \in Room, hits'[r] = hits[r],
                      NEW k \in Round
               PROVE  Entry(r, k)' = Entry(r, k)
    OBVIOUS
  <2>1. ASSUME NEW t \in Thread, Admit(t), Limited PROVE Entry(r, k)' = Entry(r, k)
    <3> DEFINE q == req[t].room
               n == req[t].rnd
    <3>1. /\ q \in Room /\ n \in Round
          /\ hits' = Count(hits, q, n)
          /\ CountVisit(q, n)
      BY <2>1, AdmitValue, ConstantsAssumption DEF Request
    <3> HIDE DEF q, n
    <3>2. TypeOK /\ hits \in [Room -> [Round -> Nat]]
      BY DEF TypeInv, TypeOK
    <3>3. hits'[q][n] = hits[q][n] + 1
      BY <3>1, <3>2, CountValue
    <3>4. hits[q][n] \in Nat
      BY <3>1, <3>2
    <3>5. r # q
      BY <3>3, <3>4
    <3>6. \A a \in Room, m \in Round :
            Entry(a, m)' = IF a = q /\ m = n THEN Entry(q, n) + 1
                           ELSE IF a # q \/ m >= n - 1 THEN Entry(a, m) ELSE 0
      BY <3>1, <3>2, ConstantsAssumption, CountVisitValue
    <3> QED
      BY <3>5, <3>6
  <2>2. ASSUME \/ \E t \in Thread : Admit(t) /\ ~Limited
               \/ \E t \in Thread, q \in Room, w \in Round : Present(t, q, w)
               \/ \E t \in Thread : Full(t)
               \/ \E q \in Room, w \in Round : TcpAdmit(q, w)
               \/ CrashRestart
               \/ Tick
               \/ UNCHANGED vars
        PROVE  UNCHANGED counts
    BY <2>2 DEF Admit, Present, Full, TcpAdmit, CrashRestart, Tick, vars
  <2> QED
    BY <2>1, <2>2 DEF Next, Entry
<1> QED
  BY <1>1, TypeInvCorrect, PTL DEF Spec, RoomsApart
------------------------------------------------------------------------------
(* Refusals.                                                               *)

\* ROOM_DB never says more than was let through, however late requests are: pruning
\* forgets visits and does not invent any.
NoneInvented == \A r \in Room, n \in Round : Entry(r, n) <= hits[r][n]

LEMMA NoneInventedStep == TypeInv /\ NoneInvented /\ [Next]_vars => NoneInvented'
<1> SUFFICES ASSUME TypeInv, NoneInvented, [Next]_vars PROVE NoneInvented'
  OBVIOUS
<1>1. /\ \A r \in Room, n \in Round : Entry(r, n) \in Nat
      /\ hits \in [Room -> [Round -> Nat]]
  BY EntryValue DEF TypeInv, TypeOK
<1>2. ASSUME NEW t \in Thread, Admit(t), NEW r \in Room, NEW n \in Round
      PROVE  Entry(r, n)' <= hits'[r][n]
  <2> DEFINE q == req[t].room
             m == req[t].rnd
  <2>1. q \in Room /\ m \in Round /\ hits' = Count(hits, q, m)
    BY <1>2, ConstantsAssumption, AdmitValue DEF Request
  <2>2. (Limited => CountVisit(q, m)) /\ (~Limited => UNCHANGED counts)
    BY <1>2, ConstantsAssumption, AdmitValue
  <2> HIDE DEF q, m
  <2>3. hits'[r][n] = IF r = q /\ n = m THEN hits[q][m] + 1 ELSE hits[r][n]
    <3>1. q \in Room /\ m \in Round /\ hits \in [Room -> [Round -> Nat]]
      BY <1>1, <2>1
    <3>2. \A a \in Room, b \in Round :
            Count(hits, q, m)[a][b] = IF a = q /\ b = m THEN hits[q][m] + 1 ELSE hits[a][b]
      BY <3>1, CountValue
    <3> QED
      BY <2>1, <3>2
  <2>4. /\ Entry(r, n) \in Nat /\ hits[r][n] \in Nat /\ Entry(r, n) <= hits[r][n]
        /\ Entry(q, m) \in Nat /\ hits[q][m] \in Nat /\ Entry(q, m) <= hits[q][m]
    BY <1>1, <2>1 DEF NoneInvented
  <2>5. \/ Entry(r, n)' = Entry(r, n)
        \/ Entry(r, n)' = 0
        \/ r = q /\ n = m /\ Entry(r, n)' = Entry(q, m) + 1
    <3>1. CASE Limited
      <4>1. Entry(r, n)' = IF r = q /\ n = m THEN Entry(q, m) + 1
                           ELSE IF r # q \/ n >= m - 1 THEN Entry(r, n) ELSE 0
        BY <2>1, <2>2, <3>1, ConstantsAssumption, CountVisitValue DEF TypeInv
      <4> QED
        BY <4>1
    <3>2. CASE ~Limited
      BY <2>2, <3>2 DEF Entry
    <3> QED
      BY <3>1, <3>2
  <2> QED
    BY <2>3, <2>4, <2>5
<1>3. ASSUME UNCHANGED <<counts, hits>> PROVE NoneInvented'
  BY <1>3 DEF NoneInvented, Entry
<1> QED
  BY <1>2, <1>3
  DEF Next, NoneInvented, Present, Full, TcpAdmit, CrashRestart, Tick, vars

\* Whoever tryIncRoom would refuse.
Refused(t) == req[t] # NoReq /\ Limited /\ ~HasQuota(req[t].room, req[t].rnd)

\* "room round full" is said only of a round that has let its quota through, for any
\* MaxLag: late requests may get too much, they never take anything from others.
THEOREM RefusalCorrect ==
  Spec => [](\A t \in Thread :
               Refused(t) => hits[req[t].room][req[t].rnd] >= RoomMaxUses)
<1> DEFINE Just == \A t \in Thread :
                     Refused(t) => hits[req[t].room][req[t].rnd] >= RoomMaxUses
<1>1. TypeInv /\ NoneInvented => Just
  <2> SUFFICES ASSUME TypeInv, NoneInvented, NEW t \in Thread, Refused(t)
               PROVE  hits[req[t].room][req[t].rnd] >= RoomMaxUses
    OBVIOUS
  <2>1. req[t].room \in Room /\ req[t].rnd \in Round
    BY DEF TypeInv, TypeOK, Refused, Request
  <2>2. /\ Entry(req[t].room, req[t].rnd) \in Nat
        /\ hits[req[t].room][req[t].rnd] \in Nat
        /\ Entry(req[t].room, req[t].rnd) <= hits[req[t].room][req[t].rnd]
    BY <2>1, EntryValue DEF TypeInv, TypeOK, NoneInvented
  <2>3. ~(Entry(req[t].room, req[t].rnd) < RoomMaxUses)
    BY DEF Refused, HasQuota
  <2> QED
    BY <2>2, <2>3, ConstantsAssumption
<1>2. Init => NoneInvented
  BY DEF Init, Zero, Entry, NoneInvented
<1> QED
  BY <1>1, <1>2, TypeInvCorrect, NoneInventedStep, PTL DEF Spec
------------------------------------------------------------------------------
(* The rate limit.  Buckets and threads, with the cap on every bucket:     *)

\* What a thread is about to write is a bucket of one of its addresses.
TodoInv ==
  \A t \in PyThread :
    todo[t] # NothingTodo => todo[t].ip \in PyIP /\ todo[t].bucket \in Bucket

BucketInv == RateTypeOK /\ TodoInv

\* The history only grows, and says nothing of what is to come.
HistoryInv ==
  \A ip \in IP, u, v \in Instant :
    /\ u <= v => passed[ip][u] <= passed[ip][v]
    /\ now < u => passed[ip][u] = passed[ip][now + 1]

\* What has been let through since instant s.
Since(ip, s) == passed[ip][now + 1] - passed[ip][s]

\* A bucket b of a client counts no more than was let through since it opened.
Covers(ip, b) == b.start <= now /\ b.count <= Since(ip, b.start)

\* The same of a bucket that is about to be written, for a request not yet counted.
CoversNext(ip, b) == b.start <= now /\ b.count <= Since(ip, b.start) + 1

BackedRate == \A ip \in IP : rate[ip] # NoBucket => Covers(ip, rate[ip])
BackedTodo ==
  \A t \in PyThread : todo[t] # NothingTodo => CoversNext(todo[t].ip, todo[t].bucket)
BackedInv == BackedRate /\ BackedTodo

\* Under the mutex it stands for all of them, and they all came while it ran: it
\* opened with one of them, and in the minute before that one there is room for it.
ExactBucket(ip, s, c) ==
  /\ s <= now
  /\ Since(ip, s) = c
  /\ passed[ip][s] < passed[ip][s + 1]
  /\ \A u \in Instant :
       /\ s + Minute < u => passed[ip][u] = passed[ip][now + 1]
       /\ s <= u + Minute /\ u <= s => passed[ip][s] - passed[ip][u] < Cap

Exact(ip) ==
  IF rate[ip] = NoBucket
    THEN \A u \in Instant : passed[ip][u] = 0
    ELSE ExactBucket(ip, rate[ip].start, rate[ip].count)

ExactInv == \A ip \in IP \ PyIP : Exact(ip)


LEMMA RateConstants ==
  /\ Cap \in Nat \ {0} /\ RatePerMin <= Cap
  /\ now \in Time => now \in Int /\ 0 <= now /\ now <= MaxTime
                     /\ now \in Instant /\ now + 1 \in Instant
BY RateAssumption DEF Cap, Time, Instant

LEMMA HitValue ==
  ASSUME RateTypeOK, NEW ip \in IP, Hit(ip)
  PROVE  /\ passed' \in [IP -> [Instant -> Nat]]
         /\ \A u \in Instant :
              passed'[ip][u] = IF now < u THEN passed[ip][u] + 1 ELSE passed[ip][u]
         /\ \A q \in IP : q # ip => passed'[q] = passed[q]
<1> DEFINE f == [u \in Instant |-> IF now < u THEN passed[ip][u] + 1 ELSE passed[ip][u]]
<1>1. passed' = [passed EXCEPT ![ip] = f]
  BY DEF Hit, RateTypeOK
<1>2. f \in [Instant -> Nat]
  <2>1. \A u \in Instant : passed[ip][u] \in Nat
    BY DEF RateTypeOK
  <2> QED
    BY <2>1
<1>3. \A u \in Instant : f[u] = IF now < u THEN passed[ip][u] + 1 ELSE passed[ip][u]
  OBVIOUS
<1> HIDE DEF f
<1> QED
  BY <1>1, <1>2, <1>3 DEF RateTypeOK

LEMMA BucketStep == BucketInv /\ [RateNext]_rateVars => BucketInv'
<1> SUFFICES ASSUME BucketInv, [RateNext]_rateVars PROVE BucketInv'
  OBVIOUS
<1> USE DEF BucketInv
\* A bucket that has room left holds one more within the cap.
<1>1. ASSUME NEW ip \in IP, ~Over(ip)
      PROVE  rate[ip] \in Bucket
  BY <1>1 DEF Over, RateTypeOK
<1>2. ASSUME NEW ip \in IP, ~Over(ip), ~BucketFull(ip)
      PROVE  [rate[ip] EXCEPT !.count = @ + 1] \in Bucket
  <2>1. rate[ip] \in Bucket /\ rate[ip].count < RatePerMin
    BY <1>1, <1>2, RateAssumption DEF BucketFull, Bucket, Cap
  <2>2. rate[ip].count + 1 \in 1..Cap
    BY <2>1, RateConstants, RateAssumption DEF Bucket
  <2> QED
    BY <2>1, <2>2 DEF Bucket
<1>3. [start |-> now, count |-> 1] \in Bucket
  BY RateConstants DEF Bucket, RateTypeOK
<1>4. ASSUME NEW ip \in IP, Open(ip) PROVE BucketInv'
  <2>1. rate' \in [IP -> Bucket \union {NoBucket}]
    BY <1>3, <1>4 DEF Open, RateTypeOK
  <2>2. passed' \in [IP -> [Instant -> Nat]]
    BY <1>4, HitValue DEF Open
  <2> QED
    BY <1>4, <2>1, <2>2 DEF Open, RateTypeOK, TodoInv
<1>5. ASSUME NEW ip \in IP, CountIn(ip) PROVE BucketInv'
  <2>1. rate' \in [IP -> Bucket \union {NoBucket}]
    BY <1>2, <1>5 DEF CountIn, RateTypeOK
  <2>2. passed' \in [IP -> [Instant -> Nat]]
    BY <1>5, HitValue DEF CountIn
  <2> QED
    BY <1>5, <2>1, <2>2 DEF CountIn, RateTypeOK, TodoInv
<1>6. ASSUME NEW t \in PyThread, NEW ip \in IP, PyDecide(t, ip) PROVE BucketInv'
  <2>1. PICK b \in Bucket : todo' = [todo EXCEPT ![t] = [ip |-> ip, bucket |-> b]]
    BY <1>2, <1>3, <1>6 DEF PyDecide
  <2>2. todo' \in [PyThread -> Todo]
    BY <2>1 DEF RateTypeOK, Todo
  <2>3. TodoInv'
    BY <1>6, <2>1 DEF PyDecide, RateTypeOK, TodoInv
  <2> QED
    BY <1>6, <2>2, <2>3 DEF PyDecide, RateTypeOK
<1>7. ASSUME NEW t \in PyThread, PyWrite(t) PROVE BucketInv'
  <2>1. todo[t].ip \in IP /\ todo[t].bucket \in Bucket
    BY <1>7, RateAssumption DEF PyWrite, TodoInv
  <2>2. rate' \in [IP -> Bucket \union {NoBucket}]
    BY <1>7, <2>1 DEF PyWrite, RateTypeOK
  <2>3. passed' \in [IP -> [Instant -> Nat]]
    BY <1>7, <2>1, HitValue DEF PyWrite
  <2>4. todo' \in [PyThread -> Todo]
    BY <1>7 DEF PyWrite, RateTypeOK, Todo, NothingTodo
  <2>5. TodoInv'
    BY <1>7 DEF PyWrite, RateTypeOK, TodoInv
  <2> QED
    BY <1>7, <2>2, <2>3, <2>4, <2>5 DEF PyWrite, RateTypeOK
<1>8. CASE Restart
  <2>1. passed' \in [IP -> [Instant -> Nat]]
    BY <1>8 DEF Restart, NoPasses
  <2>2. todo' \in [PyThread -> Todo] /\ TodoInv'
    BY <1>8 DEF Restart, Todo, NothingTodo, TodoInv
  <2> QED
    BY <1>8, <2>1, <2>2 DEF Restart, RateTypeOK
<1>9. CASE RateTick
  BY <1>9, RateConstants, RateAssumption DEF RateTick, RateTypeOK, TodoInv, Time
<1>10. CASE UNCHANGED rateVars
  BY <1>10 DEF rateVars, RateTypeOK, TodoInv
<1> QED
  BY <1>4, <1>5, <1>6, <1>7, <1>8, <1>9, <1>10 DEF RateNext

LEMMA BucketInit == RateInit => BucketInv
<1> SUFFICES ASSUME RateInit PROVE BucketInv
  OBVIOUS
<1>1. passed \in [IP -> [Instant -> Nat]]
  BY DEF RateInit, NoPasses
<1>2. todo \in [PyThread -> Todo] /\ TodoInv
  BY DEF RateInit, Todo, NothingTodo, TodoInv
<1>3. now \in Time
  BY RateAssumption DEF RateInit, Time
<1> QED
  BY <1>1, <1>2, <1>3 DEF RateInit, RateTypeOK, BucketInv

\* Types, and no bucket holds more than its cap, in either guard.
THEOREM RateTypeCorrect == RateSpec => []RateTypeOK
<1>1. BucketInv => RateTypeOK
  BY DEF BucketInv
<1> QED
  BY <1>1, BucketInit, BucketStep, PTL DEF RateSpec
------------------------------------------------------------------------------
(* No refusal without cause, with the mutex and without it.                *)

\* The step that lets a request of one client through.
LEMMA HistoryHit ==
  ASSUME RateTypeOK, HistoryInv, NEW ip \in IP, Hit(ip), now' = now
  PROVE  HistoryInv'
<1>1. now \in Int /\ now \in Instant /\ now + 1 \in Instant /\ now < now + 1
  BY RateConstants DEF RateTypeOK
<1>2. ASSUME NEW q \in IP, NEW u \in Instant, NEW v \in Instant
      PROVE  /\ u <= v => passed'[q][u] <= passed'[q][v]
             /\ now < u => passed'[q][u] = passed'[q][now + 1]
  <2>1. passed[q][u] \in Nat /\ passed[q][v] \in Nat /\ passed[q][now + 1] \in Nat
    BY <1>1 DEF RateTypeOK
  <2>2. /\ u <= v => passed[q][u] <= passed[q][v]
        /\ now < u => passed[q][u] = passed[q][now + 1]
    BY DEF HistoryInv
  <2>3. CASE q = ip
    <3>1. /\ passed'[q][u] = IF now < u THEN passed[q][u] + 1 ELSE passed[q][u]
          /\ passed'[q][v] = IF now < v THEN passed[q][v] + 1 ELSE passed[q][v]
          /\ passed'[q][now + 1] = passed[q][now + 1] + 1
      BY <1>1, <2>3, HitValue
    <3>2. u \in Int /\ v \in Int
      BY RateAssumption DEF Instant
    <3> QED
      BY <1>1, <2>1, <2>2, <3>1, <3>2
  <2>4. CASE q # ip
    BY <2>2, <2>4, HitValue
  <2> QED
    BY <2>3, <2>4
<1> QED
  BY <1>2 DEF HistoryInv

LEMMA HistoryStep == BucketInv /\ HistoryInv /\ [RateNext]_rateVars => HistoryInv'
<1> SUFFICES ASSUME BucketInv, HistoryInv, [RateNext]_rateVars PROVE HistoryInv'
  OBVIOUS
<1>1. RateTypeOK
  BY DEF BucketInv
<1>2. ASSUME NEW ip \in IP, Open(ip) \/ CountIn(ip) PROVE HistoryInv'
  BY <1>1, <1>2, HistoryHit DEF Open, CountIn
<1>3. ASSUME NEW t \in PyThread, PyWrite(t) PROVE HistoryInv'
  <2>1. todo[t].ip \in IP
    BY <1>3, RateAssumption DEF PyWrite, BucketInv, TodoInv
  <2> QED
    BY <1>1, <1>3, <2>1, HistoryHit DEF PyWrite
<1>4. ASSUME NEW t \in PyThread, NEW ip \in IP, PyDecide(t, ip) PROVE HistoryInv'
  BY <1>4 DEF PyDecide, HistoryInv
<1>5. CASE Restart
  <2>1. now \in Instant /\ now + 1 \in Instant
    BY <1>1, RateConstants DEF RateTypeOK
  <2>2. \A ip \in IP, u \in Instant : passed'[ip][u] = 0
    BY <1>5 DEF Restart, NoPasses
  <2> QED
    BY <1>5, <2>1, <2>2 DEF HistoryInv, Restart
<1>6. CASE RateTick
  <2>1. /\ now \in Int /\ now + 1 \in Instant /\ now < now + 1
        /\ now' = now + 1 /\ passed' = passed
    BY <1>1, <1>6, RateConstants DEF RateTick, RateTypeOK
  <2>2. now + 2 \in Instant
    BY <1>6, <2>1, RateAssumption DEF RateTick, Instant
  <2>3. ASSUME NEW ip \in IP, NEW u \in Instant, now' < u
        PROVE  passed'[ip][u] = passed'[ip][now' + 1]
    <3>1. now < u /\ now' + 1 = now + 2 /\ now < now + 2
      BY <2>1, <2>3, RateAssumption DEF Instant
    <3>2. passed[ip][u] = passed[ip][now + 1] /\ passed[ip][now + 2] = passed[ip][now + 1]
      BY <2>2, <3>1 DEF HistoryInv
    <3> QED
      BY <2>1, <3>1, <3>2
  <2> QED
    BY <2>1, <2>3 DEF HistoryInv
<1>7. CASE UNCHANGED rateVars
  BY <1>7 DEF rateVars, HistoryInv
<1> QED
  BY <1>2, <1>3, <1>4, <1>5, <1>6, <1>7 DEF RateNext

LEMMA HistoryInit == RateInit => HistoryInv
<1> SUFFICES ASSUME RateInit PROVE HistoryInv
  OBVIOUS
<1>1. now \in Instant /\ now + 1 \in Instant
  BY RateAssumption DEF RateInit, Instant
<1>2. \A ip \in IP, u \in Instant : passed[ip][u] = 0
  BY DEF RateInit, NoPasses
<1> QED
  BY <1>1, <1>2 DEF HistoryInv

\* What a request adds to what has been let through since an earlier instant.
LEMMA SinceHit ==
  ASSUME RateTypeOK, NEW ip \in IP, Hit(ip), now' = now,
         NEW q \in IP, NEW s \in Time, s <= now
  PROVE  /\ Since(q, s) \in Int
         /\ Since(q, s)' = IF q = ip THEN Since(q, s) + 1 ELSE Since(q, s)
<1>1. /\ now \in Int /\ now + 1 \in Instant /\ now < now + 1 /\ ~(now < s)
      /\ s \in Instant
  BY RateConstants, RateAssumption DEF RateTypeOK, Time, Instant
<1>2. passed[q][now + 1] \in Nat /\ passed[q][s] \in Nat
  BY <1>1 DEF RateTypeOK
<1>3. CASE q = ip
  <2>1. passed'[q][now + 1] = passed[q][now + 1] + 1 /\ passed'[q][s] = passed[q][s]
    BY <1>1, <1>3, HitValue
  <2> QED
    BY <1>2, <1>3, <2>1 DEF Since
<1>4. CASE q # ip
  BY <1>2, <1>4, HitValue DEF Since
<1> QED
  BY <1>3, <1>4

\* Time that passes adds nothing.
LEMMA SinceTick ==
  ASSUME RateTypeOK, HistoryInv, RateTick, NEW q \in IP, NEW s
  PROVE  Since(q, s)' = Since(q, s)
<1>1. now \in Int /\ now < now + 2 /\ now' + 1 = now + 2 /\ passed' = passed
  BY RateConstants DEF RateTick, RateTypeOK
<1>2. now + 2 \in Instant
  BY RateConstants, RateAssumption DEF RateTick, RateTypeOK, Instant, Time
<1>3. passed[q][now + 2] = passed[q][now + 1]
  BY <1>1, <1>2 DEF HistoryInv
<1> QED
  BY <1>1, <1>3 DEF Since

LEMMA CoversHit ==
  ASSUME RateTypeOK, NEW ip \in IP, Hit(ip), now' = now, NEW q \in IP, NEW b \in Bucket
  PROVE  /\ Covers(q, b) => Covers(q, b)'
         /\ CoversNext(q, b) => CoversNext(q, b)'
         /\ q = ip /\ CoversNext(q, b) => Covers(q, b)'
<1>1. b.start \in Time /\ b.count \in Int
  BY RateConstants DEF Bucket
<1>2. CASE b.start <= now
  <2>1. /\ Since(q, b.start) \in Int
        /\ Since(q, b.start)' = IF q = ip THEN Since(q, b.start) + 1 ELSE Since(q, b.start)
    BY <1>1, <1>2, SinceHit
  <2>2. Since(q, b.start)' = passed'[q][now' + 1] - passed'[q][b.start]
    BY DEF Since
  <2> QED
    BY <1>1, <1>2, <2>1, <2>2 DEF Covers, CoversNext, Since
<1>3. CASE ~(b.start <= now)
  BY <1>3 DEF Covers, CoversNext
<1> QED
  BY <1>2, <1>3

LEMMA BackedStep == BucketInv /\ HistoryInv /\ BackedInv /\ [RateNext]_rateVars => BackedInv'
<1> SUFFICES ASSUME BucketInv, HistoryInv, BackedInv, [RateNext]_rateVars
             PROVE  BackedInv'
  OBVIOUS
<1>1. RateTypeOK
  BY DEF BucketInv
<1>2. \A t \in PyThread :
        todo[t] # NothingTodo => todo[t].ip \in IP /\ todo[t].bucket \in Bucket
  BY RateAssumption DEF BucketInv, TodoInv
\* Nobody's bucket is behind the present instant.
<1>3. ASSUME NEW ip \in IP PROVE Since(ip, now) >= 0 /\ Since(ip, now) \in Int
  <2>1. now \in Instant /\ now + 1 \in Instant /\ now <= now + 1
    BY <1>1, RateConstants DEF RateTypeOK
  <2>2. passed[ip][now] <= passed[ip][now + 1]
    BY <2>1 DEF HistoryInv
  <2>3. passed[ip][now] \in Nat /\ passed[ip][now + 1] \in Nat
    BY <1>1, <2>1 DEF RateTypeOK
  <2> QED
    BY <2>2, <2>3 DEF Since
<1>4. [start |-> now, count |-> 1] \in Bucket /\ now \in Int
  BY <1>1, RateConstants DEF Bucket, RateTypeOK
<1>5. ASSUME NEW ip \in IP PROVE CoversNext(ip, [start |-> now, count |-> 1])
  BY <1>3, <1>4, <1>5 DEF CoversNext
\* Counting in the running bucket.
<1>6. ASSUME NEW ip \in IP, ~Over(ip), ~BucketFull(ip)
      PROVE  /\ [rate[ip] EXCEPT !.count = @ + 1] \in Bucket
             /\ CoversNext(ip, [rate[ip] EXCEPT !.count = @ + 1])
  <2>1. rate[ip] \in Bucket /\ rate[ip] # NoBucket
    BY <1>1, <1>6 DEF Over, RateTypeOK
  <2>2. rate[ip].count < RatePerMin /\ rate[ip].count \in 1..Cap
    BY <1>6, <2>1, RateConstants, RateAssumption DEF BucketFull, Bucket
  <2>3. rate[ip].count + 1 \in 1..Cap
    BY <2>2, RateConstants, RateAssumption
  <2>4. [rate[ip] EXCEPT !.count = @ + 1] \in Bucket
    BY <2>1, <2>3 DEF Bucket
  <2>5. Covers(ip, rate[ip])
    BY <2>1 DEF BackedInv, BackedRate
  <2>6. rate[ip].start <= now /\ Since(ip, rate[ip].start) \in Int
    <3>1. rate[ip].start \in Instant /\ now + 1 \in Instant
      BY <1>1, <2>1, RateConstants, RateAssumption DEF Bucket, Time, Instant, RateTypeOK
    <3> QED
      BY <1>1, <2>5, <3>1 DEF Covers, Since, RateTypeOK
  <2>7. /\ [rate[ip] EXCEPT !.count = @ + 1].count = rate[ip].count + 1
        /\ [rate[ip] EXCEPT !.count = @ + 1].start = rate[ip].start
    BY <2>1 DEF Bucket
  <2> QED
    BY <2>2, <2>4, <2>5, <2>6, <2>7 DEF Covers, CoversNext
\* A request of ip that is let through and leaves the bucket b.
<1>7. ASSUME NEW ip \in IP, Hit(ip), now' = now, NEW b \in Bucket, CoversNext(ip, b),
             rate' = [rate EXCEPT ![ip] = b]
      PROVE  BackedRate'
  <2>1. ASSUME NEW q \in IP, rate'[q] # NoBucket PROVE Covers(q, rate[q])'
    <3>1. CASE q = ip
      <4>1. rate'[q] = b
        BY <1>1, <1>7, <3>1 DEF RateTypeOK
      <4>2. Covers(ip, b)'
        BY <1>1, <1>7, CoversHit
      <4> QED
        BY <3>1, <4>1, <4>2 DEF Covers
    <3>2. CASE q # ip
      <4>1. rate'[q] = rate[q] /\ rate[q] \in Bucket /\ Covers(q, rate[q])
        BY <1>1, <1>7, <2>1, <3>2 DEF RateTypeOK, BackedInv, BackedRate
      <4>2. ASSUME NEW c \in Bucket, Covers(q, c) PROVE Covers(q, c)'
        BY <1>1, <1>7, <4>2, CoversHit
      <4>3. \A c \in Bucket : Covers(q, c) => c.start <= now' /\ c.count <= Since(q, c.start)'
        BY <4>2 DEF Covers
      <4>4. rate'[q].start <= now' /\ rate'[q].count <= Since(q, rate[q].start)'
        BY <4>1, <4>3 DEF Since
      <4> QED
        BY <4>1, <4>4 DEF Covers
    <3> QED
      BY <3>1, <3>2
  <2> QED
    BY <2>1 DEF BackedRate, Covers
<1>8. ASSUME NEW ip \in IP, Hit(ip), now' = now, NEW t \in PyThread,
             todo[t] # NothingTodo, todo'[t] = todo[t]
      PROVE  CoversNext(todo[t].ip, todo[t].bucket)'
  <2>1. todo[t].ip \in IP /\ todo[t].bucket \in Bucket
    BY <1>2, <1>8
  <2>2. CoversNext(todo[t].ip, todo[t].bucket)
    BY <1>8 DEF BackedInv, BackedTodo
  <2>3. ASSUME NEW q \in IP, NEW c \in Bucket, CoversNext(q, c)
        PROVE  c.start <= now' /\ c.count <= Since(q, c.start)' + 1
    <3>1. CoversNext(q, c)'
      BY <1>1, <1>8, <2>3, CoversHit
    <3> QED
      BY <3>1 DEF CoversNext
  <2>4. \A q \in IP, c \in Bucket : CoversNext(q, c) =>
          c.start <= now' /\ c.count <= passed'[q][now' + 1] - passed'[q][c.start] + 1
    BY <2>3 DEF Since
  <2> QED
    BY <1>8, <2>1, <2>2, <2>4 DEF CoversNext, Since
<1>9. ASSUME NEW ip \in IP, Open(ip) PROVE BackedInv'
  <2>1. BackedRate'
    BY <1>4, <1>5, <1>7, <1>9 DEF Open
  <2>2. BackedTodo'
    BY <1>8, <1>9 DEF Open, BackedTodo
  <2> QED
    BY <2>1, <2>2 DEF BackedInv
<1>10. ASSUME NEW ip \in IP, CountIn(ip) PROVE BackedInv'
  <2>1. rate' = [rate EXCEPT ![ip] = [rate[ip] EXCEPT !.count = @ + 1]]
    BY <1>1, <1>10 DEF CountIn, RateTypeOK
  <2>2. BackedRate'
    BY <1>6, <1>7, <1>10, <2>1 DEF CountIn
  <2>3. BackedTodo'
    BY <1>8, <1>10 DEF CountIn, BackedTodo
  <2> QED
    BY <2>2, <2>3 DEF BackedInv
<1>11. ASSUME NEW t \in PyThread, NEW ip \in IP, PyDecide(t, ip) PROVE BackedInv'
  <2>1. PICK b \in Bucket : /\ CoversNext(ip, b)
                            /\ todo' = [todo EXCEPT ![t] = [ip |-> ip, bucket |-> b]]
    BY <1>4, <1>5, <1>6, <1>11 DEF PyDecide
  <2>2. UNCHANGED <<now, rate, passed>>
    BY <1>11 DEF PyDecide
  <2>3. BackedRate'
    BY <2>2 DEF BackedInv, BackedRate, Covers, Since
  <2>4. ASSUME NEW u \in PyThread, todo'[u] # NothingTodo
        PROVE  CoversNext(todo[u].ip, todo[u].bucket)'
    <3>1. CASE u = t
      <4>1. todo'[u].ip = ip /\ todo'[u].bucket = b
        BY <1>1, <2>1, <3>1 DEF RateTypeOK
      <4> QED
        BY <2>1, <2>2, <4>1 DEF CoversNext, Since
    <3>2. CASE u # t
      <4>1. todo'[u] = todo[u]
        BY <2>1, <3>2, <1>1 DEF RateTypeOK
      <4> QED
        BY <2>2, <2>4, <4>1 DEF BackedInv, BackedTodo, CoversNext, Since
    <3> QED
      BY <3>1, <3>2
  <2> QED
    BY <2>3, <2>4 DEF BackedInv, BackedTodo
<1>12. ASSUME NEW t \in PyThread, PyWrite(t) PROVE BackedInv'
  <2>1. /\ todo[t].ip \in IP /\ todo[t].bucket \in Bucket
        /\ CoversNext(todo[t].ip, todo[t].bucket)
    BY <1>2, <1>12 DEF PyWrite, BackedInv, BackedTodo
  <2>2. BackedRate'
    BY <1>7, <1>12, <2>1 DEF PyWrite
  <2>3. ASSUME NEW u \in PyThread, todo'[u] # NothingTodo
        PROVE  todo[u] # NothingTodo /\ todo'[u] = todo[u]
    BY <1>1, <1>12, <2>3 DEF PyWrite, RateTypeOK
  <2>4. BackedTodo'
    BY <1>8, <1>12, <2>1, <2>3 DEF PyWrite, BackedTodo
  <2> QED
    BY <2>2, <2>4 DEF BackedInv
<1>13. CASE Restart
  BY <1>13 DEF Restart, BackedInv, BackedRate, BackedTodo
<1>14. CASE RateTick
  <2>1. \A q \in IP : \A s : Since(q, s)' = Since(q, s)
    BY <1>1, <1>14, SinceTick
  <2>2. now' = now + 1 /\ UNCHANGED <<rate, todo, passed>>
    BY <1>14 DEF RateTick
  <2>3. ASSUME NEW s \in Time, s <= now PROVE s <= now'
    BY <1>4, <2>2, <2>3, RateAssumption DEF Time
  <2>4. \A q \in IP : \A s : passed'[q][now' + 1] - passed'[q][s] = Since(q, s)
    BY <2>1 DEF Since
  <2>5. \A q \in IP, b \in Bucket :
          /\ Covers(q, b) =>
               b.start <= now' /\ b.count <= passed'[q][now' + 1] - passed'[q][b.start]
          /\ CoversNext(q, b) =>
               b.start <= now' /\ b.count <= passed'[q][now' + 1] - passed'[q][b.start] + 1
    BY <2>3, <2>4 DEF Covers, CoversNext, Bucket
  <2>6. BackedRate'
    BY <1>1, <2>2, <2>5 DEF BackedInv, BackedRate, Covers, Since, RateTypeOK
  <2>7. BackedTodo'
    BY <1>2, <2>2, <2>5 DEF BackedInv, BackedTodo, CoversNext, Since
  <2> QED
    BY <2>6, <2>7 DEF BackedInv
<1>15. CASE UNCHANGED rateVars
  BY <1>15 DEF rateVars, BackedInv, BackedRate, BackedTodo, Covers, CoversNext, Since
<1> QED
  BY <1>9, <1>10, <1>11, <1>12, <1>13, <1>14, <1>15 DEF RateNext

LEMMA MinuteStartBounds ==
  ASSUME NEW t \in Time
  PROVE  /\ t \in Instant /\ t + 1 \in Instant /\ t \in Int
         /\ MinuteStart(t) \in Instant /\ MinuteStart(t) \in Int
         /\ MinuteStart(t) <= t /\ t <= MinuteStart(t) + Minute
         /\ MinuteStart(t) = 0 \/ MinuteStart(t) + Minute = t
<1>1. t \in Int /\ 0 <= t /\ t <= MaxTime /\ Minute \in Int /\ 0 < Minute /\ MaxTime \in Int
  BY RateAssumption DEF Time
<1> QED
  BY <1>1 DEF MinuteStart, Instant

\* A client is refused only for its own requests of the last minute, in Go and in
\* Python, whatever threads of rate_ok do to its bucket.
THEOREM DenialCorrect == RateSpec => []JustDenial
<1> DEFINE Inv == BucketInv /\ HistoryInv /\ BackedInv
<1>1. RateInit => Inv
  <2> SUFFICES ASSUME RateInit PROVE Inv
    OBVIOUS
  <2>4. BackedInv
    BY DEF RateInit, BackedInv, BackedRate, BackedTodo
  <2> QED
    BY <2>4, BucketInit, HistoryInit
<1>2. Inv /\ [RateNext]_rateVars => Inv'
  BY BucketStep, HistoryStep, BackedStep
<1>3. Inv => JustDenial
  <2> SUFFICES ASSUME Inv, NEW ip \in IP, Denied(ip)
               PROVE  LastMinute(ip, now) >= RatePerMin
    BY DEF JustDenial
  <2> DEFINE s == rate[ip].start
  <2>1. now \in Time
    BY DEF BucketInv, RateTypeOK
  <2>2. /\ rate[ip] # NoBucket /\ rate[ip] \in Bucket
        /\ ~(now - s > Minute) /\ rate[ip].count >= RatePerMin
    BY DEF Denied, Over, BucketFull, BucketInv, RateTypeOK
  <2>3. s <= now /\ rate[ip].count <= Since(ip, s)
    BY <2>2 DEF BackedInv, BackedRate, Covers
  <2>4. s \in Time /\ s \in Instant /\ now + 1 \in Instant /\ rate[ip].count \in Int
    BY <2>1, <2>2, RateConstants, RateAssumption DEF Bucket, Time, Instant
  <2> DEFINE v == MinuteStart(now)
  <2>5. v \in Instant /\ v \in Int /\ (v = 0 \/ v + Minute = now)
    BY <2>1, MinuteStartBounds
  <2>6. v <= s
    <3>1. now \in Int /\ s \in Int /\ 0 <= s /\ Minute \in Int
      BY <2>1, <2>4, RateAssumption DEF Time
    <3>2. now <= s + Minute
      BY <2>2, <3>1
    <3> HIDE DEF v, s
    <3> QED
      BY <2>5, <3>1, <3>2
  <2>7. passed[ip][v] <= passed[ip][s]
    BY <2>4, <2>5, <2>6 DEF HistoryInv
  <2>8. /\ passed[ip][v] \in Nat /\ passed[ip][s] \in Nat /\ passed[ip][now + 1] \in Nat
        /\ LastMinute(ip, now) = passed[ip][now + 1] - passed[ip][v]
    BY <2>4, <2>5 DEF BucketInv, RateTypeOK, LastMinute
  <2> HIDE DEF v, s
  <2> QED
    BY <2>2, <2>3, <2>4, <2>5, <2>7, <2>8, RateAssumption DEF Since
<1> QED
  BY <1>1, <1>2, <1>3, PTL DEF RateSpec
------------------------------------------------------------------------------
(* Under the mutex, a bound on every minute.                               *)

\* A bucket is opened after a minute in which less than the cap was let through.
LEMMA ExactOpen ==
  ASSUME BucketInv, HistoryInv, NEW ip \in IP \ PyIP, Exact(ip), Open(ip)
  PROVE  /\ Exact(ip)'
         /\ \A u \in Instant :
              now <= u + Minute /\ u <= now => passed[ip][now + 1] - passed[ip][u] < Cap
<1>1. RateTypeOK /\ now \in Int /\ now \in Instant /\ now + 1 \in Instant /\ now < now + 1
  BY RateConstants DEF BucketInv, RateTypeOK
<1>2. \A u \in Instant : passed[ip][u] \in Nat /\ u \in Int
  BY <1>1, RateAssumption DEF RateTypeOK, Instant
<1>3. Cap \in Nat \ {0} /\ Minute \in Nat \ {0}
  BY RateConstants, RateAssumption
\* Nothing was let through at this instant, and less than the cap in the minute
\* before.
<1>4. /\ passed[ip][now] = passed[ip][now + 1]
      /\ \A u \in Instant :
           now <= u + Minute /\ u <= now => passed[ip][now] - passed[ip][u] < Cap
  <2>1. CASE rate[ip] = NoBucket
    <3>1. \A u \in Instant : passed[ip][u] = 0
      BY <2>1 DEF Exact
    <3> QED
      BY <1>1, <1>3, <3>1
  <2>2. CASE rate[ip] # NoBucket
    <3> DEFINE s == rate[ip].start
               c == rate[ip].count
    <3>1. s \in Time /\ s \in Instant /\ s \in Int /\ c \in Int /\ c <= Cap
      BY <1>1, <2>2, <1>3, RateAssumption DEF RateTypeOK, Bucket, Time, Instant
    <3>2. s + Minute < now
      BY <1>1, <1>3, <2>2, <3>1 DEF Open, Over
    <3>3. ExactBucket(ip, s, c)
      BY <2>2 DEF Exact
    <3> HIDE DEF s, c
    <3>4. passed[ip][now] = passed[ip][now + 1]
      BY <1>1, <3>2, <3>3 DEF ExactBucket
    <3>5. s + 1 \in Instant
      BY <1>1, <1>3, <3>1, <3>2, RateAssumption DEF Instant
    <3>6. passed[ip][now + 1] = passed[ip][s] + c /\ passed[ip][s] + 1 <= passed[ip][s + 1]
      BY <1>1, <1>2, <3>1, <3>3, <3>5 DEF ExactBucket, Since
    <3>7. ASSUME NEW u \in Instant, now <= u + Minute, u <= now
          PROVE  passed[ip][now] - passed[ip][u] < Cap
      <4>1. s + 1 <= u
        BY <1>1, <1>2, <1>3, <3>1, <3>2, <3>7
      <4>2. passed[ip][s + 1] <= passed[ip][u]
        BY <3>5, <4>1 DEF HistoryInv
      <4>3. /\ passed[ip][s] \in Nat /\ passed[ip][s + 1] \in Nat
            /\ passed[ip][u] \in Nat /\ passed[ip][now] \in Nat
        BY <1>1, <1>2, <3>1, <3>5
      <4> QED
        BY <1>3, <3>1, <3>4, <3>6, <4>2, <4>3
    <3> QED
      BY <3>4, <3>7
  <2> QED
    BY <2>1, <2>2
<1>5. /\ \A u \in Instant :
           passed'[ip][u] = IF now < u THEN passed[ip][u] + 1 ELSE passed[ip][u]
      /\ now' = now
  BY <1>1, HitValue DEF Open
<1>6. /\ rate'[ip].start = now /\ rate'[ip].count = 1 /\ rate'[ip] # NoBucket
  <2>1. rate'[ip] = [start |-> now, count |-> 1]
    BY <1>1 DEF Open, RateTypeOK
  <2>2. [start |-> now, count |-> 1] \in Bucket
    BY <1>1, RateConstants DEF Bucket, RateTypeOK
  <2> QED
    BY <2>1, <2>2, RateAssumption
<1>7. passed'[ip][now + 1] = passed[ip][now] + 1 /\ passed'[ip][now] = passed[ip][now]
  BY <1>1, <1>4, <1>5
<1>8. ExactBucket(ip, rate[ip].start, rate[ip].count)'
  <2>1. passed'[ip][now' + 1] - passed'[ip][rate'[ip].start] = rate'[ip].count
    BY <1>1, <1>2, <1>5, <1>6, <1>7
  <2>2. passed'[ip][rate'[ip].start] < passed'[ip][rate'[ip].start + 1]
    BY <1>1, <1>2, <1>6, <1>7
  <2>3. ASSUME NEW u \in Instant, rate'[ip].start + Minute < u
        PROVE  passed'[ip][u] = passed'[ip][now' + 1]
    <3>1. now < u
      BY <1>1, <1>2, <1>3, <1>6, <2>3
    <3>2. passed[ip][u] = passed[ip][now + 1]
      BY <3>1 DEF HistoryInv
    <3> QED
      BY <1>1, <1>5, <3>1, <3>2
  <2>4. ASSUME NEW u \in Instant, rate'[ip].start <= u + Minute, u <= rate'[ip].start
        PROVE  passed'[ip][rate'[ip].start] - passed'[ip][u] < Cap
    <3>1. passed'[ip][u] = passed[ip][u]
      <4>1. u \in Int /\ u <= now
        BY <1>2, <1>6, <2>4
      <4>2. ~(now < u)
        BY <1>1, <4>1
      <4> QED
        BY <1>5, <4>2
    <3> QED
      BY <1>4, <1>6, <1>7, <2>4, <3>1
  <2>5. rate'[ip].start <= now'
    BY <1>1, <1>5, <1>6
  <2> QED
    BY <2>1, <2>2, <2>3, <2>4, <2>5 DEF ExactBucket, Since, Cap
<1> QED
  BY <1>4, <1>6, <1>8 DEF Exact

\* A request that finds room in its bucket has less than two caps in the minute
\* before: what the bucket holds, and what came before the request that opened it.
LEMMA ExactCount ==
  ASSUME BucketInv, HistoryInv, NEW ip \in IP \ PyIP, Exact(ip), CountIn(ip)
  PROVE  /\ Exact(ip)'
         /\ \A u \in Instant :
              now <= u + Minute /\ u <= now => passed[ip][now + 1] - passed[ip][u] < 2 * Cap - 1
<1> DEFINE s == rate[ip].start
           c == rate[ip].count
<1>1. RateTypeOK /\ now \in Int /\ now \in Instant /\ now + 1 \in Instant /\ now < now + 1
  BY RateConstants DEF BucketInv, RateTypeOK
<1>2. \A u \in Instant : passed[ip][u] \in Nat /\ u \in Int
  BY <1>1, RateAssumption DEF RateTypeOK, Instant
<1>3. Cap \in Nat \ {0} /\ Minute \in Nat \ {0}
  BY RateConstants, RateAssumption
<1>4. rate[ip] \in Bucket /\ rate[ip] # NoBucket
  BY <1>1 DEF CountIn, Over, RateTypeOK
<1>5. /\ s \in Time /\ s \in Instant /\ s \in Int /\ s + 1 \in Instant
      /\ c \in Int /\ c < Cap /\ now <= s + Minute
  <2>1. s \in Time /\ s \in Int /\ c \in Int /\ s + 1 \in Instant /\ s \in Instant
    BY <1>4, <1>3, RateAssumption DEF Bucket, Time, Instant
  <2>2. c < Cap
    BY <2>1, RateConstants, RateAssumption DEF CountIn, BucketFull
  <2>3. now <= s + Minute
    BY <1>1, <1>3, <2>1 DEF CountIn, Over
  <2> QED
    BY <2>1, <2>2, <2>3
<1>6. ExactBucket(ip, s, c)
  BY <1>4 DEF Exact
<1>7. rate'[ip].start = s /\ rate'[ip].count = c + 1 /\ rate'[ip] # NoBucket
  <2>1. rate'[ip] = [rate[ip] EXCEPT !.count = @ + 1]
    BY <1>1 DEF CountIn, RateTypeOK
  <2>2. rate'[ip].start = s /\ rate'[ip].count = c + 1
    BY <1>4, <2>1 DEF Bucket
  <2>3. rate'[ip] \in Bucket
    <3>1. c + 1 \in 1..Cap
      BY <1>4, <1>5, <1>3 DEF Bucket
    <3> QED
      BY <1>4, <2>1, <3>1 DEF Bucket
  <2> QED
    BY <2>2, <2>3, RateAssumption
<1> HIDE DEF s, c
<1>8. /\ \A u \in Instant :
           passed'[ip][u] = IF now < u THEN passed[ip][u] + 1 ELSE passed[ip][u]
      /\ now' = now
  BY <1>1, HitValue DEF CountIn
<1>9. /\ passed[ip][s] \in Nat /\ passed[ip][s + 1] \in Nat /\ passed[ip][now + 1] \in Nat
      /\ passed[ip][now + 1] = passed[ip][s] + c
      /\ passed[ip][s] < passed[ip][s + 1] /\ s <= now
  BY <1>1, <1>2, <1>5, <1>6 DEF ExactBucket, Since
<1>10. /\ passed'[ip][now + 1] = passed[ip][now + 1] + 1
       /\ passed'[ip][s] = passed[ip][s]
       /\ passed[ip][s + 1] <= passed'[ip][s + 1] /\ passed'[ip][s + 1] \in Nat
  BY <1>1, <1>5, <1>8, <1>9
<1>11. ASSUME NEW u \in Instant, s + Minute < u
       PROVE  passed'[ip][u] = passed'[ip][now + 1]
  <2>1. now < u
    BY <1>1, <1>2, <1>3, <1>5, <1>11
  <2>2. passed[ip][u] = passed[ip][now + 1]
    BY <2>1 DEF HistoryInv
  <2> QED
    BY <1>8, <1>10, <2>1, <2>2
<1>12. ASSUME NEW u \in Instant, s <= u + Minute, u <= s
       PROVE  passed'[ip][s] - passed'[ip][u] < Cap
  <2>1. ~(now < u)
    <3>1. u \in Int
      BY <1>2
    <3> QED
      BY <1>1, <1>5, <1>9, <1>12, <3>1
  <2>2. passed'[ip][u] = passed[ip][u]
    BY <1>8, <2>1
  <2>3. passed[ip][s] - passed[ip][u] < Cap
    BY <1>6, <1>12 DEF ExactBucket
  <2> QED
    BY <1>10, <2>2, <2>3
<1>13. ExactBucket(ip, rate[ip].start, rate[ip].count)'
  <2>1. passed'[ip][now' + 1] - passed'[ip][s] = c + 1
    BY <1>5, <1>8, <1>9, <1>10
  <2>2. passed'[ip][s] < passed'[ip][s + 1] /\ s <= now'
    BY <1>8, <1>9, <1>10
  <2> QED
    BY <1>7, <1>8, <1>11, <1>12, <2>1, <2>2 DEF ExactBucket, Since, Cap
<1>14. ASSUME NEW u \in Instant, now <= u + Minute, u <= now
       PROVE  passed[ip][now + 1] - passed[ip][u] < 2 * Cap - 1
  <2>1. passed[ip][u] \in Nat /\ u \in Int
    BY <1>2
  <2>2. CASE u <= s
    <3>1. s <= u + Minute
      BY <1>1, <1>3, <1>5, <1>9, <1>14, <2>1
    <3>2. passed[ip][s] - passed[ip][u] < Cap
      BY <1>6, <2>2, <3>1 DEF ExactBucket
    <3> QED
      BY <1>3, <1>5, <1>9, <2>1, <3>2
  <2>3. CASE s < u
    <3>1. passed[ip][s + 1] <= passed[ip][u]
      BY <1>5, <2>1, <2>3 DEF HistoryInv
    <3> QED
      BY <1>3, <1>5, <1>9, <2>1, <3>1
  <2> QED
    BY <1>5, <2>1, <2>2, <2>3
<1> QED
  BY <1>7, <1>13, <1>14 DEF Exact

\* Only the minutes that the present instant is in gain from a request.
LEMMA WindowHit ==
  ASSUME BucketInv, HistoryInv, NEW ip \in IP, Hit(ip), NEW t \in Time,
         LastMinute(ip, t) < 2 * Cap,
         \A u \in Instant :
           now <= u + Minute /\ u <= now => passed[ip][now + 1] - passed[ip][u] < 2 * Cap - 1
  PROVE  LastMinute(ip, t)' < 2 * Cap
<1> DEFINE v == MinuteStart(t)
<1>1. RateTypeOK /\ now \in Int /\ now + 1 \in Instant /\ now < now + 1
  BY RateConstants DEF BucketInv, RateTypeOK
<1>2. /\ v \in Instant /\ t + 1 \in Instant /\ v \in Int /\ t \in Int
      /\ v <= t /\ t <= v + Minute
  BY MinuteStartBounds
<1>3. /\ LastMinute(ip, t) = passed[ip][t + 1] - passed[ip][v]
      /\ LastMinute(ip, t)' = passed'[ip][t + 1] - passed'[ip][v]
  BY DEF LastMinute, MinuteStart
<1>4. Cap \in Nat /\ Minute \in Nat
  BY RateConstants, RateAssumption
<1>5. \A u \in Instant : passed[ip][u] \in Nat
  BY <1>1 DEF RateTypeOK
<1>6. \A u \in Instant :
        passed'[ip][u] = IF now < u THEN passed[ip][u] + 1 ELSE passed[ip][u]
  BY <1>1, HitValue
<1> HIDE DEF v
<1>7. passed[ip][v] \in Nat /\ passed[ip][t + 1] \in Nat /\ passed[ip][now + 1] \in Nat
  BY <1>1, <1>2, <1>5
<1>8. CASE now < v \/ t < now
  <2>1. now < t + 1 <=> now < v
    BY <1>1, <1>2, <1>8
  <2> QED
    BY <1>2, <1>3, <1>6, <1>7, <2>1
<1>9. CASE v <= now /\ now <= t
  <2>1. passed'[ip][t + 1] = passed[ip][t + 1] + 1 /\ passed'[ip][v] = passed[ip][v]
    BY <1>1, <1>2, <1>6, <1>9
  <2>2. passed[ip][t + 1] = passed[ip][now + 1]
    BY <1>1, <1>2, <1>9 DEF HistoryInv
  <2>3. now <= v + Minute
    BY <1>1, <1>2, <1>4, <1>9
  <2>4. passed[ip][now + 1] - passed[ip][v] < 2 * Cap - 1
    BY <1>2, <1>9, <2>3
  <2> QED
    BY <1>3, <1>4, <1>7, <2>1, <2>2, <2>4
<1> QED
  BY <1>1, <1>2, <1>8, <1>9

LEMMA ExactStep ==
  BucketInv /\ HistoryInv /\ ExactInv /\ BurstBound /\ [RateNext]_rateVars
    => ExactInv' /\ BurstBound'
<1> SUFFICES ASSUME BucketInv, HistoryInv, ExactInv, BurstBound, [RateNext]_rateVars
             PROVE  ExactInv' /\ BurstBound'
  OBVIOUS
<1>1. RateTypeOK
  BY DEF BucketInv
\* A client whose bucket and history stay as they are.
<1>2. ASSUME NEW q \in IP \ PyIP, now' = now, rate'[q] = rate[q], passed'[q] = passed[q]
      PROVE  Exact(q)' /\ \A t \in Time : LastMinute(q, t)' < 2 * Cap
  <2>1. Exact(q)'
    BY <1>2 DEF ExactInv, Exact, ExactBucket, Since, Cap
  <2>2. \A t \in Time : LastMinute(q, t)' < 2 * Cap
    BY <1>2 DEF BurstBound, LastMinute, MinuteStart
  <2> QED
    BY <2>1, <2>2
<1>3. ASSUME \A q \in IP \ PyIP : Exact(q)' /\ \A t \in Time : LastMinute(q, t)' < 2 * Cap
      PROVE  ExactInv' /\ BurstBound'
  BY <1>3 DEF ExactInv, BurstBound, Cap, Time
<1>4. ASSUME NEW ip \in IP \ PyIP, Open(ip) \/ CountIn(ip) PROVE ExactInv' /\ BurstBound'
  <2>1. Exact(ip) /\ \A t \in Time : LastMinute(ip, t) < 2 * Cap
    BY DEF ExactInv, BurstBound
  <2>2. /\ Exact(ip)'
        /\ \A u \in Instant :
             now <= u + Minute /\ u <= now => passed[ip][now + 1] - passed[ip][u] < 2 * Cap - 1
    <3>1. CASE Open(ip)
      <4>1. ASSUME NEW u \in Instant, passed[ip][now + 1] - passed[ip][u] < Cap
            PROVE  passed[ip][now + 1] - passed[ip][u] < 2 * Cap - 1
        <5>1. passed[ip][now + 1] \in Nat /\ passed[ip][u] \in Nat
          BY <1>1, RateConstants DEF RateTypeOK
        <5> QED
          BY <4>1, <5>1, RateConstants
      <4> QED
        BY <2>1, <3>1, <4>1, ExactOpen
    <3>2. CASE CountIn(ip)
      BY <2>1, <3>2, ExactCount
    <3> QED
      BY <1>4, <3>1, <3>2
  <2>3. Hit(ip) /\ now' = now
    BY <1>4 DEF Open, CountIn
  <2>4. \A t \in Time : LastMinute(ip, t)' < 2 * Cap
    BY <2>1, <2>2, <2>3, WindowHit
  <2>5. \A q \in IP : q # ip => rate'[q] = rate[q] /\ passed'[q] = passed[q]
    BY <1>1, <1>4, <2>3, HitValue DEF Open, CountIn, RateTypeOK
  <2> QED
    BY <1>2, <1>3, <2>2, <2>3, <2>4, <2>5
<1>5. ASSUME NEW ip \in IP, Open(ip) \/ CountIn(ip) PROVE ExactInv' /\ BurstBound'
  BY <1>4, <1>5 DEF Open, CountIn
<1>6. ASSUME NEW t \in PyThread, PyWrite(t) PROVE ExactInv' /\ BurstBound'
  <2>1. todo[t].ip \in PyIP /\ todo[t].ip \in IP
    BY <1>6, RateAssumption DEF PyWrite, BucketInv, TodoInv
  <2>2. \A q \in IP \ PyIP : rate'[q] = rate[q] /\ passed'[q] = passed[q]
    BY <1>1, <1>6, <2>1, HitValue DEF PyWrite, RateTypeOK
  <2> QED
    BY <1>2, <1>3, <1>6, <2>2 DEF PyWrite
<1>7. ASSUME NEW t \in PyThread, NEW ip \in IP, PyDecide(t, ip)
      PROVE  ExactInv' /\ BurstBound'
  BY <1>2, <1>3, <1>7 DEF PyDecide
<1>8. CASE Restart
  <2>1. \A q \in IP : rate'[q] = NoBucket /\ \A u \in Instant : passed'[q][u] = 0
    BY <1>8 DEF Restart, NoPasses
  <2>2. ASSUME NEW q \in IP, NEW t \in Time PROVE LastMinute(q, t)' < 2 * Cap
    <3>1. passed'[q][t + 1] = 0 /\ passed'[q][MinuteStart(t)] = 0
      BY <2>1, MinuteStartBounds
    <3> QED
      BY <3>1, RateConstants DEF LastMinute, MinuteStart
  <2> QED
    BY <1>3, <2>1, <2>2 DEF Exact
<1>9. CASE RateTick
  <2>1. ASSUME NEW q \in IP \ PyIP PROVE Exact(q)'
    <3>1. Exact(q) /\ UNCHANGED <<rate, passed>> /\ now' = now + 1
      BY <1>9 DEF ExactInv, RateTick
    <3>2. now \in Int /\ now + 2 \in Instant /\ now' + 1 = now + 2 /\ now < now + 2
      BY <1>1, <1>9, <3>1, RateConstants, RateAssumption DEF RateTick, Instant, RateTypeOK, Time
    <3>3. passed[q][now + 2] = passed[q][now + 1]
      BY <3>2 DEF HistoryInv
    <3>4. CASE rate[q] = NoBucket
      BY <3>1, <3>4 DEF Exact
    <3>5. CASE rate[q] # NoBucket
      <4>1. rate[q].start \in Int
        BY <1>1, <3>5, RateAssumption DEF RateTypeOK, Bucket, Time
      <4>2. ExactBucket(q, rate[q].start, rate[q].count)
        BY <3>1, <3>5 DEF Exact
      <4>3. ExactBucket(q, rate[q].start, rate[q].count)'
        BY <3>1, <3>2, <3>3, <4>1, <4>2 DEF ExactBucket, Since, Cap
      <4> QED
        BY <3>1, <3>5, <4>3 DEF Exact
    <3> QED
      BY <3>4, <3>5
  <2>2. \A q \in IP \ PyIP, t \in Time : LastMinute(q, t)' < 2 * Cap
    BY <1>9 DEF RateTick, BurstBound, LastMinute, MinuteStart
  <2> QED
    BY <1>3, <2>1, <2>2
<1>10. CASE UNCHANGED rateVars
  BY <1>2, <1>3, <1>10 DEF rateVars
<1> QED
  BY <1>5, <1>6, <1>7, <1>8, <1>9, <1>10 DEF RateNext

\* Under muRate, whatever a client does, any minute lets through less than twice
\* the limit.
THEOREM BurstCorrect == RateSpec => []BurstBound
<1> DEFINE Inv == BucketInv /\ HistoryInv /\ ExactInv /\ BurstBound
<1>1. RateInit => Inv
  <2> SUFFICES ASSUME RateInit PROVE Inv
    OBVIOUS
  <2>1. \A ip \in IP, u \in Instant : passed[ip][u] = 0
    BY DEF RateInit, NoPasses
  <2>2. ExactInv
    BY <2>1 DEF RateInit, ExactInv, Exact
  <2>3. ASSUME NEW ip \in IP, NEW t \in Time PROVE LastMinute(ip, t) < 2 * Cap
    <3>1. passed[ip][t + 1] = 0 /\ passed[ip][MinuteStart(t)] = 0
      BY <2>1, MinuteStartBounds
    <3> QED
      BY <3>1, RateConstants DEF LastMinute
  <2> QED
    BY <2>2, <2>3, BucketInit, HistoryInit DEF BurstBound
<1>2. Inv /\ [RateNext]_rateVars => Inv'
  BY BucketStep, HistoryStep, ExactStep
<1>3. Inv => BurstBound
  OBVIOUS
<1> QED
  BY <1>1, <1>2, <1>3, PTL DEF RateSpec
================================================================================
