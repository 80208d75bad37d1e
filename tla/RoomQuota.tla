------------------------------ MODULE RoomQuota ------------------------------
(***************************************************************************)
(* Rotating rooms of guard-go/main.go: handleRoom checks a ticket against  *)
(* the current and the previous round, then tryIncRoom counts the visit in *)
(* the JSON file ROOM_DB and refuses it once the round is full.            *)
(*                                                                         *)
(* The round is read once, before muRoom is taken, so a slow request may   *)
(* count its visit in a round that is over.  The section under muRoom is   *)
(* one step: only its holder touches ROOM_DB, and os.Rename makes a kill   *)
(* inside it leave the old file or the new one.                            *)
(*                                                                         *)
(* ROOM_DB is a JSON object with keys "<room>:<round>".  A string is the   *)
(* sequence of its parts between colons, so the room "a:1" is <<"a", 1>>   *)
(* and its entry of round 7 is <<"a", 1, 7>>: a room name may hold colons  *)
(* and numbers, and a key does not show where its name ends.               *)
(***************************************************************************)
EXTENDS Integers, Sequences

CONSTANTS
  Thread,        \* request goroutines
  Part,          \* what a room name has between colons
  Room,          \* room names, sequences of parts
  RoomMaxUses,   \* SEAL_ROOM_MAX_USES, 0 or less for no limit
  MaxRound,      \* bound on the round number
  MaxLag,        \* rounds that may begin while a request waits for muRoom
  MaxHits,       \* bound on the visits of a room in a round that meet no quota
  NoReq          \* an idle goroutine

Round == 0..MaxRound

\* A request past the ticket check: the round it read and its ticket's round.
Request == [room : Room, rnd : Round, ticket : Round]

\* fmt.Sprintf("%s:%d", room, rnd).
Key(r, n) == Append(r, n)

ASSUME RoomAssumption == Room \subseteq Seq(Part)

ASSUME ConstantsAssumption ==
  /\ RoomMaxUses \in Int
  /\ MaxRound \in Nat \ {0}
  /\ MaxLag \in Nat
  /\ MaxHits \in Nat
  /\ NoReq \notin Request

VARIABLES
  round,     \* time.Now().Unix() / RotateSecs
  req,       \* what each goroutine carries from the ticket check to tryIncRoom
  counts,    \* ROOM_DB: visits per key
  hits,      \* history: HTTP visits let through, per room and counted round
  uses,      \* history: the same visits, per room and round of the ticket
  tcpHits    \* history: TCP connections let through this round, per room

vars == <<round, req, counts, hits, uses, tcpHits>>

Zero == [r \in Room |-> [n \in Round |-> 0]]

Init == /\ round = 1
        /\ req = [t \in Thread |-> NoReq]
        /\ counts = <<>>
        /\ hits = Zero
        /\ uses = Zero
        /\ tcpHits = [r \in Room |-> 0]

Limited == RoomMaxUses > 0

\* Mutant of Accepted: tickets live one round longer.
AcceptedLonger(w) == w \in {round, round - 1, round - 2}

\* The rounds whose ticket is good now.
Accepted(w) == w \in {round, round - 1}

\* handleRoom up to tryIncRoom.  A bad ticket is a 403 and changes nothing.
Present(t, r, w) ==
  /\ req[t] = NoReq
  /\ Accepted(w)
  /\ ~Limited => hits[r][round] < MaxHits
  /\ req' = [req EXCEPT ![t] = [room |-> r, rnd |-> round, ticket |-> w]]
  /\ UNCHANGED <<round, counts, hits, uses, tcpHits>>

Count(f, r, n) == [f EXCEPT ![r][n] = @ + 1]

\* m[k], which is 0 for a key that is not in the map.
Entry(r, n) == IF Key(r, n) \in DOMAIN counts THEN counts[Key(r, n)] ELSE 0

\* Mutant of NameOf: the first colon.
NameOfFirstColon(k) == SubSeq(k, 1, 1)

\* The name and the round of a key: what is before and after the last colon.
NameOf(k) == SubSeq(k, 1, Len(k) - 1)
RoundOf(k) == k[Len(k)]

\* Mutants of Keeps: the previous round is dropped too; nothing is dropped.
KeepsCurrent(k, r, n) == NameOf(k) = r => RoundOf(k) >= n
KeepsAll(k, r, n) == TRUE

\* The entries that survive a visit to room r in round n: of the other rooms
\* all, of r those not older than the round before n.
Keeps(k, r, n) == NameOf(k) = r => RoundOf(k) >= n - 1

\* Mutant of CountVisit: the file holds what is left of the quota.
CountVisitDown(r, n) ==
  counts' = [k \in {j \in DOMAIN counts \union {Key(r, n)} : Keeps(j, r, n)} |->
               IF k = Key(r, n) THEN Entry(r, n) - 1 ELSE counts[k]]

\* The entry goes up, then every entry of the map is kept or dropped.
CountVisit(r, n) ==
  counts' = [k \in {j \in DOMAIN counts \union {Key(r, n)} : Keeps(j, r, n)} |->
               IF k = Key(r, n) THEN Entry(r, n) + 1 ELSE counts[k]]

\* Mutant of HasQuota: off by one.
HasQuotaPlusOne(r, n) == Entry(r, n) <= RoomMaxUses

HasQuota(r, n) == Entry(r, n) < RoomMaxUses

\* tryIncRoom returns true and the visitor goes on to proxyHTTP.
Admit(t) ==
  LET q == req[t] IN
  /\ q # NoReq
  /\ IF Limited THEN HasQuota(q.room, q.rnd) /\ CountVisit(q.room, q.rnd)
                ELSE UNCHANGED counts
  /\ hits' = Count(hits, q.room, q.rnd)
  /\ uses' = Count(uses, q.room, q.ticket)
  /\ req' = [req EXCEPT ![t] = NoReq]
  /\ UNCHANGED <<round, tcpHits>>

\* "room round full": 429.
Full(t) ==
  /\ req[t] # NoReq
  /\ Limited
  /\ ~HasQuota(req[t].room, req[t].rnd)
  /\ req' = [req EXCEPT ![t] = NoReq]
  /\ UNCHANGED <<round, counts, hits, uses, tcpHits>>

\* verifyTCPLine, "<room>:<ticket>": a TCP room ticket or an HTTP one, of this
\* round or the previous, opens the tunnel; tryIncRoom is not called.  A line with
\* more colons is taken for a link, so rooms with colons have no TCP.
TcpAdmit(r, w) ==
  /\ Len(r) = 1
  /\ Accepted(w)
  /\ tcpHits[r] < MaxHits
  /\ tcpHits' = [tcpHits EXCEPT ![r] = @ + 1]
  /\ UNCHANGED <<round, req, counts, hits, uses>>

\* The process is killed and started again.
CrashRestart ==
  /\ req' = [t \in Thread |-> NoReq]
  /\ UNCHANGED <<round, counts, hits, uses, tcpHits>>

\* The next round begins.
Tick ==
  /\ round < MaxRound
  /\ \A t \in Thread : req[t] # NoReq => round - req[t].rnd < MaxLag
  /\ round' = round + 1
  /\ tcpHits' = [r \in Room |-> 0]
  /\ UNCHANGED <<req, counts, hits, uses>>

Next ==
  \/ \E t \in Thread, r \in Room, w \in Round : Present(t, r, w)
  \/ \E t \in Thread : Admit(t) \/ Full(t)
  \/ \E r \in Room, w \in Round : TcpAdmit(r, w)
  \/ CrashRestart
  \/ Tick

Spec == Init /\ [][Next]_vars
------------------------------------------------------------------------------
\* Every variable keeps its type.
TypeOK ==
  /\ round \in Round
  /\ req \in [Thread -> Request \union {NoReq}]
  /\ DOMAIN counts \subseteq {Key(r, n) : r \in Room, n \in Round}
  /\ counts \in [DOMAIN counts -> Nat \ {0}]
  /\ hits \in [Room -> [Round -> Nat]]
  /\ uses \in [Room -> [Round -> Nat]]
  /\ tcpHits \in [Room -> Nat]

\* tryIncRoom: a round of a room lets RoomMaxUses visitors through, also when
\* their requests outlive the round, prune each other's entries or the guard is
\* restarted.
QuotaPerRound ==
  Limited => \A r \in Room, n \in Round : hits[r][n] <= RoomMaxUses

\* What ROOM_DB says of the rounds that can still be counted is the truth: no
\* visit is forgotten, so the quota holds, and none is invented, so nobody gets
\* "room round full" in a round that is not.
CountsExact ==
  Limited => \A r \in Room, n \in Round : n >= round - 1 => Entry(r, n) = hits[r][n]

\* handleRoom takes a ticket in its own round and the next: the HTTP visits on a
\* leaked ticket are the quota of two rounds at most, also when they were slow and
\* are counted late.  Only HTTP: verifyTCPLine takes the same ticket for as many
\* TCP connections as come, and counts none of them.
TicketReach ==
  Limited => \A r \in Room, w \in Round : uses[r][w] <= 2 * RoomMaxUses

\* ROOM_DB does not grow with time: the entries of a room are of MaxLag + 2
\* rounds in a row at most, so of three when requests wait for muRoom through one
\* change of round.
StoreBounded ==
  \A r \in Room : \A m, n \in Round :
    Entry(r, m) > 0 /\ Entry(r, n) > 0 => n - m <= MaxLag + 1

\* tryIncRoom reads the room of every entry out of its key and prunes by it: a
\* visit changes no entry of another room, whatever colons and numbers the two
\* names have.
RoomsApart ==
  [][\A r \in Room :
       hits'[r] = hits[r] => \A n \in Round : Entry(r, n)' = Entry(r, n)]_vars
==============================================================================
