------------------------------ MODULE RateLimit ------------------------------
(***************************************************************************)
(* The rate limit of guard-go/main.go: rateOK keeps a bucket per client    *)
(* address in a map under muRate.  A bucket opens with the first request   *)
(* after the last one ran out, and runs for a minute.  rateOK runs under   *)
(* the mutex from end to end, so a call is one step.                       *)
(*                                                                         *)
(* sealed/guard.py has the same buckets and no lock: rate_ok reads the     *)
(* clock and the bucket, and writes another bucket later, while handler    *)
(* threads of other requests do the same.                                  *)
(*                                                                         *)
(* Names that every component has begin with Rate or rate: LimitProofs     *)
(* extends this module and RoomQuota.                                      *)
(***************************************************************************)
EXTENDS Integers

CONSTANTS
  IP,          \* client addresses, as realIP returns them
  PyIP,        \* those that come to sealed/guard.py; the others come to guard-go
  PyThread,    \* handler threads of sealed/guard.py
  RatePerMin,  \* SEAL_RATE_PER_MIN
  Minute,      \* ticks of the clock in time.Minute
  MaxTime,     \* bound on the clock
  NoBucket,    \* no entry in the map
  NoIP         \* distinguished value: no request

\* What a bucket lets through: a bucket opens with one request whatever the limit.
Cap == IF RatePerMin < 1 THEN 1 ELSE RatePerMin

Time == 0..MaxTime
Instant == 0..MaxTime + 1
Bucket == [start : Time, count : 1..Cap]

ASSUME RateAssumption ==
  /\ PyIP \subseteq IP
  /\ NoIP \notin IP
  /\ RatePerMin \in Int
  /\ Minute \in Nat \ {0}
  /\ MaxTime \in Nat
  /\ NoBucket \notin Bucket

VARIABLES
  now,    \* time.Now(), monotonic
  rate,   \* the map, in memory only
  passed, \* history: requests let through before each instant by this process
  todo    \* what each thread is about to write: a bucket for an address

rateVars == <<now, rate, passed, todo>>

Todo == [ip : IP \union {NoIP}, bucket : Bucket \union {NoBucket}]
NothingTodo == [ip |-> NoIP, bucket |-> NoBucket]

NoPasses == [ip \in IP |-> [u \in Instant |-> 0]]

RateInit ==
  /\ now = 0
  /\ rate = [ip \in IP |-> NoBucket]
  /\ passed = NoPasses
  /\ todo = [t \in PyThread |-> NothingTodo]

Hit(ip) == passed' = [passed EXCEPT ![ip] =
                        [u \in Instant |-> IF now < u THEN @[u] + 1 ELSE @[u]]]

\* Mutant of Over: buckets of two minutes.
OverLate(ip) == rate[ip] # NoBucket => now - rate[ip].start > 2 * Minute

\* No bucket, or one that has run for more than a minute.
Over(ip) == rate[ip] # NoBucket => now - rate[ip].start > Minute

\* The request opens a bucket and passes.
Open(ip) ==
  /\ ip \notin PyIP
  /\ Over(ip)
  /\ rate' = [rate EXCEPT ![ip] = [start |-> now, count |-> 1]]
  /\ Hit(ip)
  /\ UNCHANGED <<now, todo>>

\* Mutant of BucketFull: off by one.
BucketFullPlusOne(ip) == rate[ip].count > RatePerMin

BucketFull(ip) == rate[ip].count >= RatePerMin

\* Mutant of CountIn: a request counts twice.
CountInDouble(ip) ==
  /\ ip \notin PyIP
  /\ ~Over(ip)
  /\ ~BucketFull(ip)
  /\ rate' = [rate EXCEPT ![ip].count = @ + 2]
  /\ Hit(ip)
  /\ UNCHANGED <<now, todo>>

\* The request is counted in the running bucket and passes.
CountIn(ip) ==
  /\ ip \notin PyIP
  /\ ~Over(ip)
  /\ ~BucketFull(ip)
  /\ rate' = [rate EXCEPT ![ip].count = @ + 1]
  /\ Hit(ip)
  /\ UNCHANGED <<now, todo>>

\* rate_ok decides that the request passes, and on what to write.
PyDecide(t, ip) ==
  /\ ip \in PyIP
  /\ todo[t] = NothingTodo
  /\ \/ /\ Over(ip)
        /\ todo' = [todo EXCEPT ![t] =
                      [ip |-> ip, bucket |-> [start |-> now, count |-> 1]]]
     \/ /\ ~Over(ip)
        /\ ~BucketFull(ip)
        /\ todo' = [todo EXCEPT ![t] =
                      [ip |-> ip, bucket |-> [rate[ip] EXCEPT !.count = @ + 1]]]
  /\ UNCHANGED <<now, rate, passed>>

\* It writes the bucket, whatever others have written since, and returns True.
PyWrite(t) ==
  LET ip == todo[t].ip IN
  /\ todo[t] # NothingTodo
  /\ rate' = [rate EXCEPT ![ip] = todo[t].bucket]
  /\ Hit(ip)
  /\ todo' = [todo EXCEPT ![t] = NothingTodo]
  /\ UNCHANGED now

\* Otherwise rateOK returns false and changes nothing: "too many requests".
Denied(ip) == ~Over(ip) /\ BucketFull(ip)

\* The guards restart: the maps are empty.
Restart == /\ rate' = [ip \in IP |-> NoBucket]
           /\ passed' = NoPasses
           /\ todo' = [t \in PyThread |-> NothingTodo]
           /\ UNCHANGED now

RateTick ==
  /\ now < MaxTime
  /\ now' = now + 1
  /\ UNCHANGED <<rate, passed, todo>>

RateNext ==
  \/ \E ip \in IP : Open(ip) \/ CountIn(ip)
  \/ \E t \in PyThread : PyWrite(t) \/ \E ip \in IP : PyDecide(t, ip)
  \/ Restart
  \/ RateTick

RateSpec == RateInit /\ [][RateNext]_rateVars
------------------------------------------------------------------------------
\* Requests of an address let through in the minute that ends at t.
MinuteStart(t) == IF t > Minute THEN t - Minute ELSE 0
LastMinute(ip, t) == passed[ip][t + 1] - passed[ip][MinuteStart(t)]

\* Every variable keeps its type, and no bucket holds more than its cap.
RateTypeOK ==
  /\ now \in Time
  /\ rate \in [IP -> Bucket \union {NoBucket}]
  /\ passed \in [IP -> [Instant -> Nat]]
  /\ todo \in [PyThread -> Todo]

\* rateOK counts in windows that open with a request, so a minute can straddle
\* two of them, but never with the request that opened the first: any minute lets
\* through less than twice the limit, and a limit of one is exact.  It takes the
\* mutex: rate_ok, which has none, keeps no such bound.
BurstBound ==
  \A ip \in IP \ PyIP, t \in Time : LastMinute(ip, t) < 2 * Cap

\* A client is refused only for its own requests of the last minute: an older
\* bucket, another client's, or one that a thread of rate_ok wrote back after
\* others had gone on, never counts against it.
JustDenial == \A ip \in IP : Denied(ip) => LastMinute(ip, now) >= RatePerMin
==============================================================================
