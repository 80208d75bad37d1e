----------------------------- MODULE ReverseProxy -----------------------------
(***************************************************************************)
(* proxyHTTP of guard-go/main.go: what becomes of a request that has       *)
(* passed all checks.  The guard and net/http/httputil take turns on its   *)
(* headers; the answer goes through the statusRecorder of                  *)
(* guard-go/dashboard.go, whose code withStats counts.  Every request      *)
(* makes a Transport of its own, whose connection stays idle afterwards.   *)
(*                                                                         *)
(* A header stands for its kind: "address" for all of stripReq that tell   *)
(* who or where the visitor is (X-Forwarded-For, X-Real-Ip, Forwarded,     *)
(* Referer, ...).  A header the guard sets is "X-Sealed-Name" or           *)
(* "X-Sealed-Visitor", and "own name" or "own visitor" when it is the      *)
(* visitor who sent one of that name.                                      *)
(***************************************************************************)
EXTENDS Naturals

CONSTANTS
  Thread,     \* goroutines that serve requests
  MaxReq,     \* bound on the requests of a behaviour
  PerHost     \* MaxIdleConnsPerHost

ASSUME ConstantsAssumption ==
  MaxReq \in Nat /\ PerHost \in Nat \ {0}

FromVisitor == {"address", "connection", "upgrade", "own name", "own visitor"}
Header == FromVisitor \union {"X-Sealed-Name", "X-Sealed-Visitor"}

VARIABLES
  forwardIP, \* SEAL_FORWARD_IP, which no step changes
  pc,       \* where each request is
  hdr,      \* its headers on the way to the backend
  informed, \* the requests that had an answer of 1xx before the answer
  rec,      \* statusRecorder.code
  shown,    \* history: the final status the visitor gets, 0 before
  idle,     \* connections to the backend that wait to be used again
  arrived   \* requests so far

answer == <<informed, rec, shown>>
vars == <<forwardIP, pc, hdr, answer, idle, arrived>>

Init == /\ forwardIP \in BOOLEAN
        /\ pc = [t \in Thread |-> "none"]
        /\ hdr = [t \in Thread |-> {}]
        /\ informed = {}
        /\ rec = [t \in Thread |-> 0]
        /\ shown = [t \in Thread |-> 0]
        /\ idle = 0
        /\ arrived = 0

Goto(t, l) == pc' = [pc EXCEPT ![t] = l]
Headers(t, h) == hdr' = [hdr EXCEPT ![t] = h]

Arrive(t) ==
  /\ pc[t] = "none" /\ Goto(t, "director")
  /\ arrived < MaxReq /\ arrived' = arrived + 1
  /\ \E h \in SUBSET FromVisitor : Headers(t, h)
  /\ UNCHANGED <<forwardIP, answer, idle>>
------------------------------------------------------------------------------
StripReq == {"address", "connection"}

\* Header.Set: a header of this name is replaced.
Set(h, own, sealed) == (h \ {own}) \union {sealed}

\* The guard tells the name of the link and perhaps the address, which it reads from the
\* visitor's own request, and strips; a header in neither list stays.
Director(t) ==
  /\ pc[t] = "director" /\ Goto(t, "hop")
  /\ LET named == Set(hdr[t], "own name", "X-Sealed-Name")
         told == IF forwardIP THEN Set(named, "own visitor", "X-Sealed-Visitor") ELSE named
     IN  Headers(t, told \ StripReq)
  /\ UNCHANGED <<forwardIP, answer, idle, arrived>>

\* httputil.ReverseProxy after the Director: the headers that Connection names go, and
\* Connection and Upgrade, but for an upgrade; the peer is appended to X-Forwarded-For.
HopByHop(t) ==
  /\ pc[t] = "hop" /\ Goto(t, "trip")
  /\ \E named \in SUBSET (IF "connection" \in hdr[t] THEN hdr[t] ELSE {}) :
       LET upgrade == {"connection", "upgrade"}
           again == IF upgrade \subseteq hdr[t] THEN upgrade ELSE {}
       IN  Headers(t, ((hdr[t] \ (named \union upgrade)) \union again) \union {"address"})
  /\ UNCHANGED <<forwardIP, answer, idle, arrived>>

\* Mutant of Strip: stripReq is applied in the Director alone.
StripNot(t) == UNCHANGED hdr

\* stripRoundTripper removes what was put back.
Strip(t) == Headers(t, hdr[t] \ StripReq)

\* RoundTrip dials: its Transport is new and has no idle connection.
RoundTrip(t) ==
  /\ pc[t] = "trip" /\ Goto(t, "sending")
  /\ Strip(t)
  /\ UNCHANGED <<forwardIP, answer, idle, arrived>>

\* The visitor's body is sent to its end.
Sent(t) ==
  /\ pc[t] = "sending" /\ Goto(t, "waiting")
  /\ UNCHANGED <<forwardIP, hdr, answer, idle, arrived>>
------------------------------------------------------------------------------
\* Mutant of WriteHeader: the recorder sees Write alone, which means 200.
WriteHeaderLoose(t, code) == rec' = [rec EXCEPT ![t] = IF code = 103 THEN @ ELSE 200]

\* statusRecorder keeps the first code it sees.
WriteHeader(t, code) == rec' = [rec EXCEPT ![t] = IF @ = 0 THEN code ELSE @]

\* The backend sends an answer of 1xx, which is passed on.
Inform(t) ==
  /\ pc[t] \in {"sending", "waiting"} /\ t \notin informed
  /\ informed' = informed \union {t}
  /\ WriteHeader(t, 103)
  /\ UNCHANGED <<forwardIP, pc, hdr, shown, idle, arrived>>

ErrorHandler(t) == shown' = [shown EXCEPT ![t] = 502] /\ WriteHeader(t, 502)

\* No connection, a body above MaxBody, no answer in 15 s, or the visitor left: the
\* connection is closed.
Fails(t) ==
  /\ pc[t] \in {"trip", "sending", "waiting"} /\ Goto(t, "count")
  /\ ErrorHandler(t)
  /\ UNCHANGED <<forwardIP, hdr, informed, idle, arrived>>

\* The backend answers, perhaps before it has read the body.
Answer(t) ==
  /\ pc[t] \in {"sending", "waiting"} /\ Goto(t, "body")
  /\ \E code \in {200, 302} : shown' = [shown EXCEPT ![t] = code] /\ WriteHeader(t, code)
  /\ UNCHANGED <<forwardIP, hdr, informed, idle, arrived>>

\* All is copied; the connection is kept unless backend or Transport close it.
BodyEnds(t) ==
  /\ pc[t] = "body" /\ Goto(t, "count")
  /\ idle' \in {idle, idle + 1}
  /\ UNCHANGED <<forwardIP, hdr, answer, arrived>>

\* The handler is over and nothing is left of the request.
Forget(t) ==
  /\ Goto(t, "none") /\ Headers(t, {})
  /\ informed' = informed \ {t}
  /\ rec' = [rec EXCEPT ![t] = 0]
  /\ shown' = [shown EXCEPT ![t] = 0]
  /\ UNCHANGED <<forwardIP, idle, arrived>>

\* Backend or visitor breaks off: http.ErrAbortHandler, which withStats never sees.
Aborts(t) == pc[t] = "body" /\ Forget(t)

\* withStats counts rec[t].
Count(t) == pc[t] = "count" /\ Forget(t)

\* Mutant of IdleEnds: no IdleConnTimeout.
IdleEndsNever == FALSE /\ UNCHANGED vars

\* 90 s are over, or the backend closes an idle connection.
IdleEnds == idle > 0 /\ idle' = idle - 1 /\ UNCHANGED <<forwardIP, pc, hdr, answer, arrived>>

\* What goes on whatever the visitor does: an upload and a stream last as long as the
\* visitor likes, all else has a timeout.
Running(t) == \/ Director(t) \/ HopByHop(t) \/ RoundTrip(t) \/ Count(t)
              \/ pc[t] = "waiting" /\ (Answer(t) \/ Fails(t))

Next == \/ \E t \in Thread :
             \/ Arrive(t) \/ Director(t) \/ HopByHop(t) \/ RoundTrip(t) \/ Sent(t)
             \/ Inform(t) \/ Fails(t) \/ Answer(t) \/ BodyEnds(t) \/ Aborts(t) \/ Count(t)
        \/ IdleEnds

Spec == Init /\ [][Next]_vars

FairSpec == Spec /\ WF_vars(IdleEnds) /\ \A t \in Thread : WF_vars(Running(t))
------------------------------------------------------------------------------
\* Every variable keeps its type, and withStats finds a code whenever it counts: a
\* missing one would pass for a 200.
TypeOK ==
  /\ forwardIP \in BOOLEAN
  /\ pc \in [Thread -> {"none", "director", "hop", "trip", "sending", "waiting", "body", "count"}]
  /\ hdr \in [Thread -> SUBSET Header]
  /\ informed \subseteq Thread
  /\ rec \in [Thread -> {0, 103, 200, 302, 502}]
  /\ shown \in [Thread -> {0, 200, 302, 502}]
  /\ idle \in Nat /\ arrived \in Nat
  /\ \A t \in Thread : pc[t] \in {"body", "count"} => rec[t] # 0

\* What the backend is told once the headers are on the wire: no address header that
\* stripReq lists, whether the visitor sent it or httputil put it back after the
\* Director; the name of the link by the guard alone; and the address by the guard if and
\* only if SEAL_FORWARD_IP is on, and then beside no claim of the visitor's.  (When it is
\* off, a visitor's own X-Sealed-Visitor does reach the backend.)
Discreet ==
  \A t \in Thread : pc[t] \in {"sending", "waiting", "body"} =>
    /\ "address" \notin hdr[t]
    /\ "X-Sealed-Name" \in hdr[t] /\ "own name" \notin hdr[t]
    /\ "X-Sealed-Visitor" \in hdr[t] <=> forwardIP
    /\ forwardIP => "own visitor" \notin hdr[t]

\* withStats counts what the visitor got: a success is always one, and, unless an
\* answer of 1xx went before, every answer is counted by its own code.
CountedRight ==
  \A t \in Thread : pc[t] = "count" =>
    /\ rec[t] = 200 => shown[t] = 200
    /\ t \notin informed => rec[t] = shown[t]

\* No request waits on the guard or the backend for ever, only on its own upload or
\* stream; and when requests stop coming, no idle connection is left.
NothingLeaks ==
  /\ \A t \in Thread : []<>(pc[t] \in {"none", "sending", "body"})
  /\ <>[](idle = 0)

\* guard-go/README.md:8: idle connections are kept in a pool, so many per host.  (The
\* code makes a pool per request.)
KeepAlive == idle <= PerHost
===============================================================================
