--------------------------------- MODULE Guard ---------------------------------
(***************************************************************************)
(* The Go guard as a whole: httpHandler and handleTCPConn of               *)
(* guard-go/main.go route every request past rate limit, health check,     *)
(* admin API, mode, links and rooms, while an admin changes the mode under *)
(* them; withStats and tcpStats of guard-go/dashboard.go count what comes  *)
(* of it.                                                                  *)
(*                                                                         *)
(* The parts are taken by what their own modules show of them: burning a   *)
(* link is the step Burn of OneShot (BurnStore implements it), and rateOK  *)
(* (RateLimit), tryIncRoom (RoomQuota) and the mode a restart comes up     *)
(* with (ModeToggle) may turn out either way.  Links are single-use.       *)
(***************************************************************************)
EXTENDS Naturals

CONSTANTS
  Thread,     \* goroutines: HTTP requests and TCP connections
  Link,       \* minted links that have not expired
  MaxReq      \* bound on the requests of a behaviour

ASSUME ConstantsAssumption == MaxReq \in Nat

Mode == {"open", "sealed"}
Token == {"good", "bad"}
Prefix == {"t", "r", "admin", "open"}

\* What can come in: a link or a room ticket on either channel, an admin request
\* (a toggle names its mode, every other one is "status"), a health check or
\* anything else.  path is how httpHandler routes it, with the slashes trimmed; raw
\* is the prefix kindOf sees, "open" when it is none of "/t/", "/r/" and "/admin".
\* So //t/<name>/ is a link that counts as open, and /t/ or /adminx no route at all.
Request ==
  [chan : {"http"}, path : {"t"}, raw : {"t", "open"}, cred : Link \union {"bad"}] \union
  [chan : {"http"}, path : {"r"}, raw : {"r", "open"}, cred : Token] \union
  [chan : {"http"}, path : {"admin"}, raw : {"admin"},
   cred : Mode \union {"status", "bad"}] \union
  [chan : {"http"}, path : {"healthz"}, raw : {"open"}, cred : {"bad"}] \union
  [chan : {"http"}, path : {"other"}, raw : Prefix, cred : {"bad"}] \union
  [chan : {"tcp"}, path : {"t"}, raw : {"open"}, cred : Link \union {"bad"}] \union
  [chan : {"tcp"}, path : {"r"}, raw : {"open"}, cred : Token]

\* Burn keys of the two channels differ.
Key == {"http", "tcp"} \X Link

Counter == {"total", "sealOK", "sealNO", "roomOK", "roomNO", "openOK",
            "tcpOK", "tcpNO"}

VARIABLES
  mode,      \* cfg.SealMode
  used,      \* USED_DB
  pc,        \* where each goroutine is
  req,       \* what it handles
  via,       \* how it got past the checks: "open", "sealed", or "none" so far
  code,      \* the status of its answer
  stats,     \* the counters
  arrived,   \* requests so far
  openSeen,  \* history: the mode has been open since the request came in
  passes,    \* history: visitors let through by each key
  visits     \* history: answers of 200 since the start, by prefix of the path

vars == <<mode, used, pc, req, via, code, stats, arrived, openSeen, passes, visits>>

Links == INSTANCE OneShot WITH spent <- used

NoRequest == [chan |-> "http", path |-> "other", raw |-> "open", cred |-> "bad"]
NoCount == [c \in Counter |-> 0]
NoVisit == [p \in Prefix |-> 0]

Init == /\ mode = "sealed"
        /\ used = {}
        /\ pc = [t \in Thread |-> "idle"]
        /\ req = [t \in Thread |-> NoRequest]
        /\ via = [t \in Thread |-> "none"]
        /\ code = [t \in Thread |-> 0]
        /\ stats = NoCount
        /\ arrived = 0
        /\ openSeen = [t \in Thread |-> FALSE]
        /\ passes = [k \in Key |-> 0]
        /\ visits = NoVisit

Goto(t, l) == pc' = [pc EXCEPT ![t] = l]
Bump(c) == stats' = [stats EXCEPT ![c] = @ + 1]

\* The answer of an HTTP request is set; withStats is next.
Answer(t, n) == code' = [code EXCEPT ![t] = n] /\ Goto(t, "total")

\* A goroutine has done its work and leaves nothing behind.
Finish(t) == /\ Goto(t, "idle")
             /\ req' = [req EXCEPT ![t] = NoRequest]
             /\ via' = [via EXCEPT ![t] = "none"]
             /\ code' = [code EXCEPT ![t] = 0]
             /\ openSeen' = [openSeen EXCEPT ![t] = FALSE]

\* TCP goes straight to the mode, HTTP through the rate limit.
Arrive(t, q) ==
  /\ pc[t] = "idle"
  /\ arrived < MaxReq
  /\ arrived' = arrived + 1
  /\ req' = [req EXCEPT ![t] = q]
  /\ openSeen' = [openSeen EXCEPT ![t] = mode = "open"]
  /\ Goto(t, IF q.chan = "tcp" THEN "mode" ELSE "limit")
  /\ UNCHANGED <<mode, used, via, code, stats, passes, visits>>

\* rateOK refuses it: 429.
RateLimited(t) ==
  /\ pc[t] = "limit"
  /\ Answer(t, 429)
  /\ UNCHANGED <<mode, used, req, via, stats, arrived, openSeen, passes, visits>>

\* rateOK lets it in, and the path is not /healthz or /admin.
RateOK(t) ==
  /\ pc[t] = "limit"
  /\ req[t].path \in {"t", "r", "other"}
  /\ Goto(t, "mode")
  /\ UNCHANGED <<mode, used, req, via, code, stats, arrived, openSeen, passes, visits>>

\* An answer of 200.
Succeed(t) == /\ Answer(t, 200)
              /\ visits' = [visits EXCEPT ![req[t].raw] = @ + 1]

Health(t) ==
  /\ pc[t] = "limit"
  /\ req[t].path = "healthz"
  /\ Succeed(t)
  /\ UNCHANGED <<mode, used, req, via, stats, arrived, openSeen, passes>>

\* An admin request that changes nothing: the other endpoints, a toggle to no mode
\* there is (a 400, which is counted like a 200), or no token: 401.
Admin(t) ==
  /\ pc[t] = "limit"
  /\ req[t].path = "admin"
  /\ \/ req[t].cred = "status" /\ Succeed(t)
     \/ req[t].cred = "bad" /\ Answer(t, 401) /\ UNCHANGED visits
  /\ UNCHANGED <<mode, used, req, via, stats, arrived, openSeen, passes>>

SetMode(m) == /\ mode' = m
              /\ openSeen' = [t \in Thread |-> pc[t] # "idle" /\ (openSeen[t] \/ m = "open")]

\* Mutant of Toggle: setSealMode takes any word.
ToggleAny(t) ==
  /\ pc[t] = "limit"
  /\ req[t].path = "admin"
  /\ req[t].cred # "bad"
  /\ SetMode(req[t].cred)
  /\ Succeed(t)
  /\ UNCHANGED <<used, req, via, stats, arrived, passes>>

\* POST /admin/api/toggle with the token.
Toggle(t) ==
  /\ pc[t] = "limit"
  /\ req[t].path = "admin"
  /\ req[t].cred \in Mode
  /\ SetMode(req[t].cred)
  /\ Succeed(t)
  /\ UNCHANGED <<used, req, via, stats, arrived, passes>>

\* isOpen, read once: open mode skips all checks.
ReadMode(t) ==
  /\ pc[t] = "mode"
  /\ via' = [via EXCEPT ![t] = mode]
  /\ Goto(t, IF mode = "open" THEN "proxy" ELSE "check")
  /\ UNCHANGED <<mode, used, req, code, stats, arrived, openSeen, passes, visits>>

\* A refusal in sealed mode: tcpStats on TCP, an answer to be counted on HTTP.
Refuse(t, n) ==
  IF req[t].chan = "tcp"
    THEN Bump("tcpNO") /\ Finish(t)
    ELSE Answer(t, n) /\ UNCHANGED <<stats, req, via, openSeen>>

\* Accepted in sealed mode: on TCP it is counted before the backend is dialled.
Accept(t) ==
  /\ IF req[t].chan = "tcp" THEN Bump("tcpOK") ELSE UNCHANGED stats
  /\ Goto(t, "proxy")
  /\ UNCHANGED <<req, via, code, openSeen>>

\* Mutant of CheckRoom: the ticket is not looked at.
CheckRoomAny(t) ==
  /\ pc[t] = "check"
  /\ req[t].path = "r"
  /\ \/ Accept(t)
     \/ req[t].chan = "http" /\ Refuse(t, 429)
  /\ UNCHANGED <<mode, used, arrived, passes, visits>>

\* handleRoom and the room form of verifyTCPLine: a bad ticket is refused, a
\* good one too when the round is full, which TCP does not ask.
CheckRoom(t) ==
  /\ pc[t] = "check"
  /\ req[t].path = "r"
  /\ \/ req[t].cred = "good" /\ Accept(t)
     \/ req[t].cred = "good" /\ req[t].chan = "http" /\ Refuse(t, 429)
     \/ req[t].cred = "bad" /\ Refuse(t, 403)
  /\ UNCHANGED <<mode, used, arrived, passes, visits>>

KeyOf(t) == <<req[t].chan, req[t].cred>>

\* Mutant of BurnLink: a used link is let through again.
BurnLinkAgain(t) ==
  /\ pc[t] = "check"
  /\ req[t].path = "t"
  /\ req[t].cred \in Link
  /\ used' = used \union {KeyOf(t)}
  /\ Accept(t)
  /\ UNCHANGED <<mode, arrived, passes, visits>>

\* handleSealed and the link form of verifyTCPLine, when the link may pass.
BurnLink(t) ==
  /\ pc[t] = "check"
  /\ req[t].path = "t"
  /\ req[t].cred \in Link
  /\ Links!Burn(KeyOf(t))
  /\ Accept(t)
  /\ UNCHANGED <<mode, arrived, visits>>

\* The same when it may not: a bad seal, or a link already used.
RefuseLink(t) ==
  /\ pc[t] = "check"
  /\ req[t].path = "t"
  /\ req[t].cred \in Link => KeyOf(t) \in used
  /\ Refuse(t, 403)
  /\ UNCHANGED <<mode, used, arrived, passes, visits>>

\* Neither /t/ nor /r/: 404.
NoRoute(t) ==
  /\ pc[t] = "check"
  /\ req[t].path = "other"
  /\ Refuse(t, 404)
  /\ UNCHANGED <<mode, used, arrived, passes, visits>>

\* No handshake line comes within 5 s: the connection is closed, uncounted.
HandshakeFails(t) ==
  /\ pc[t] = "check"
  /\ req[t].chan = "tcp"
  /\ Finish(t)
  /\ UNCHANGED <<mode, used, stats, arrived, passes, visits>>

\* History: in sealed mode a visit with a link counts for its key.
CountPass(t) ==
  IF via[t] = "sealed" /\ req[t].path = "t"
    THEN passes' = [passes EXCEPT ![KeyOf(t)] = @ + 1]
    ELSE UNCHANGED passes

\* proxyHTTP: the backend answers 200, or anything else, for which 502 stands.
ProxyHTTP(t) ==
  /\ pc[t] = "proxy"
  /\ req[t].chan = "http"
  /\ CountPass(t)
  /\ \/ Succeed(t)
     \/ Answer(t, 502) /\ UNCHANGED visits
  /\ UNCHANGED <<mode, used, req, via, stats, arrived, openSeen>>

\* The backend breaks off its answer: ReverseProxy panics with ErrAbortHandler,
\* and what follows the handler in withStats is skipped.
ProxyAborts(t) ==
  /\ pc[t] = "proxy"
  /\ req[t].chan = "http"
  /\ CountPass(t)
  /\ Finish(t)
  /\ UNCHANGED <<mode, used, stats, arrived, visits>>

\* The dial of handleTCPConn; in open mode its result is what is counted.
Dial(t) ==
  /\ pc[t] = "proxy"
  /\ req[t].chan = "tcp"
  /\ CountPass(t)
  /\ IF via[t] = "open" THEN Bump("tcpOK") \/ Bump("tcpNO") ELSE UNCHANGED stats
  /\ Finish(t)
  /\ UNCHANGED <<mode, used, arrived, visits>>

\* withStats: first the total,
CountTotal(t) ==
  /\ pc[t] = "total"
  /\ Bump("total")
  /\ Goto(t, "kind")
  /\ UNCHANGED <<mode, used, req, via, code, arrived, openSeen, passes, visits>>

\* Mutant of Kind: whatever is not a 403 is a success.
KindLoose(p, n) ==
  CASE p = "t" -> {IF n # 403 THEN "sealOK" ELSE "sealNO"}
    [] p = "r" -> {IF n # 403 THEN "roomOK" ELSE "roomNO"}
    [] p = "admin" -> {}
    [] OTHER -> {c \in {"openOK"} : n = 200}

\* kindOf: the counter of an answer to a path with prefix p, if it has one.
Kind(p, n) ==
  CASE p = "t" -> {IF n = 200 THEN "sealOK" ELSE "sealNO"}
    [] p = "r" -> {IF n = 200 THEN "roomOK" ELSE "roomNO"}
    [] p = "admin" -> {}
    [] OTHER -> {c \in {"openOK"} : n = 200}

\* then the counter of its kind.
CountKind(t) ==
  /\ pc[t] = "kind"
  /\ stats' = [c \in Counter |->
                 IF c \in Kind(req[t].raw, code[t]) THEN stats[c] + 1 ELSE stats[c]]
  /\ Finish(t)
  /\ UNCHANGED <<mode, used, arrived, passes, visits>>

\* The process is killed and started again: USED_DB stays.
Restart ==
  /\ mode' \in Mode
  /\ pc' = [t \in Thread |-> "idle"]
  /\ req' = [t \in Thread |-> NoRequest]
  /\ via' = [t \in Thread |-> "none"]
  /\ code' = [t \in Thread |-> 0]
  /\ stats' = NoCount
  /\ openSeen' = [t \in Thread |-> FALSE]
  /\ visits' = NoVisit
  /\ UNCHANGED <<used, arrived, passes>>

Next ==
  \/ \E t \in Thread :
       \/ \E q \in Request : Arrive(t, q)
       \/ RateLimited(t) \/ RateOK(t) \/ Health(t) \/ Admin(t) \/ Toggle(t) \/ ReadMode(t)
       \/ CheckRoom(t) \/ BurnLink(t) \/ RefuseLink(t) \/ NoRoute(t) \/ HandshakeFails(t)
       \/ ProxyHTTP(t) \/ ProxyAborts(t) \/ Dial(t)
       \/ CountTotal(t) \/ CountKind(t)
  \/ Restart

Spec == Init /\ [][Next]_vars
------------------------------------------------------------------------------
\* Every variable keeps its type.
TypeOK ==
  /\ mode \in Mode
  /\ used \subseteq Key
  /\ pc \in [Thread -> {"idle", "limit", "mode", "check", "proxy", "total", "kind"}]
  /\ req \in [Thread -> Request]
  /\ via \in [Thread -> Mode \union {"none"}]
  /\ code \in [Thread -> {0, 200, 401, 403, 404, 429, 502}]
  /\ stats \in [Counter -> Nat]
  /\ arrived \in Nat
  /\ openSeen \in [Thread -> BOOLEAN]
  /\ passes \in [Key -> Nat]
  /\ visits \in [Prefix -> Nat]

\* A goroutine that holds what sealed mode asks for: a ticket, or a burnt link.
Entitled(t) ==
  \/ req[t].path = "r" /\ req[t].cred = "good"
  \/ req[t].path = "t" /\ req[t].cred \in Link /\ KeyOf(t) \in used

\* httpHandler and handleTCPConn: nobody is on the way to the backend without a
\* ticket or a link burnt for it, unless the mode was open at some time since
\* the request came in.  So once a toggle has sealed the guard, requests that
\* come after it are checked, whatever was under way.
NoBypass ==
  \A t \in Thread : pc[t] = "proxy" => openSeen[t] \/ Entitled(t)

\* Links stay single-use on either channel, whatever mode changes and restarts come
\* between their visits.
LinksSpec == Links!Spec

\* The dashboard's counters: the kinds never add up to more than the total, and
\* seal-ok, room-ok and open-ok are no more than the answers of 200 to paths that
\* begin with /t/, with /r/ and with none of /t/, /r/ and /admin.  That is not who
\* came in: health checks count as open in sealed mode too, and so does a link
\* or a room asked for as //t/<name>/.
CountersHonest ==
  /\ stats.sealOK + stats.sealNO + stats.roomOK + stats.roomNO + stats.openOK
       <= stats.total
  /\ stats.sealOK <= visits.t
  /\ stats.roomOK <= visits.r
  /\ stats.openOK <= visits.open
================================================================================
