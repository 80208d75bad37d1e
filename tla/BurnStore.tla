------------------------------ MODULE BurnStore ------------------------------
(***************************************************************************)
(* Sealed links of guard-go/main.go: concurrent HTTP requests on           *)
(* /t/<name>/ (handleSealed) and TCP handshakes (verifyTCPLine) that burn  *)
(* their key in the JSON file USED_DB under the mutex muUsed               *)
(* (tryBurnSealed), then reach the backend.  The process may be killed and *)
(* restarted at any step; the files survive, the mutex and the requests    *)
(* do not.                                                                 *)
(*                                                                         *)
(* A file is modelled by what readJSONSet makes of it: a set of keys,      *)
(* where a missing, unreadable or torn file reads as the empty set.        *)
(***************************************************************************)
EXTENDS Naturals, FiniteSets

CONSTANTS
  Thread,      \* request goroutines, HTTP handlers and TCP connections alike
  Cred,        \* (name, exp, seal) triples a visitor can present
  Minted,      \* those whose seal was computed with SEAL_SECRET
  TcpSealed,   \* minted ones in the "tcp:name:exp" form, no good on HTTP
  Exp,         \* expiry time of each triple
  MaxTime,     \* bound on the clock
  MaxPasses,   \* a key let through this often is presented no more (a bound)
  SingleUse,   \* SEAL_SINGLE_USE = 1
  Fault,       \* file operations that may fail silently: see FaultKind
  NoThread, NoKey   \* distinguished values: free mutex, no request

\* "read": USED_DB cannot be read.  "open": USED_DB.tmp cannot be opened.
\* "short": it is truncated, then the write fails.  "rename": os.Rename fails.
FaultKind == {"read", "open", "short", "rename"}

\* The burn key: "name:exp:seal[:16]" on HTTP, the same with a "tcp:" prefix on
\* TCP.  16 hex digits of an HMAC are taken to identify the seal.
Key == {"http", "tcp"} \X Cred

ASSUME ConstantsAssumption ==
  /\ TcpSealed \subseteq Minted
  /\ Minted \subseteq Cred
  /\ Exp \in [Cred -> Nat]
  /\ MaxTime \in Nat
  /\ MaxPasses \in Nat
  /\ SingleUse \in BOOLEAN
  /\ Fault \subseteq FaultKind
  /\ NoThread \notin Thread
  /\ NoKey \notin Key

VARIABLES
  now,       \* time.Now().Unix()
  used,      \* USED_DB, as readJSONSet reads it
  tmp,       \* USED_DB.tmp: {} when there is no such file, else {what it reads as}
  muUsed,    \* holder of the mutex, or NoThread
  pc,        \* where each goroutine is
  req,       \* the key of the request it handles
  seen,      \* the map m of tryBurnSealed: what was read, plus the key
  passes,    \* history: how often each key was let through to the backend
  crashed    \* history: the process has been killed at least once

vars == <<now, used, tmp, muUsed, pc, req, seen, passes, crashed>>

InSection == {"read", "write", "rename"}     \* inside tryBurnSealed, lock held

Init == /\ now = 0
        /\ used = {}
        /\ tmp = {}
        /\ muUsed = NoThread
        /\ pc = [t \in Thread |-> "idle"]
        /\ req = [t \in Thread |-> NoKey]
        /\ seen = [t \in Thread |-> {}]
        /\ passes = [k \in Key |-> 0]
        /\ crashed = FALSE

\* A visitor presents a triple, on HTTP or as a TCP handshake line.
Arrive(t, k) ==
  /\ pc[t] = "idle"
  /\ passes[k] < MaxPasses
  /\ pc' = [pc EXCEPT ![t] = "verify"]
  /\ req' = [req EXCEPT ![t] = k]
  /\ UNCHANGED <<now, used, tmp, muUsed, seen, passes, crashed>>

\* sealMatch on HTTP; on TCP the TCP form is accepted too.
Accepted(k) == k[2] \in IF k[1] = "http" THEN Minted \ TcpSealed ELSE Minted

\* The answer is written and the goroutine is done with the request.
Reply(t) == /\ pc' = [pc EXCEPT ![t] = "idle"]
            /\ req' = [req EXCEPT ![t] = NoKey]
            /\ seen' = [seen EXCEPT ![t] = {}]

\* Expiry, then seal: 403 when either fails.
Refuse(t) ==
  /\ pc[t] = "verify"
  /\ now > Exp[req[t][2]] \/ ~Accepted(req[t])
  /\ Reply(t)
  /\ UNCHANGED <<now, used, tmp, muUsed, passes, crashed>>

\* Both pass: on to tryBurnSealed, or straight on when links are reusable.
Verify(t) ==
  /\ pc[t] = "verify"
  /\ now <= Exp[req[t][2]]
  /\ Accepted(req[t])
  /\ pc' = [pc EXCEPT ![t] = IF SingleUse THEN "lock" ELSE "proxy"]
  /\ UNCHANGED <<now, used, tmp, muUsed, req, seen, passes, crashed>>

\* Mutant of Lock: tryBurnSealed without muUsed.
LockAnyway(t) ==
  /\ pc[t] = "lock"
  /\ muUsed' = t
  /\ pc' = [pc EXCEPT ![t] = "read"]
  /\ UNCHANGED <<now, used, tmp, req, seen, passes, crashed>>

Lock(t) ==
  /\ pc[t] = "lock"
  /\ muUsed = NoThread
  /\ muUsed' = t
  /\ pc' = [pc EXCEPT ![t] = "read"]
  /\ UNCHANGED <<now, used, tmp, req, seen, passes, crashed>>

\* readJSONSet: any error yields an empty map.
ReadResults == {used} \union (IF "read" \in Fault THEN {{}} ELSE {})

\* Mutant of ReadBurned: the early return forgets to unlock.
ReadBurnedLocked(t) ==
  /\ pc[t] = "read"
  /\ \E m \in ReadResults : req[t] \in m
  /\ Reply(t)
  /\ UNCHANGED <<now, used, tmp, muUsed, passes, crashed>>

\* The key is already in the map: "link already used", and the mutex is freed.
ReadBurned(t) ==
  /\ pc[t] = "read"
  /\ \E m \in ReadResults : req[t] \in m
  /\ muUsed' = NoThread
  /\ Reply(t)
  /\ UNCHANGED <<now, used, tmp, passes, crashed>>

\* Mutant of ReadFresh: the new list replaces the old one.
ReadFreshAlone(t) ==
  /\ pc[t] = "read"
  /\ \E m \in ReadResults : req[t] \notin m
  /\ seen' = [seen EXCEPT ![t] = {req[t]}]
  /\ pc' = [pc EXCEPT ![t] = "write"]
  /\ UNCHANGED <<now, used, tmp, muUsed, req, passes, crashed>>

\* The key is fresh: it is added to the map.
ReadFresh(t) ==
  /\ pc[t] = "read"
  /\ \E m \in ReadResults :
       /\ req[t] \notin m
       /\ seen' = [seen EXCEPT ![t] = m \union {req[t]}]
  /\ pc' = [pc EXCEPT ![t] = "write"]
  /\ UNCHANGED <<now, used, tmp, muUsed, req, passes, crashed>>

\* os.WriteFile on USED_DB.tmp, its error ignored.
WriteTmp(t) ==
  /\ pc[t] = "write"
  /\ \/ tmp' = {seen[t]}
     \/ "open" \in Fault /\ UNCHANGED tmp
     \/ "short" \in Fault /\ tmp' = {{}}
  /\ pc' = [pc EXCEPT ![t] = "rename"]
  /\ UNCHANGED <<now, used, muUsed, req, seen, passes, crashed>>

\* Mutant of Rename: the expiry is checked again once the key is burnt.
RenameRecheck(t) ==
  /\ pc[t] = "rename"
  /\ used' \in tmp
  /\ tmp' = {}
  /\ muUsed' = NoThread
  /\ IF now > Exp[req[t][2]]
       THEN Reply(t)
       ELSE pc' = [pc EXCEPT ![t] = "proxy"] /\ UNCHANGED <<req, seen>>
  /\ UNCHANGED <<now, passes, crashed>>

\* os.Rename over USED_DB, its error ignored; tryBurnSealed unlocks and
\* returns true.
Rename(t) ==
  /\ pc[t] = "rename"
  /\ \/ used' \in tmp /\ tmp' = {}
     \/ (tmp = {} \/ "rename" \in Fault) /\ UNCHANGED <<used, tmp>>
  /\ muUsed' = NoThread
  /\ pc' = [pc EXCEPT ![t] = "proxy"]
  /\ UNCHANGED <<now, req, seen, passes, crashed>>

\* Mutant of Proxy: the counter goes the wrong way.
ProxyUncounted(t) ==
  /\ pc[t] = "proxy"
  /\ passes' = [passes EXCEPT ![req[t]] = @ - 1]
  /\ Reply(t)
  /\ UNCHANGED <<now, used, tmp, muUsed, crashed>>

\* The visitor is let through: proxyHTTP, or the dial of handleTCPConn.  Whether
\* the backend answers or not ("502 upstream fail"), the key stays burnt.
Proxy(t) ==
  /\ pc[t] = "proxy"
  /\ passes' = [passes EXCEPT ![req[t]] = @ + 1]
  /\ Reply(t)
  /\ UNCHANGED <<now, used, tmp, muUsed, crashed>>

\* Mutant of CrashRestart: the used links are kept in memory only.
CrashForget ==
  /\ muUsed' = NoThread
  /\ pc' = [t \in Thread |-> "idle"]
  /\ req' = [t \in Thread |-> NoKey]
  /\ seen' = [t \in Thread |-> {}]
  /\ used' = {}
  /\ crashed' = TRUE
  /\ UNCHANGED <<now, tmp, passes>>

\* The process is killed and started again.  Killed inside os.WriteFile, it
\* leaves a truncated .tmp file.
CrashRestart ==
  /\ muUsed' = NoThread
  /\ pc' = [t \in Thread |-> "idle"]
  /\ req' = [t \in Thread |-> NoKey]
  /\ seen' = [t \in Thread |-> {}]
  /\ \/ UNCHANGED tmp
     \/ (\E t \in Thread : pc[t] = "write") /\ tmp' = {{}}
  /\ crashed' = TRUE
  /\ UNCHANGED <<now, used, passes>>

Tick == /\ now < MaxTime
        /\ now' = now + 1
        /\ UNCHANGED <<used, tmp, muUsed, pc, req, seen, passes, crashed>>

Next ==
  \/ \E t \in Thread, k \in Key : Arrive(t, k)
  \/ \E t \in Thread :
       \/ Refuse(t) \/ Verify(t) \/ Lock(t)
       \/ ReadBurned(t) \/ ReadFresh(t)
       \/ WriteTmp(t) \/ Rename(t) \/ Proxy(t)
  \/ CrashRestart
  \/ Tick

Spec == Init /\ [][Next]_vars

\* A goroutine that can run is run, and every file and backend operation ends:
\* the transport and the dial have timeouts.  sync.Mutex hands the lock to a
\* waiter that has starved for 1 ms, so whoever waits gets it.
Running(t) == \/ Refuse(t) \/ Verify(t) \/ ReadBurned(t) \/ ReadFresh(t)
              \/ WriteTmp(t) \/ Rename(t) \/ Proxy(t)

Fairness == \A t \in Thread : WF_vars(Running(t)) /\ SF_vars(Lock(t))

FairSpec == Spec /\ Fairness
------------------------------------------------------------------------------
\* Every variable keeps its type.
TypeOK ==
  /\ now \in Nat
  /\ used \subseteq Key
  /\ tmp \subseteq SUBSET Key
  /\ muUsed \in Thread \union {NoThread}
  /\ pc \in [Thread -> {"idle", "verify", "lock", "proxy"} \union InSection]
  /\ req \in [Thread -> Key \union {NoKey}]
  /\ seen \in [Thread -> SUBSET Key]
  /\ passes \in [Key -> Nat]
  /\ crashed \in BOOLEAN

\* handleSealed and verifyTCPLine: on each channel a link lets one visitor
\* through, however many present it at once and however often the guard is
\* killed and restarted.
AtMostOnce == \A k \in Key : passes[k] <= 1

\* tryBurnSealed returns true only for a burn that is on disk: a visitor on the
\* way to the backend, or already let through, has its key in USED_DB.
NoLostBurn ==
  /\ \A t \in Thread : pc[t] = "proxy" => req[t] \in used
  /\ \A k \in Key : passes[k] > 0 => k \in used

\* A link is never spent in vain: unless the guard was killed, the key of a
\* burnt link belongs to a visitor who is let through or about to be.  Losing a
\* race costs a visitor a 403, it cannot kill the link for everybody.
NoWastedBurn ==
  \A k \in used : \/ passes[k] > 0
                  \/ \E t \in Thread : pc[t] = "proxy" /\ req[t] = k
                  \/ crashed

\* Every request is answered, or dies with the process: nobody waits for
\* muUsed for ever.
Answered == \A t \in Thread : pc[t] # "idle" ~> pc[t] = "idle"

\* The file, the mutex and the goroutines together implement a single-use store.
Store == INSTANCE OneShot WITH spent <- used
StoreSpec == Store!Spec
==============================================================================
