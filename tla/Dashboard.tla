------------------------------- MODULE Dashboard -------------------------------
(***************************************************************************)
(* What guard-go/dashboard.go keeps and shows: withStats counts every      *)
(* request in atomic counters and then logs it in a ring under muLogs; the *)
(* status API loads mode and counters one by one while requests go on; and *)
(* the page asks every 5 s, has several questions under way at once, and   *)
(* shows each answer as it comes.                                          *)
(*                                                                         *)
(* The counters are two, "ok" and "deny", beside total.  The page's own    *)
(* questions are requests of no counted kind and are left out; in the code *)
(* they add to total as others of that sort do here.                       *)
(*                                                                         *)
(* Names that every component has begin with Dash or dash: OperatorProofs  *)
(* extends this module and FrpUpdate.                                      *)
(***************************************************************************)
EXTENDS Naturals, Sequences, FiniteSets

CONSTANTS
  Thread,     \* goroutines that serve requests
  Poll,       \* questions of the page that can be under way at once
  LogCap,     \* entries of the request log: 200
  MaxReq,     \* bound on the requests of a behaviour
  MaxToggle   \* bound on its toggles

ASSUME DashAssumption ==
  LogCap \in Nat \ {0} /\ MaxReq \in Nat /\ MaxToggle \in Nat

Mode == {"open", "sealed"}
Kind == {"ok", "deny"}

\* What a request is to withStats: of one of the two kinds, of neither ("admin"), or of neither
\* and a path of skipLog ("skip").
Outcome == Kind \union {"admin", "skip"}

VARIABLES
  mode,     \* cfg.SealMode
  toggles,  \* toggles so far
  total,    \* stats.total
  kinds,    \* the other counters
  recent,   \* the request log
  pushed,   \* history: all that was ever logged
  served,   \* requests so far
  step,     \* the step of withStats each goroutine is at
  entry,    \* what it counts and logs: a log entry is its kind
  poll,     \* the questions under way: step and what has been loaded
  page      \* what the page shows

requests == <<total, kinds, recent, pushed, served, step, entry>>
dashVars == <<mode, toggles, requests, poll, page>>

Blank == [mode |-> "sealed", total |-> 0, ok |-> 0, deny |-> 0]

\* What is kept of an answer on the page; it shows the total besides.
Shown(d) == [mode |-> d.mode, ok |-> d.ok, deny |-> d.deny]
NoPoll == [at |-> "none", data |-> Blank]

DashInit ==
  /\ mode \in Mode
  /\ toggles = 0
  /\ total = 0 /\ kinds = [k \in Kind |-> 0]
  /\ recent = <<>> /\ pushed = <<>>
  /\ served = 0
  /\ step = [t \in Thread |-> "handler"]
  /\ entry = [t \in Thread |-> "skip"]
  /\ poll = [p \in Poll |-> NoPoll]
  /\ page = Shown(Blank)

Goto(t, l) == step' = [step EXCEPT ![t] = l]
Done(t) == Goto(t, "handler") /\ entry' = [entry EXCEPT ![t] = "skip"]
------------------------------------------------------------------------------
\* The handler has returned.
Served(t) ==
  /\ step[t] = "handler" /\ Goto(t, "total")
  /\ served < MaxReq /\ served' = served + 1
  /\ \E k \in Outcome : entry' = [entry EXCEPT ![t] = k]
  /\ UNCHANGED <<mode, toggles, total, kinds, recent, pushed, poll, page>>

CountTotal(t) ==
  /\ step[t] = "total" /\ Goto(t, "kind")
  /\ total' = total + 1
  /\ UNCHANGED <<mode, toggles, kinds, recent, pushed, served, entry, poll, page>>

\* What is of no counted kind is not counted again; what is in skipLog not logged.
CountKind(t) ==
  /\ step[t] = "kind"
  /\ IF entry[t] = "skip" THEN Done(t) ELSE Goto(t, "log") /\ UNCHANGED entry
  /\ kinds' = [k \in Kind |-> kinds[k] + IF entry[t] = k THEN 1 ELSE 0]
  /\ UNCHANGED <<mode, toggles, total, recent, pushed, served, poll, page>>

\* Mutant of Kept: a full log keeps what it has.
KeptOldest(log) == SubSeq(log, 1, IF Len(log) > LogCap THEN LogCap ELSE Len(log))

\* The log is cut to its last 200 entries.
Kept(log) == IF Len(log) > LogCap THEN SubSeq(log, Len(log) - LogCap + 1, Len(log)) ELSE log

PushLog(t) ==
  /\ step[t] = "log" /\ Done(t)
  /\ recent' = Kept(Append(recent, entry[t]))
  /\ pushed' = Append(pushed, entry[t])
  /\ UNCHANGED <<mode, toggles, total, kinds, served, poll, page>>

\* setSealMode, from this page or another.
Toggle ==
  /\ toggles < MaxToggle /\ toggles' = toggles + 1
  /\ mode' \in Mode
  /\ UNCHANGED <<requests, poll, page>>
------------------------------------------------------------------------------
\* Mutant of Refresh: the page asks after loading and never again.
RefreshOnce(p) ==
  /\ poll[p].at = "none" /\ page = Shown(Blank)
  /\ poll' = [poll EXCEPT ![p] = [at |-> "mode", data |-> Blank]]
  /\ UNCHANGED <<mode, toggles, requests, page>>

\* setInterval(refresh), or refresh after a toggle; earlier questions may be open.
Refresh(p) ==
  /\ poll[p].at = "none"
  /\ poll' = [poll EXCEPT ![p] = [at |-> "mode", data |-> Blank]]
  /\ UNCHANGED <<mode, toggles, requests, page>>

\* One load of the status handler: the answer so far is d, the next step is at l.
Load(p, at, d, l) ==
  /\ poll[p].at = at
  /\ poll' = [poll EXCEPT ![p] = [at |-> l, data |-> d]]
  /\ UNCHANGED <<mode, toggles, requests, page>>

\* Mutant of Status: seal_deny is read from the wrong counter.
StatusTwice(p) ==
  LET d == poll[p].data
  IN  \/ Load(p, "mode", [d EXCEPT !.mode = mode], "total")
      \/ Load(p, "total", [d EXCEPT !.total = total], "ok")
      \/ Load(p, "ok", [d EXCEPT !.ok = kinds["ok"]], "deny")
      \/ Load(p, "deny", [d EXCEPT !.deny = kinds["ok"]], "answer")

\* The mode comes first, then port checks of up to 2 s each, then total, then the counters.
Status(p) ==
  LET d == poll[p].data
  IN  \/ Load(p, "mode", [d EXCEPT !.mode = mode], "total")
      \/ Load(p, "total", [d EXCEPT !.total = total], "ok")
      \/ Load(p, "ok", [d EXCEPT !.ok = kinds["ok"]], "deny")
      \/ Load(p, "deny", [d EXCEPT !.deny = kinds["deny"]], "answer")

\* The page shows the answer, in whatever order answers come.
Show(p) ==
  /\ poll[p].at = "answer"
  /\ page' = Shown(poll[p].data)
  /\ poll' = [poll EXCEPT ![p] = NoPoll]
  /\ UNCHANGED <<mode, toggles, requests>>

\* An answer is lost, and the error dropped.
Lost(p) ==
  /\ poll[p].at = "answer"
  /\ poll' = [poll EXCEPT ![p] = NoPoll]
  /\ UNCHANGED <<mode, toggles, requests, page>>

\* The answer of /admin/api/logs, made under muLogs: the last n, newest first.
Logs(n) == LET len == Len(recent)
               from == IF len < n THEN 0 ELSE len - n
           IN  [i \in 1..len - from |-> recent[len + 1 - i]]

DashNext ==
  \/ \E t \in Thread : Served(t) \/ CountTotal(t) \/ CountKind(t) \/ PushLog(t)
  \/ \E p \in Poll : Refresh(p) \/ Status(p) \/ Show(p) \/ Lost(p)
  \/ Toggle

DashSpec == DashInit /\ [][DashNext]_dashVars

\* Goroutines run and the page keeps asking; not every answer is lost.
DashFairSpec ==
  /\ DashSpec
  /\ \A t \in Thread : WF_dashVars(CountTotal(t) \/ CountKind(t) \/ PushLog(t))
  /\ \A p \in Poll : WF_dashVars(Refresh(p)) /\ WF_dashVars(Status(p)) /\ SF_dashVars(Show(p))
------------------------------------------------------------------------------
\* Whatever handlers log at once, the log keeps the newest entries and the log API
\* gives the last ones it is asked for, newest first.
NewestFirst ==
  /\ Len(recent) <= LogCap
  /\ \A n \in 1..LogCap :
       LET k == IF Len(pushed) < n THEN Len(pushed) ELSE n
       IN  Logs(n) = [i \in 1..k |-> pushed[Len(pushed) + 1 - i]]

\* How many requests of a kind were ever logged.
Counted(k) == Cardinality({i \in DOMAIN pushed : pushed[i] = k})

\* How many requests were counted in total since an answer d loaded it.
CountedSince(d) == total - d.total

\* The counters are ahead of the log and the total is ahead of the counters.  What an
\* answer of the status API tells has happened; but as it loads total first, its counters
\* may exceed its total, though by no more than the requests counted since.
CountersAhead ==
  /\ \A k \in Kind : Counted(k) <= kinds[k]
  /\ kinds["ok"] + kinds["deny"] <= total
  /\ \A p \in Poll : LET d == poll[p].data IN
       /\ d.total <= total /\ d.ok <= kinds["ok"] /\ d.deny <= kinds["deny"]
       /\ d.ok + d.deny <= d.total + CountedSince(d)

\* When toggles and requests stop, the page comes to show the mode and the counters as
\* they are, and keeps showing them, whatever older answers were still under way.  (Not so
\* the total, to which the page's own questions add.)
CatchesUp ==
  <>[](page = [mode |-> mode, ok |-> kinds["ok"], deny |-> kinds["deny"]])
================================================================================
