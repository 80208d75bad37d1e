----------------------------- MODULE GuardProofs -----------------------------
(***************************************************************************)
(* Proofs about Guard for any number of goroutines, links and requests:    *)
(* the checks of sealed mode cannot be passed by, links stay single-use    *)
(* across channels, mode changes and restarts, and the counters of the     *)
(* dashboard never show more than was answered.                            *)
(***************************************************************************)
EXTENDS Guard, FiniteSetTheorems, TLAPS

Place == {"idle", "limit", "mode", "check", "proxy", "total", "kind"}

\* The parts of TypeOK the arguments below rest on.
TypeInv ==
  /\ mode \in Mode
  /\ used \subseteq Key
  /\ pc \in [Thread -> Place]
  /\ req \in [Thread -> Request]
  /\ via \in [Thread -> Mode \union {"none"}]
  /\ openSeen \in [Thread -> BOOLEAN]
  /\ passes \in [Key -> Nat]

\* Whoever came in before the mode was opened, and is still there, has seen it.
OpenInv == mode = "open" => \A t \in Thread : pc[t] # "idle" => openSeen[t]

\* Sealed mode was read by everybody who is at a check.
CheckInv == \A t \in Thread : pc[t] = "check" => via[t] = "sealed"

\* On the way to the backend with a link that was burnt for it.
Holds(t) == pc[t] = "proxy" /\ via[t] = "sealed" /\ req[t].path = "t"

\* Its key is burnt, belongs to nobody else and has let nobody through.
HoldInv ==
  \A t \in Thread : Holds(t) =>
    /\ KeyOf(t) \in used
    /\ passes[KeyOf(t)] = 0
    /\ \A u \in Thread : Holds(u) /\ KeyOf(u) = KeyOf(t) => u = t

\* A key that is not burnt has let nobody through.
FreshInv == \A k \in Key : k \notin used => passes[k] = 0
------------------------------------------------------------------------------
LEMMA TypeStep == TypeInv /\ [Next]_vars => TypeInv'
<1> SUFFICES ASSUME TypeInv, [Next]_vars PROVE TypeInv'
  OBVIOUS
<1> USE DEF Goto, Answer, Bump, Succeed, Place
<1>0. NoRequest \in Request
  BY DEF NoRequest, Request, Prefix
<1>1. ASSUME NEW t \in Thread, Finish(t)
      PROVE  /\ pc' \in [Thread -> Place]
             /\ req' \in [Thread -> Request]
             /\ via' \in [Thread -> Mode \union {"none"}]
             /\ openSeen' \in [Thread -> BOOLEAN]
  <2>1. openSeen' \in [Thread -> BOOLEAN]
    BY <1>1, Zenon DEF Finish, TypeInv
  <2> QED
    BY <1>0, <1>1, <2>1 DEF Finish, TypeInv
<1>2. ASSUME NEW t \in Thread, NEW q \in Request, Arrive(t, q) PROVE TypeInv'
  <2>1. openSeen' \in [Thread -> BOOLEAN]
    <3>1. (mode = "open") \in BOOLEAN
      OBVIOUS
    <3> QED
      BY <1>2, <3>1, Zenon DEF Arrive, TypeInv
  <2>2. pc' \in [Thread -> Place] /\ req' \in [Thread -> Request]
    BY <1>2 DEF Arrive, TypeInv
  <2>3. UNCHANGED <<mode, used, via, passes>>
    BY <1>2 DEF Arrive
  <2> QED
    BY <2>1, <2>2, <2>3 DEF TypeInv
<1>3. ASSUME NEW t \in Thread, RateLimited(t) \/ RateOK(t) \/ Health(t) \/ Admin(t)
      PROVE  TypeInv'
  BY <1>3 DEF RateLimited, RateOK, Health, Admin, TypeInv
<1>4. ASSUME NEW t \in Thread, Toggle(t) PROVE TypeInv'
  <2>1. openSeen' \in [Thread -> BOOLEAN]
    BY <1>4 DEF Toggle, SetMode
  <2> QED
    BY <1>4, <2>1 DEF Toggle, SetMode, TypeInv
<1>5. ASSUME NEW t \in Thread, ReadMode(t) PROVE TypeInv'
  BY <1>5 DEF ReadMode, TypeInv
<1>6. ASSUME NEW t \in Thread, NEW n \in Nat, Refuse(t, n),
             UNCHANGED <<mode, used, passes>>
      PROVE  TypeInv'
  BY <1>1, <1>6 DEF Refuse, TypeInv
<1>7. ASSUME NEW t \in Thread, Accept(t)
      PROVE  /\ pc' \in [Thread -> Place]
             /\ UNCHANGED <<req, via, openSeen>>
  BY <1>7 DEF Accept, TypeInv
<1>8. ASSUME NEW t \in Thread, CheckRoom(t) PROVE TypeInv'
  <2>1. CASE Accept(t)
    BY <1>7, <1>8, <2>1 DEF CheckRoom, TypeInv
  <2>2. CASE Refuse(t, 429) \/ Refuse(t, 403)
    BY <1>6, <1>8, <2>2 DEF CheckRoom
  <2> QED
    BY <1>8, <2>1, <2>2 DEF CheckRoom
<1>9. ASSUME NEW t \in Thread, BurnLink(t) PROVE TypeInv'
  <2>1. KeyOf(t) \in Key
    BY <1>9 DEF BurnLink, KeyOf, Key, TypeInv, Request
  <2>2. used' \subseteq Key /\ passes' = passes
    BY <1>9, <2>1 DEF BurnLink, Links!Burn, TypeInv
  <2> QED
    BY <1>7, <1>9, <2>2 DEF BurnLink, TypeInv
<1>10. ASSUME NEW t \in Thread, RefuseLink(t) \/ NoRoute(t) PROVE TypeInv'
  BY <1>6, <1>10 DEF RefuseLink, NoRoute
<1>11. ASSUME NEW t \in Thread, HandshakeFails(t) PROVE TypeInv'
  BY <1>1, <1>11 DEF HandshakeFails, TypeInv
<1>12. ASSUME NEW t \in Thread, CountPass(t) PROVE passes' \in [Key -> Nat]
  BY <1>12 DEF CountPass, TypeInv
<1>13. ASSUME NEW t \in Thread, ProxyHTTP(t) PROVE TypeInv'
  BY <1>12, <1>13 DEF ProxyHTTP, TypeInv
<1>14. ASSUME NEW t \in Thread, ProxyAborts(t) \/ Dial(t) PROVE TypeInv'
  <2>1. Finish(t) /\ CountPass(t) /\ UNCHANGED <<mode, used>>
    BY <1>14 DEF ProxyAborts, Dial
  <2> QED
    BY <1>1, <1>12, <2>1 DEF TypeInv
<1>15. ASSUME NEW t \in Thread, CountTotal(t) PROVE TypeInv'
  BY <1>15 DEF CountTotal, TypeInv
<1>16. ASSUME NEW t \in Thread, CountKind(t) PROVE TypeInv'
  BY <1>1, <1>16 DEF CountKind, TypeInv
<1>17. CASE Restart
  <2>1. openSeen' \in [Thread -> BOOLEAN]
    BY <1>17, Zenon DEF Restart
  <2> QED
    BY <1>0, <1>17, <2>1 DEF Restart, TypeInv
<1>18. CASE UNCHANGED vars
  BY <1>18 DEF vars, TypeInv
<1> QED
  BY <1>2, <1>3, <1>4, <1>5, <1>8, <1>9, <1>10, <1>11, <1>13, <1>14, <1>15,
     <1>16, <1>17, <1>18
  DEF Next

LEMMA TypeInit == Init => TypeInv
<1> SUFFICES ASSUME Init PROVE TypeInv
  OBVIOUS
<1>1. openSeen \in [Thread -> BOOLEAN]
  BY Zenon DEF Init
<1>2. NoRequest \in Request
  BY DEF NoRequest, Request, Prefix
<1>3. pc \in [Thread -> Place] /\ via \in [Thread -> Mode \union {"none"}]
  BY DEF Init, Place
<1>4. req \in [Thread -> Request]
  BY <1>2 DEF Init
<1>5. mode \in Mode /\ used \subseteq Key /\ passes \in [Key -> Nat]
  BY DEF Init, Mode
<1> QED
  BY <1>1, <1>3, <1>4, <1>5 DEF TypeInv
------------------------------------------------------------------------------
(* No way past the checks.                                                 *)

BypassInv == TypeInv /\ OpenInv /\ NoBypass

\* Burnt links stay burnt, so whoever is entitled remains so.
LEMMA UsedGrows == [Next]_vars => used \subseteq used'
<1> SUFFICES ASSUME [Next]_vars PROVE used \subseteq used'
  OBVIOUS
<1>1. ASSUME NEW t \in Thread, BurnLink(t) PROVE used \subseteq used'
  BY <1>1 DEF BurnLink, Links!Burn
<1> QED
  BY <1>1 DEF Next, Arrive, RateLimited, RateOK, Health, Admin, Toggle, ReadMode,
     CheckRoom, RefuseLink, NoRoute, HandshakeFails, ProxyHTTP, ProxyAborts,
     Dial, CountTotal, CountKind, Restart, vars

LEMMA BypassStep == BypassInv /\ [Next]_vars => OpenInv' /\ NoBypass'
<1> SUFFICES ASSUME BypassInv, [Next]_vars PROVE OpenInv' /\ NoBypass'
  OBVIOUS
<1> USE DEF BypassInv, OpenInv, NoBypass, Entitled, KeyOf, Place
<1>1. used \subseteq used'
  BY UsedGrows
<1> DEFINE Kept(u) == /\ pc'[u] = pc[u]
                      /\ req'[u] = req[u]
                      /\ openSeen'[u] = openSeen[u]
\* It is enough to look at the goroutine that moves.
<1>2. ASSUME NEW t \in Thread, mode' = mode,
             \A u \in Thread : u # t => Kept(u),
             mode = "open" /\ pc'[t] # "idle" => openSeen'[t],
             pc'[t] = "proxy" => openSeen'[t] \/ Entitled(t)'
      PROVE  OpenInv' /\ NoBypass'
  <2>1. OpenInv'
    BY <1>2
  <2>2. ASSUME NEW u \in Thread, u # t, pc'[u] = "proxy"
        PROVE  openSeen'[u] \/ Entitled(u)'
    BY <1>1, <1>2, <2>2
  <2> QED
    BY <1>2, <2>1, <2>2
<1>3. ASSUME NEW t \in Thread, Finish(t), mode' = mode PROVE OpenInv' /\ NoBypass'
  <2>1. pc'[t] = "idle"
    BY <1>3 DEF Finish, Goto, TypeInv
  <2>2. \A u \in Thread : u # t => Kept(u)
    BY <1>3 DEF Finish, Goto, TypeInv
  <2> QED
    BY <1>2, <1>3, <2>1, <2>2
\* A step that leaves requests and what they have seen alone.
<1>4. ASSUME NEW t \in Thread, mode' = mode, UNCHANGED <<req, openSeen>>,
             pc[t] # "idle", NEW l \in Place, Goto(t, l),
             l = "proxy" => openSeen[t] \/ Entitled(t)'
      PROVE  OpenInv' /\ NoBypass'
  <2>1. pc'[t] = l
    BY <1>4 DEF Goto, TypeInv
  <2>2. \A u \in Thread : u # t => Kept(u)
    BY <1>4 DEF Goto, TypeInv
  <2> QED
    BY <1>2, <1>4, <2>1, <2>2
<1>5. ASSUME NEW t \in Thread, NEW q \in Request, Arrive(t, q)
      PROVE  OpenInv' /\ NoBypass'
  <2>1. pc'[t] \in {"mode", "limit"} /\ mode' = mode
    BY <1>5 DEF Arrive, Goto, TypeInv
  <2>2. openSeen'[t] = (mode = "open")
    BY <1>5 DEF Arrive, TypeInv
  <2>3. \A u \in Thread : u # t => Kept(u)
    BY <1>5 DEF Arrive, Goto, TypeInv
  <2> QED
    BY <1>2, <2>1, <2>2, <2>3
<1>6. ASSUME NEW t \in Thread,
             \/ RateLimited(t) \/ RateOK(t) \/ Health(t) \/ Admin(t)
             \/ CountTotal(t)
      PROVE  OpenInv' /\ NoBypass'
  BY <1>4, <1>6
  DEF RateLimited, RateOK, Health, Admin, CountTotal, Answer, Succeed
<1>7. ASSUME NEW t \in Thread, Toggle(t) PROVE OpenInv' /\ NoBypass'
  <2>1. \A u \in Thread :
          openSeen'[u] = (pc[u] # "idle" /\ (openSeen[u] \/ mode' = "open"))
    BY <1>7 DEF Toggle, SetMode
  <2>2. /\ pc'[t] = "total" /\ pc[t] = "limit"
        /\ \A u \in Thread : u # t => pc'[u] = pc[u]
        /\ req' = req
    BY <1>7 DEF Toggle, Answer, Succeed, Goto, TypeInv
  <2>3. OpenInv'
    BY <2>1, <2>2
  <2>4. ASSUME NEW u \in Thread, pc'[u] = "proxy"
        PROVE  openSeen'[u] \/ Entitled(u)'
    <3>1. pc[u] = "proxy"
      BY <2>2, <2>4
    <3>2. openSeen[u] => openSeen'[u]
      BY <2>1, <3>1
    <3>3. Entitled(u) => Entitled(u)'
      BY <1>1, <2>2
    <3> QED
      BY <3>1, <3>2, <3>3
  <2> QED
    BY <2>3, <2>4
<1>8. ASSUME NEW t \in Thread, ReadMode(t) PROVE OpenInv' /\ NoBypass'
  BY <1>4, <1>8 DEF ReadMode
<1>9. ASSUME NEW t \in Thread, NEW n \in Nat, Refuse(t, n), mode' = mode,
             pc[t] = "check"
      PROVE  OpenInv' /\ NoBypass'
  BY <1>3, <1>4, <1>9 DEF Refuse, Answer
<1>10. ASSUME NEW t \in Thread, Accept(t), mode' = mode, pc[t] = "check",
              Entitled(t)'
       PROVE  OpenInv' /\ NoBypass'
  BY <1>4, <1>10 DEF Accept
<1>11. ASSUME NEW t \in Thread, CheckRoom(t) PROVE OpenInv' /\ NoBypass'
  <2>1. mode' = mode /\ pc[t] = "check" /\ req[t].path = "r"
    BY <1>11 DEF CheckRoom
  <2>2. CASE req[t].cred = "good" /\ Accept(t)
    <3>1. Entitled(t)'
      BY <2>1, <2>2 DEF Accept
    <3> QED
      BY <1>10, <2>1, <2>2, <3>1
  <2>3. CASE Refuse(t, 429) \/ Refuse(t, 403)
    BY <1>9, <2>1, <2>3
  <2> QED
    BY <1>11, <2>2, <2>3 DEF CheckRoom
<1>12. ASSUME NEW t \in Thread, BurnLink(t) PROVE OpenInv' /\ NoBypass'
  <2>1. Entitled(t)'
    BY <1>12 DEF BurnLink, Links!Burn, Accept
  <2> QED
    BY <1>10, <1>12, <2>1 DEF BurnLink
<1>13. ASSUME NEW t \in Thread, RefuseLink(t) \/ NoRoute(t)
       PROVE  OpenInv' /\ NoBypass'
  BY <1>9, <1>13 DEF RefuseLink, NoRoute
<1>14. ASSUME NEW t \in Thread,
              HandshakeFails(t) \/ ProxyAborts(t) \/ Dial(t) \/ CountKind(t)
       PROVE  OpenInv' /\ NoBypass'
  BY <1>3, <1>14 DEF HandshakeFails, ProxyAborts, Dial, CountKind
<1>15. ASSUME NEW t \in Thread, ProxyHTTP(t) PROVE OpenInv' /\ NoBypass'
  BY <1>4, <1>15 DEF ProxyHTTP, Answer, Succeed
<1>16. CASE Restart
  BY <1>16 DEF Restart
<1>17. CASE UNCHANGED vars
  BY <1>17 DEF vars
<1> QED
  BY <1>5, <1>6, <1>7, <1>8, <1>11, <1>12, <1>13, <1>14, <1>15, <1>16, <1>17
  DEF Next

\* Nobody is on the way to the backend without a ticket or a burnt link, unless
\* the mode has been open since the request came in.
THEOREM NoBypassCorrect == Spec => []NoBypass
<1>1. Init => OpenInv /\ NoBypass
  BY DEF Init, OpenInv, NoBypass
<1>2. Init => BypassInv
  BY <1>1, TypeInit DEF BypassInv
<1>3. BypassInv /\ [Next]_vars => BypassInv'
  BY TypeStep, BypassStep DEF BypassInv
<1>4. BypassInv => NoBypass
  BY DEF BypassInv
<1> QED
  BY <1>2, <1>3, <1>4, PTL DEF Spec
------------------------------------------------------------------------------
(* Links stay single-use.                                                  *)

LinkInv == CheckInv /\ HoldInv /\ FreshInv

LEMMA LinkStep == TypeInv /\ LinkInv /\ [Next]_vars => LinkInv'
<1> SUFFICES ASSUME TypeInv, LinkInv, [Next]_vars PROVE LinkInv'
  OBVIOUS
<1> USE DEF LinkInv, CheckInv, HoldInv, FreshInv, Holds, KeyOf, Place
<1> DEFINE Kept(u) == /\ pc'[u] = pc[u]
                      /\ req'[u] = req[u]
                      /\ via'[u] = via[u]
\* A step of t that touches no link and brings t to no check and no backend.
<1>1. ASSUME NEW t \in Thread, UNCHANGED <<used, passes>>,
             \A u \in Thread : u # t => Kept(u),
             pc'[t] = "check" => via'[t] = "sealed",
             ~Holds(t)'
      PROVE  LinkInv'
  <2>1. \A u \in Thread : Holds(u)' => u # t /\ Holds(u) /\ KeyOf(u)' = KeyOf(u)
    BY <1>1
  <2>2. HoldInv'
    BY <1>1, <2>1
  <2> QED
    BY <1>1, <2>2
<1>2. ASSUME NEW t \in Thread, Finish(t)
      PROVE  pc'[t] = "idle" /\ \A u \in Thread : u # t => Kept(u)
  BY <1>2 DEF Finish, Goto, TypeInv
<1>3. ASSUME NEW t \in Thread, UNCHANGED <<used, passes, req, via>>,
             NEW l \in {"mode", "total", "kind"}, Goto(t, l)
      PROVE  LinkInv'
  <2>1. pc'[t] = l /\ \A u \in Thread : u # t => Kept(u)
    BY <1>3 DEF Goto, TypeInv
  <2> QED
    BY <1>1, <1>3, <2>1
<1>4. ASSUME NEW t \in Thread, NEW q \in Request, Arrive(t, q) PROVE LinkInv'
  <2>1. pc'[t] \in {"mode", "limit"} /\ \A u \in Thread : u # t => Kept(u)
    BY <1>4 DEF Arrive, Goto, TypeInv
  <2> QED
    BY <1>1, <1>4, <2>1 DEF Arrive
<1>5. ASSUME NEW t \in Thread,
             \/ RateLimited(t) \/ RateOK(t) \/ Health(t) \/ Admin(t)
             \/ Toggle(t) \/ CountTotal(t)
      PROVE  LinkInv'
  BY <1>3, <1>5
  DEF RateLimited, RateOK, Health, Admin, Toggle, CountTotal, Answer, Succeed
<1>6. ASSUME NEW t \in Thread, ReadMode(t) PROVE LinkInv'
  <2>1. via'[t] = mode /\ pc'[t] = (IF mode = "open" THEN "proxy" ELSE "check")
    BY <1>6 DEF ReadMode, Goto, TypeInv
  <2>2. \A u \in Thread : u # t => Kept(u)
    BY <1>6 DEF ReadMode, Goto, TypeInv
  <2>3. mode \in {"open", "sealed"}
    BY DEF TypeInv, Mode
  <2> QED
    BY <1>1, <1>6, <2>1, <2>2, <2>3 DEF ReadMode
<1>7. ASSUME NEW t \in Thread, NEW n \in Nat, Refuse(t, n),
             UNCHANGED <<used, passes>>
      PROVE  LinkInv'
  <2>1. CASE Finish(t)
    BY <1>1, <1>2, <1>7, <2>1
  <2>2. CASE Answer(t, n) /\ UNCHANGED <<req, via>>
    BY <1>3, <1>7, <2>2 DEF Answer
  <2> QED
    BY <1>7, <2>1, <2>2 DEF Refuse
<1>8. ASSUME NEW t \in Thread, Accept(t)
      PROVE  /\ pc'[t] = "proxy" /\ UNCHANGED <<req, via>>
             /\ \A u \in Thread : u # t => Kept(u)
  BY <1>8 DEF Accept, Goto, TypeInv
<1>9. ASSUME NEW t \in Thread, CheckRoom(t) PROVE LinkInv'
  <2>1. req[t].path = "r" /\ UNCHANGED <<used, passes>>
    BY <1>9 DEF CheckRoom
  <2>2. CASE Accept(t)
    BY <1>1, <1>8, <2>1, <2>2
  <2>3. CASE Refuse(t, 429) \/ Refuse(t, 403)
    BY <1>7, <2>1, <2>3
  <2> QED
    BY <1>9, <2>2, <2>3 DEF CheckRoom
<1>10. ASSUME NEW t \in Thread, BurnLink(t) PROVE LinkInv'
  <2>1. /\ KeyOf(t) \in Key /\ KeyOf(t) \notin used
        /\ used' = used \union {KeyOf(t)} /\ passes' = passes
    BY <1>10 DEF BurnLink, Links!Burn, Key, TypeInv, Request
  <2>2. pc'[t] = "proxy" /\ UNCHANGED <<req, via>>
    BY <1>8, <1>10 DEF BurnLink
  <2>3. \A u \in Thread : u # t => Kept(u)
    BY <1>8, <1>10 DEF BurnLink
  <2>4. \A u \in Thread : u # t /\ Holds(u)' => Holds(u) /\ KeyOf(u)' # KeyOf(t)
    BY <2>1, <2>3
  <2>5. HoldInv'
    BY <2>1, <2>2, <2>3, <2>4
  <2>6. CheckInv' /\ FreshInv'
    BY <2>1, <2>2, <2>3
  <2> QED
    BY <2>5, <2>6
<1>11. ASSUME NEW t \in Thread, RefuseLink(t) \/ NoRoute(t) PROVE LinkInv'
  BY <1>7, <1>11 DEF RefuseLink, NoRoute
<1>12. ASSUME NEW t \in Thread, HandshakeFails(t) \/ CountKind(t) PROVE LinkInv'
  BY <1>1, <1>2, <1>12 DEF HandshakeFails, CountKind
\* The visitor leaves the backend behind, counted if it came with a link.
<1>13. ASSUME NEW t \in Thread, CountPass(t), used' = used, pc[t] = "proxy",
              pc'[t] \in {"idle", "total"},
              \A u \in Thread : u # t => Kept(u)
       PROVE  LinkInv'
  <2>1. CASE Holds(t)
    <3>1. KeyOf(t) \in used /\ KeyOf(t) \in Key
      BY <2>1 DEF TypeInv
    <3>2. passes' = [passes EXCEPT ![KeyOf(t)] = @ + 1]
      BY <1>13, <2>1 DEF CountPass
    <3>3. \A k \in Key : k # KeyOf(t) => passes'[k] = passes[k]
      BY <3>1, <3>2 DEF TypeInv
    <3>4. FreshInv'
      BY <1>13, <3>1, <3>3
    <3>5. \A u \in Thread : Holds(u)' =>
             u # t /\ Holds(u) /\ KeyOf(u)' = KeyOf(u) /\ KeyOf(u) # KeyOf(t)
      BY <1>13, <2>1
    <3>6. HoldInv'
      BY <1>13, <3>3, <3>5 DEF TypeInv
    <3> QED
      BY <1>13, <3>4, <3>6
  <2>2. CASE ~Holds(t)
    BY <1>1, <1>13, <2>2 DEF CountPass
  <2> QED
    BY <2>1, <2>2
<1>14. ASSUME NEW t \in Thread, ProxyAborts(t) \/ Dial(t) PROVE LinkInv'
  BY <1>2, <1>13, <1>14 DEF ProxyAborts, Dial
<1>15. ASSUME NEW t \in Thread, ProxyHTTP(t) PROVE LinkInv'
  <2>1. pc'[t] = "total" /\ \A u \in Thread : u # t => Kept(u)
    BY <1>15 DEF ProxyHTTP, Answer, Succeed, Goto, TypeInv
  <2> QED
    BY <1>13, <1>15, <2>1 DEF ProxyHTTP
<1>16. CASE Restart
  BY <1>16 DEF Restart
<1>17. CASE UNCHANGED vars
  BY <1>17 DEF vars
<1> QED
  BY <1>4, <1>5, <1>6, <1>9, <1>10, <1>11, <1>12, <1>14, <1>15, <1>16, <1>17
  DEF Next

\* Across both channels, mode changes and restarts, the guard is a single-use
\* store: only sealed mode burns and uses up links, each once.
THEOREM LinksCorrect == Spec => LinksSpec
<1>1. Init => Links!Init
  BY DEF Init, Links!Init
<1>2. Init => TypeInv /\ LinkInv
  <2>1. Init => LinkInv
    BY DEF Init, LinkInv, CheckInv, HoldInv, FreshInv, Holds
  <2> QED
    BY <2>1, TypeInit
<1>3. TypeInv /\ LinkInv /\ [Next]_vars => (TypeInv /\ LinkInv)'
  BY TypeStep, LinkStep
<1>4. TypeInv /\ LinkInv /\ [Next]_vars => [Links!Next]_(Links!vars)
  <2> SUFFICES ASSUME TypeInv, LinkInv, [Next]_vars
               PROVE  [Links!Next]_(Links!vars)
    OBVIOUS
  <2>1. ASSUME UNCHANGED <<used, passes>> PROVE [Links!Next]_(Links!vars)
    BY <2>1 DEF Links!vars
  <2>2. ASSUME NEW t \in Thread, BurnLink(t) PROVE [Links!Next]_(Links!vars)
    <3>1. req[t].chan \in {"http", "tcp"} /\ req[t].cred \in Link
      BY <2>2 DEF BurnLink, TypeInv, Request
    <3>2. KeyOf(t) \in Key
      BY <3>1 DEF KeyOf, Key
    <3> QED
      BY <2>2, <3>2 DEF BurnLink, Links!Next
  <2>3. ASSUME NEW t \in Thread, CountPass(t), used' = used, pc[t] = "proxy"
        PROVE  [Links!Next]_(Links!vars)
    <3>1. CASE Holds(t)
      <4>1. KeyOf(t) \in Key /\ KeyOf(t) \in used /\ passes[KeyOf(t)] = 0
        BY <3>1 DEF LinkInv, HoldInv, TypeInv
      <4>2. Links!Pass(KeyOf(t))
        BY <2>3, <3>1, <4>1 DEF CountPass, Holds, Links!Pass
      <4> QED
        BY <4>1, <4>2 DEF Links!Next
    <3>2. CASE ~Holds(t)
      BY <2>1, <2>3, <3>2 DEF CountPass, Holds
    <3> QED
      BY <3>1, <3>2
  <2>4. ASSUME NEW t \in Thread, ProxyHTTP(t) \/ ProxyAborts(t) \/ Dial(t)
        PROVE  [Links!Next]_(Links!vars)
    BY <2>3, <2>4 DEF ProxyHTTP, ProxyAborts, Dial
  <2>5. ASSUME NEW t \in Thread, NEW q \in Request, Arrive(t, q)
        PROVE  [Links!Next]_(Links!vars)
    BY <2>1, <2>5 DEF Arrive
  <2>6. ASSUME NEW t \in Thread,
               \/ RateLimited(t) \/ RateOK(t) \/ Health(t) \/ Admin(t)
               \/ Toggle(t) \/ ReadMode(t) \/ CheckRoom(t) \/ RefuseLink(t)
               \/ NoRoute(t) \/ HandshakeFails(t) \/ CountTotal(t) \/ CountKind(t)
        PROVE  [Links!Next]_(Links!vars)
    BY <2>1, <2>6
    DEF RateLimited, RateOK, Health, Admin, Toggle, ReadMode, CheckRoom,
        RefuseLink, NoRoute, HandshakeFails, CountTotal, CountKind
  <2>7. CASE Restart \/ UNCHANGED vars
    BY <2>1, <2>7 DEF Restart, vars
  <2> QED
    BY <2>2, <2>4, <2>5, <2>6, <2>7 DEF Next
<1> QED
  BY <1>1, <1>2, <1>3, <1>4, PTL DEF Spec, LinksSpec, Links!Spec
------------------------------------------------------------------------------
(* What the counters show: the definitions.                                *)

\* Between the total and the kind; answered with 200 and not yet in a kind.
AtKind == {t \in Thread : pc[t] = "kind"}
Owed(p) == {t \in Thread : pc[t] \in {"total", "kind"} /\ code[t] = 200 /\ req[t].raw = p}

Busy == {t \in Thread : pc[t] # "idle"}

Success(p) == IF p = "t" THEN "sealOK" ELSE IF p = "r" THEN "roomOK" ELSE "openOK"

KindSum == stats["sealOK"] + stats["sealNO"] + stats["roomOK"] + stats["roomNO"]
             + stats["openOK"]

\* Who has counted in the total and not in a kind, and who has been answered and
\* counted in neither, makes up for the difference.
CountInv ==
  /\ IsFiniteSet(Busy)
  /\ KindSum + Cardinality(AtKind) <= stats["total"]
  /\ \A p \in {"t", "r", "open"} : stats[Success(p)] + Cardinality(Owed(p)) <= visits[p]

------------------------------------------------------------------------------
(* The types of what is answered and counted.                              *)

AnswerType ==
  /\ code \in [Thread -> {0, 200, 401, 403, 404, 429, 502}]
  /\ stats \in [Counter -> Nat]
  /\ arrived \in Nat
  /\ visits \in [Prefix -> Nat]

LEMMA KindCounts ==
  ASSUME NEW p, NEW n PROVE Kind(p, n) \subseteq Counter \ {"total"}
<1>1. CASE p = "t"
  BY <1>1, Zenon DEF Kind, Counter
<1>2. CASE p = "r"
  BY <1>2, Zenon DEF Kind, Counter
<1>3. CASE p \notin {"t", "r"}
  BY <1>3, Zenon DEF Kind, Counter
<1> QED
  BY <1>1, <1>2, <1>3

\* The counter of an answer of 200, and of no other answer.
LEMMA KindSuccess ==
  ASSUME NEW q \in Prefix, NEW n, NEW p \in {"t", "r", "open"}
  PROVE  Success(p) \in Kind(q, n) <=> n = 200 /\ q = p
<1>1. CASE q = "t"
  BY <1>1, Zenon DEF Kind, Success
<1>2. CASE q = "r"
  BY <1>2, Zenon DEF Kind, Success
<1>3. CASE q = "admin"
  BY <1>3, Zenon DEF Kind, Success
<1>4. CASE q = "open"
  BY <1>4, Zenon DEF Kind, Success
<1> QED
  BY <1>1, <1>2, <1>3, <1>4 DEF Prefix

\* An answer is counted in at most one kind.
LEMMA KindOne ==
  ASSUME NEW p, NEW n PROVE \A c, d \in Kind(p, n) : c = d
<1>1. CASE p = "t"
  BY <1>1, Zenon DEF Kind
<1>2. CASE p = "r"
  BY <1>2, Zenon DEF Kind
<1>3. CASE p \notin {"t", "r"}
  BY <1>3, Zenon DEF Kind
<1> QED
  BY <1>1, <1>2, <1>3

LEMMA AnswerTypeStep == TypeInv /\ AnswerType /\ [Next]_vars => AnswerType'
<1> SUFFICES ASSUME TypeInv, AnswerType, [Next]_vars PROVE AnswerType'
  OBVIOUS
<1> USE DEF AnswerType
<1> DEFINE Code == {0, 200, 401, 403, 404, 429, 502}
\* Every way of setting one of the four.
<1>1. ASSUME NEW t \in Thread, NEW n \in Code, Answer(t, n)
      PROVE  code' \in [Thread -> Code]
  BY <1>1 DEF Answer
<1>2. ASSUME NEW t \in Thread, Finish(t) PROVE code' \in [Thread -> Code]
  BY <1>2 DEF Finish
<1>3. ASSUME NEW c \in Counter, Bump(c) PROVE stats' \in [Counter -> Nat]
  BY <1>3 DEF Bump
<1>4. {"total", "tcpOK", "tcpNO"} \subseteq Counter
  BY DEF Counter
<1>5. ASSUME NEW t \in Thread, Succeed(t)
      PROVE  code' \in [Thread -> Code] /\ visits' \in [Prefix -> Nat]
  <2>1. visits' = [x \in Prefix |-> IF x = req[t].raw THEN visits[x] + 1 ELSE visits[x]]
    BY <1>5 DEF Succeed
  <2>2. code' \in [Thread -> Code]
    BY <1>1, <1>5 DEF Succeed
  <2> QED
    BY <2>1, <2>2
<1>6. ASSUME NEW t \in Thread, NEW n \in Code, Refuse(t, n),
             UNCHANGED <<arrived, visits>>
      PROVE  AnswerType'
  BY <1>1, <1>2, <1>3, <1>4, <1>6 DEF Refuse
<1>7. ASSUME NEW t \in Thread, Accept(t), UNCHANGED <<arrived, visits>>
      PROVE  AnswerType'
  BY <1>3, <1>4, <1>7 DEF Accept
<1>8. ASSUME NEW t \in Thread, NEW q \in Request, Arrive(t, q) PROVE AnswerType'
  BY <1>8 DEF Arrive
<1>9. ASSUME NEW t \in Thread, RateLimited(t) \/ Health(t) \/ Admin(t) \/ Toggle(t)
      PROVE  AnswerType'
  BY <1>1, <1>5, <1>9 DEF RateLimited, Health, Admin, Toggle
<1>10. ASSUME NEW t \in Thread, RateOK(t) \/ ReadMode(t) PROVE AnswerType'
  BY <1>10 DEF RateOK, ReadMode
<1>11. ASSUME NEW t \in Thread, CheckRoom(t) PROVE AnswerType'
  BY <1>6, <1>7, <1>11 DEF CheckRoom
<1>12. ASSUME NEW t \in Thread, BurnLink(t) PROVE AnswerType'
  BY <1>7, <1>12 DEF BurnLink
<1>13. ASSUME NEW t \in Thread, RefuseLink(t) \/ NoRoute(t) PROVE AnswerType'
  BY <1>6, <1>13 DEF RefuseLink, NoRoute
<1>14. ASSUME NEW t \in Thread, HandshakeFails(t) \/ ProxyAborts(t) \/ Dial(t)
       PROVE  AnswerType'
  BY <1>2, <1>3, <1>4, <1>14 DEF HandshakeFails, ProxyAborts, Dial
<1>15. ASSUME NEW t \in Thread, ProxyHTTP(t) PROVE AnswerType'
  BY <1>1, <1>5, <1>15 DEF ProxyHTTP
<1>16. ASSUME NEW t \in Thread, CountTotal(t) PROVE AnswerType'
  BY <1>3, <1>4, <1>16 DEF CountTotal
<1>17. ASSUME NEW t \in Thread, CountKind(t) PROVE AnswerType'
  <2>1. stats' \in [Counter -> Nat]
    BY <1>17 DEF CountKind
  <2> QED
    BY <1>2, <1>17, <2>1 DEF CountKind
<1>18. CASE Restart
  BY <1>18 DEF Restart, NoCount, NoVisit
<1>19. CASE UNCHANGED vars
  BY <1>19 DEF vars
<1> QED
  BY <1>8, <1>9, <1>10, <1>11, <1>12, <1>13, <1>14, <1>15, <1>16, <1>17, <1>18,
     <1>19
  DEF Next

\* Every variable keeps its type.
THEOREM TypeCorrect == Spec => []TypeOK
<1>1. Init => TypeInv /\ AnswerType
  <2>1. Init => AnswerType
    BY DEF Init, AnswerType, NoCount, NoVisit
  <2> QED
    BY <2>1, TypeInit
<1>2. TypeInv /\ AnswerType /\ [Next]_vars => (TypeInv /\ AnswerType)'
  BY TypeStep, AnswerTypeStep
<1>3. TypeInv /\ AnswerType => TypeOK
  BY Zenon DEF TypeInv, AnswerType, TypeOK, Place
<1> QED
  BY <1>1, <1>2, <1>3, PTL DEF Spec
------------------------------------------------------------------------------
(* The counters never show more than was answered.                         *)

\* What a step of t alone does to the sets that are counted.
Moves(t) ==
  \A u \in Thread : u # t => pc'[u] = pc[u] /\ req'[u] = req[u] /\ code'[u] = code[u]

LEMMA BusyFinite ==
  IsFiniteSet(Busy) =>
    /\ IsFiniteSet(AtKind) /\ Cardinality(AtKind) \in Nat
    /\ \A p : IsFiniteSet(Owed(p)) /\ Cardinality(Owed(p)) \in Nat
<1> SUFFICES ASSUME IsFiniteSet(Busy)
             PROVE  /\ IsFiniteSet(AtKind) /\ Cardinality(AtKind) \in Nat
                    /\ \A p : IsFiniteSet(Owed(p)) /\ Cardinality(Owed(p)) \in Nat
  OBVIOUS
<1>1. AtKind \in SUBSET Busy
  BY DEF AtKind, Busy
<1>2. ASSUME NEW p PROVE Owed(p) \in SUBSET Busy
  BY DEF Owed, Busy
<1> QED
  BY <1>1, <1>2, FS_Subset, FS_CardinalityType

LEMMA StillFinite ==
  ASSUME IsFiniteSet(Busy), NEW t \in Thread, Moves(t)
  PROVE  IsFiniteSet(Busy')
<1>1. Busy' \in SUBSET (Busy \union {t})
  BY DEF Busy, Moves
<1> QED
  BY <1>1, FS_AddElement, FS_Subset

\* A step that lets t into none of the sets.
LEMMA QuietStep ==
  ASSUME TypeInv, AnswerType, AnswerType', CountInv, NEW t \in Thread, Moves(t),
         visits' = visits,
         \A c \in Counter \ {"tcpOK", "tcpNO"} : stats'[c] = stats[c],
         pc'[t] \in {"total", "kind"} =>
           pc'[t] = "total" /\ code'[t] # 200
  PROVE  CountInv'
<1>1. IsFiniteSet(Busy')
  BY StillFinite DEF CountInv
<1>2. AtKind' \in SUBSET AtKind
  BY DEF AtKind, Moves
<1>3. ASSUME NEW p \in {"t", "r", "open"} PROVE Owed(p)' \in SUBSET Owed(p)
  BY DEF Owed, Moves
<1>4. Cardinality(AtKind') <= Cardinality(AtKind)
  BY <1>2, BusyFinite, FS_Subset DEF CountInv
<1>5. ASSUME NEW p \in {"t", "r", "open"} PROVE Cardinality(Owed(p)') <= Cardinality(Owed(p))
  BY <1>3, BusyFinite, FS_Subset DEF CountInv
<1>6. KindSum' = KindSum /\ stats'["total"] = stats["total"]
  BY DEF KindSum, Counter
<1>7. \A p \in {"t", "r", "open"} : stats'[Success(p)] = stats[Success(p)]
  BY DEF Success, Counter
<1>8. /\ Cardinality(AtKind') \in Nat /\ Cardinality(AtKind) \in Nat
      /\ \A p : Cardinality(Owed(p)') \in Nat /\ Cardinality(Owed(p)) \in Nat
  <2>1. (IsFiniteSet(Busy) =>
           /\ IsFiniteSet(AtKind) /\ Cardinality(AtKind) \in Nat
           /\ \A p : IsFiniteSet(Owed(p)) /\ Cardinality(Owed(p)) \in Nat)'
    BY BusyFinite, PTL
  <2> QED
    BY <1>1, <2>1, BusyFinite DEF CountInv
<1>9. KindSum \in Nat /\ stats["total"] \in Nat
  BY DEF AnswerType, KindSum, Counter
<1>10. KindSum' + Cardinality(AtKind') <= stats'["total"]
  BY <1>4, <1>6, <1>8, <1>9 DEF CountInv
<1>11. ASSUME NEW p \in {"t", "r", "open"}
       PROVE  stats'[Success(p)] + Cardinality(Owed(p)') <= visits'[p]
  <2>1. stats[Success(p)] \in Nat /\ visits[p] \in Nat
    BY DEF AnswerType, Success, Counter, Prefix
  <2> QED
    BY <1>5, <1>7, <1>8, <2>1 DEF CountInv
<1> QED
  BY <1>1, <1>10, <1>11 DEF CountInv

\* t is answered with 200: the visit is owed a place in the counters.
LEMMA VisitStep ==
  ASSUME TypeInv, AnswerType, AnswerType', CountInv, NEW t \in Thread, Moves(t),
         stats' = stats, pc[t] \notin {"total", "kind"}, pc'[t] = "total",
         visits' = [visits EXCEPT ![req'[t].raw] = @ + 1]
  PROVE  CountInv'
<1>1. IsFiniteSet(Busy')
  BY StillFinite DEF CountInv
<1>2. AtKind' = AtKind
  BY DEF AtKind, Moves
<1>3. KindSum' = KindSum
  BY DEF KindSum
<1>4. ASSUME NEW p \in {"t", "r", "open"}
      PROVE  stats'[Success(p)] + Cardinality(Owed(p)') <= visits'[p]
  <2>1. stats[Success(p)] \in Nat /\ visits[p] \in Nat
    BY DEF AnswerType, Success, Counter, Prefix
  <2>2. IsFiniteSet(Owed(p)) /\ Cardinality(Owed(p)) \in Nat
    BY BusyFinite DEF CountInv
  <2>3. CASE req'[t].raw = p
    <3>1. Owed(p)' \in SUBSET (Owed(p) \union {t})
      BY DEF Owed, Moves
    <3>2. /\ IsFiniteSet(Owed(p) \union {t})
          /\ Cardinality(Owed(p) \union {t}) <= Cardinality(Owed(p)) + 1
          /\ Cardinality(Owed(p) \union {t}) \in Nat
      <4>1. Cardinality(Owed(p) \union {t}) =
              IF t \in Owed(p) THEN Cardinality(Owed(p)) ELSE Cardinality(Owed(p)) + 1
        BY <2>2, FS_AddElement
      <4>2. IsFiniteSet(Owed(p) \union {t})
        BY <2>2, FS_AddElement
      <4> QED
        BY <2>2, <4>1, <4>2
    <3>3. /\ Cardinality(Owed(p)') <= Cardinality(Owed(p) \union {t})
          /\ Cardinality(Owed(p)') \in Nat
      BY <3>1, <3>2, FS_Subset, FS_CardinalityType
    <3>4. visits'[p] = visits[p] + 1
      BY <2>3 DEF AnswerType, Prefix
    <3> QED
      BY <2>1, <2>2, <3>2, <3>3, <3>4 DEF CountInv
  <2>4. CASE req'[t].raw # p
    <3>1. Owed(p)' = Owed(p)
      BY <2>4 DEF Owed, Moves
    <3>2. visits'[p] = visits[p]
      BY <2>4 DEF AnswerType
    <3> QED
      BY <3>1, <3>2 DEF CountInv
  <2> QED
    BY <2>3, <2>4
<1> QED
  BY <1>1, <1>2, <1>3, <1>4 DEF CountInv

LEMMA TotalStep ==
  ASSUME TypeInv, AnswerType, CountInv, NEW t \in Thread, CountTotal(t)
  PROVE  CountInv'
<1>1. Moves(t) /\ pc[t] = "total" /\ pc'[t] = "kind" /\ UNCHANGED <<req, code, visits>>
  BY DEF CountTotal, Goto, TypeInv, Moves
<1>2. IsFiniteSet(Busy')
  BY <1>1, StillFinite DEF CountInv
<1>3. ASSUME NEW p PROVE Owed(p)' = Owed(p)
  BY <1>1 DEF Owed, Moves
<1>4. stats' = [stats EXCEPT !["total"] = @ + 1]
  BY DEF CountTotal, Bump
<1>5. KindSum' = KindSum /\ stats'["total"] = stats["total"] + 1
  BY <1>4 DEF AnswerType, KindSum, Counter
<1>6. \A p \in {"t", "r", "open"} : stats'[Success(p)] = stats[Success(p)]
  BY <1>4 DEF AnswerType, Success, Counter
<1>7. AtKind' = AtKind \union {t}
  BY <1>1 DEF AtKind, Moves
<1>8. Cardinality(AtKind') <= Cardinality(AtKind) + 1 /\ Cardinality(AtKind') \in Nat
  <2>1. IsFiniteSet(AtKind) /\ Cardinality(AtKind) \in Nat
    BY BusyFinite DEF CountInv
  <2>2. Cardinality(AtKind \union {t}) =
          IF t \in AtKind THEN Cardinality(AtKind) ELSE Cardinality(AtKind) + 1
    BY <2>1, FS_AddElement
  <2> QED
    BY <1>7, <2>1, <2>2
<1>9. KindSum \in Nat /\ stats["total"] \in Nat /\ Cardinality(AtKind) \in Nat
  BY BusyFinite DEF AnswerType, KindSum, Counter, CountInv
<1>10. KindSum' + Cardinality(AtKind') <= stats'["total"]
  BY <1>5, <1>8, <1>9 DEF CountInv
<1> QED
  BY <1>1, <1>2, <1>3, <1>6, <1>10 DEF CountInv

LEMMA KindStep ==
  ASSUME TypeInv, AnswerType, CountInv, NEW t \in Thread, CountKind(t)
  PROVE  CountInv'
<1> DEFINE K == Kind(req[t].raw, code[t])
<1>1. /\ pc[t] = "kind" /\ pc'[t] = "idle" /\ Moves(t) /\ visits' = visits
  BY DEF CountKind, Finish, Goto, TypeInv, AnswerType, Moves
<1>2. IsFiniteSet(Busy')
  BY <1>1, StillFinite DEF CountInv
<1>3. stats' = [c \in Counter |-> IF c \in K THEN stats[c] + 1 ELSE stats[c]]
  BY DEF CountKind
<1>4. K \subseteq Counter \ {"total"} /\ \A c, d \in K : c = d
  BY KindCounts, KindOne
<1> HIDE DEF K
<1>5. KindSum \in Nat /\ stats["total"] \in Nat
  BY DEF AnswerType, KindSum, Counter
<1>6. stats'["total"] = stats["total"]
  BY <1>3, <1>4 DEF Counter
<1>7. KindSum' <= KindSum + 1 /\ KindSum' \in Nat
  <2>1. CASE K = {}
    <3>1. \A c \in Counter : stats'[c] = stats[c]
      BY <1>3, <2>1
    <3>2. KindSum' = KindSum
      BY <3>1 DEF KindSum, Counter
    <3> QED
      BY <1>5, <3>2
  <2>2. ASSUME NEW c \in Counter, K = {c} PROVE KindSum' <= KindSum + 1 /\ KindSum' \in Nat
    <3>1. /\ stats'[c] = stats[c] + 1
          /\ \A d \in Counter : d # c => stats'[d] = stats[d]
      BY <1>3, <2>2
    <3>2. \A d \in Counter : stats[d] \in Nat
      BY DEF AnswerType
    <3> QED
      BY <3>1, <3>2 DEF KindSum, Counter
  <2>3. K = {} \/ \E c \in Counter : K = {c}
    BY <1>4
  <2> QED
    BY <2>1, <2>2, <2>3
<1>8. AtKind' = AtKind \ {t} /\ t \in AtKind
  BY <1>1 DEF AtKind, Moves
<1>9. /\ Cardinality(AtKind') = Cardinality(AtKind) - 1
      /\ Cardinality(AtKind) \in Nat
  BY <1>8, BusyFinite, FS_RemoveElement DEF CountInv
<1>10. KindSum' + Cardinality(AtKind') <= stats'["total"]
  BY <1>5, <1>6, <1>7, <1>9 DEF CountInv
<1>11. ASSUME NEW p \in {"t", "r", "open"}
       PROVE  stats'[Success(p)] + Cardinality(Owed(p)') <= visits'[p]
  <2>1. /\ stats[Success(p)] \in Nat /\ visits[p] \in Nat
        /\ Success(p) \in Counter
    BY DEF AnswerType, Success, Counter, Prefix
  <2>2. IsFiniteSet(Owed(p)) /\ Cardinality(Owed(p)) \in Nat
    BY BusyFinite DEF CountInv
  <2>3. Owed(p)' = Owed(p) \ {t}
    BY <1>1 DEF Owed, Moves
  <2>4. Success(p) \in K <=> t \in Owed(p)
    <3>1. req[t].raw \in Prefix
      BY DEF TypeInv, Request, Prefix
    <3> QED
      BY <1>1, <3>1, KindSuccess DEF Owed, K
  <2>5. Cardinality(Owed(p)') =
          IF t \in Owed(p) THEN Cardinality(Owed(p)) - 1 ELSE Cardinality(Owed(p))
    BY <2>2, <2>3, FS_RemoveElement
  <2>6. stats'[Success(p)] = IF t \in Owed(p) THEN stats[Success(p)] + 1 ELSE stats[Success(p)]
    BY <1>3, <2>1, <2>4
  <2> QED
    BY <1>1, <2>1, <2>2, <2>5, <2>6 DEF CountInv
<1> QED
  BY <1>2, <1>10, <1>11 DEF CountInv

LEMMA CountStep ==
  TypeInv /\ AnswerType /\ AnswerType' /\ CountInv /\ [Next]_vars => CountInv'
<1> SUFFICES ASSUME TypeInv, AnswerType, AnswerType', CountInv, [Next]_vars
             PROVE  CountInv'
  OBVIOUS
<1>1. ASSUME NEW t \in Thread, Finish(t)
      PROVE  Moves(t) /\ pc'[t] = "idle"
  BY <1>1 DEF Finish, Goto, TypeInv, AnswerType, Moves
<1>2. ASSUME NEW t \in Thread, NEW n, Answer(t, n), req' = req
      PROVE  Moves(t) /\ pc'[t] = "total" /\ code'[t] = n
  BY <1>2 DEF Answer, Goto, TypeInv, AnswerType, Moves
<1>3. ASSUME NEW t \in Thread, NEW l, Goto(t, l), UNCHANGED <<req, code>>
      PROVE  Moves(t) /\ pc'[t] = l
  BY <1>3 DEF Goto, TypeInv, Moves
\* An answer other than 200.
<1>4. ASSUME NEW t \in Thread, NEW n, Answer(t, n), UNCHANGED <<req, stats, visits>>,
             n # 200
      PROVE  CountInv'
  BY <1>2, <1>4, QuietStep
<1>5. ASSUME NEW c \in {"tcpOK", "tcpNO"}, Bump(c)
      PROVE  \A d \in Counter \ {"tcpOK", "tcpNO"} : stats'[d] = stats[d]
  BY <1>5 DEF Bump, AnswerType
<1>6. ASSUME NEW t \in Thread, Finish(t), visits' = visits,
             stats' = stats \/ \E c \in {"tcpOK", "tcpNO"} : Bump(c)
      PROVE  CountInv'
  <2>1. \A d \in Counter \ {"tcpOK", "tcpNO"} : stats'[d] = stats[d]
    BY <1>5, <1>6
  <2> QED
    BY <1>1, <1>6, <2>1, QuietStep
<1>7. ASSUME NEW t \in Thread, NEW n, Refuse(t, n), visits' = visits, n # 200
      PROVE  CountInv'
  BY <1>4, <1>6, <1>7 DEF Refuse
<1>8. ASSUME NEW t \in Thread, Accept(t), visits' = visits PROVE CountInv'
  <2>1. Moves(t) /\ pc'[t] = "proxy"
    BY <1>3, <1>8 DEF Accept
  <2>2. \A d \in Counter \ {"tcpOK", "tcpNO"} : stats'[d] = stats[d]
    BY <1>5, <1>8 DEF Accept
  <2> QED
    BY <1>8, <2>1, <2>2, QuietStep
<1>9. ASSUME NEW t \in Thread, NEW q \in Request, Arrive(t, q) PROVE CountInv'
  <2>1. Moves(t) /\ pc'[t] \in {"mode", "limit"}
    BY <1>9 DEF Arrive, Goto, TypeInv, Moves
  <2> QED
    BY <1>9, <2>1, QuietStep DEF Arrive
<1>10. ASSUME NEW t \in Thread, Succeed(t), UNCHANGED <<req, stats>>,
              pc[t] \notin {"total", "kind"}
       PROVE  CountInv'
  <2>1. Moves(t) /\ pc'[t] = "total"
    BY <1>2, <1>10 DEF Succeed
  <2>2. visits' = [visits EXCEPT ![req'[t].raw] = @ + 1]
    BY <1>10 DEF Succeed
  <2> QED
    BY <1>10, <2>1, <2>2, VisitStep
<1>11. ASSUME NEW t \in Thread, RateOK(t) PROVE CountInv'
  <2>1. Moves(t) /\ pc'[t] = "mode"
    BY <1>3, <1>11 DEF RateOK
  <2> QED
    BY <1>11, <2>1, QuietStep DEF RateOK
<1>12. ASSUME NEW t \in Thread, ReadMode(t) PROVE CountInv'
  <2>1. Moves(t) /\ pc'[t] \in {"proxy", "check"}
    BY <1>3, <1>12 DEF ReadMode
  <2> QED
    BY <1>12, <2>1, QuietStep DEF ReadMode
<1>13. ASSUME NEW t \in Thread, RateLimited(t) \/ Health(t) \/ Admin(t) \/ Toggle(t)
       PROVE  CountInv'
  BY <1>4, <1>10, <1>13 DEF RateLimited, Health, Admin, Toggle
<1>14. ASSUME NEW t \in Thread, ProxyHTTP(t) PROVE CountInv'
  BY <1>4, <1>10, <1>14 DEF ProxyHTTP
<1>15. ASSUME NEW t \in Thread, CheckRoom(t) PROVE CountInv'
  BY <1>7, <1>8, <1>15 DEF CheckRoom
<1>16. ASSUME NEW t \in Thread, BurnLink(t) PROVE CountInv'
  BY <1>8, <1>16 DEF BurnLink
<1>17. ASSUME NEW t \in Thread, RefuseLink(t) \/ NoRoute(t) PROVE CountInv'
  BY <1>7, <1>17 DEF RefuseLink, NoRoute
<1>18. ASSUME NEW t \in Thread, HandshakeFails(t) \/ ProxyAborts(t) \/ Dial(t)
       PROVE  CountInv'
  BY <1>6, <1>18 DEF HandshakeFails, ProxyAborts, Dial
<1>19. CASE Restart
  <2>1. /\ \A t \in Thread : pc'[t] = "idle"
        /\ stats' = NoCount /\ visits' = NoVisit
    BY <1>19 DEF Restart
  <2>2. Busy' = {} /\ AtKind' = {} /\ \A p : Owed(p)' = {}
    BY <2>1 DEF Busy, AtKind, Owed
  <2>3. KindSum' = 0 /\ stats'["total"] = 0
    BY <2>1 DEF KindSum, NoCount, Counter
  <2>4. \A p \in {"t", "r", "open"} : stats'[Success(p)] = 0 /\ visits'[p] = 0
    BY <2>1 DEF Success, NoCount, NoVisit, Counter, Prefix
  <2> QED
    BY <2>2, <2>3, <2>4, FS_EmptySet DEF CountInv
<1>20. CASE UNCHANGED vars
  BY <1>20 DEF vars, CountInv, Busy, AtKind, Owed, KindSum
<1> QED
  BY <1>9, <1>11, <1>12, <1>13, <1>14, <1>15, <1>16, <1>17, <1>18,
     <1>19, <1>20, TotalStep, KindStep
  DEF Next

\* The kinds never add up to more than the total, and each success is no more than
\* the answers of 200 to paths with its prefix, whatever requests, aborted answers and
\* restarts come between the steps of withStats.
THEOREM CountersCorrect == Spec => []CountersHonest
<1> DEFINE Inv == TypeInv /\ AnswerType /\ CountInv
<1>1. Init => Inv
  <2> SUFFICES ASSUME Init PROVE Inv
    OBVIOUS
  <2>1. AnswerType
    BY DEF Init, AnswerType, NoCount, NoVisit
  <2>2. Busy = {} /\ AtKind = {} /\ \A p : Owed(p) = {}
    BY DEF Init, Busy, AtKind, Owed
  <2>3. KindSum = 0 /\ stats["total"] = 0
    BY DEF Init, KindSum, NoCount, Counter
  <2>4. \A p \in {"t", "r", "open"} : stats[Success(p)] = 0 /\ visits[p] = 0
    BY DEF Init, Success, NoCount, NoVisit, Counter, Prefix
  <2>5. CountInv
    BY <2>2, <2>3, <2>4, FS_EmptySet DEF CountInv
  <2> QED
    BY <2>1, <2>5, TypeInit
<1>2. Inv /\ [Next]_vars => Inv'
  BY TypeStep, AnswerTypeStep, CountStep
<1>3. Inv => CountersHonest
  <2> SUFFICES ASSUME Inv PROVE CountersHonest
    OBVIOUS
  <2>1. Cardinality(AtKind) \in Nat /\ \A p : Cardinality(Owed(p)) \in Nat
    BY BusyFinite DEF CountInv
  <2>2. KindSum \in Nat /\ stats["total"] \in Nat
    BY DEF AnswerType, KindSum, Counter
  <2>3. KindSum <= stats["total"]
    BY <2>1, <2>2 DEF CountInv
  <2>4. ASSUME NEW p \in {"t", "r", "open"} PROVE stats[Success(p)] <= visits[p]
    <3>1. stats[Success(p)] \in Nat /\ visits[p] \in Nat
      BY DEF AnswerType, Success, Counter, Prefix
    <3> QED
      BY <2>1, <3>1 DEF CountInv
  <2> QED
    BY <2>3, <2>4 DEF CountersHonest, KindSum, Success
<1> QED
  BY <1>1, <1>2, <1>3, PTL DEF Spec
==============================================================================
