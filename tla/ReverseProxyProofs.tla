-------------------------- MODULE ReverseProxyProofs --------------------------
(* Proofs about ReverseProxy: its types, what headers tell the backend, and  *)
(* that withStats counts what the visitor got, for any goroutines.           *)
EXTENDS ReverseProxy, TLAPS

Place == {"none", "director", "hop", "trip", "sending", "waiting", "body", "count"}

\* What the Director has set, and no later step takes away.
Named(h, told) ==
  /\ "X-Sealed-Name" \in h /\ "own name" \notin h
  /\ "X-Sealed-Visitor" \in h <=> told
  /\ told => "own visitor" \notin h

\* The headers, by the step they have reached.
HeadersOf(t) ==
  /\ pc[t] \in {"none", "director"} => "X-Sealed-Visitor" \notin hdr[t]
  /\ pc[t] \in {"hop", "trip", "sending", "waiting", "body"} => Named(hdr[t], forwardIP)
  /\ pc[t] = "hop" => "connection" \notin hdr[t]
  /\ pc[t] \in {"sending", "waiting", "body"} => "address" \notin hdr[t]

HeaderInv ==
  /\ forwardIP \in BOOLEAN
  /\ pc \in [Thread -> Place]
  /\ hdr \in [Thread -> SUBSET Header]
  /\ \A t \in Thread : HeadersOf(t)

LEMMA HeaderInit == Init => HeaderInv
BY DEF Init, HeaderInv, HeadersOf, Place

LEMMA HeaderStep == HeaderInv /\ [Next]_vars => HeaderInv'
<1> SUFFICES ASSUME HeaderInv, [Next]_vars PROVE HeaderInv'
  OBVIOUS
\* One request moves on.
<1>1. ASSUME NEW t \in Thread, NEW l \in Place, NEW h \in SUBSET Header,
             Goto(t, l), Headers(t, h),
             l \in {"none", "director"} => "X-Sealed-Visitor" \notin h,
             UNCHANGED forwardIP,
             l \in {"hop", "trip", "sending", "waiting", "body"} => Named(h, forwardIP),
             l = "hop" => "connection" \notin h,
             l \in {"sending", "waiting", "body"} => "address" \notin h
      PROVE  HeaderInv'
  <2>1. /\ pc' \in [Thread -> Place] /\ hdr' \in [Thread -> SUBSET Header]
        /\ forwardIP' \in BOOLEAN
    BY <1>1 DEF Goto, Headers, HeaderInv
  <2>2. ASSUME NEW u \in Thread, u # t PROVE HeadersOf(u)'
    BY <1>1, <2>2 DEF Goto, Headers, HeaderInv, HeadersOf
  <2>3. HeadersOf(t)'
    <3>1. pc'[t] = l /\ hdr'[t] = h
      BY <1>1 DEF Goto, Headers, HeaderInv
    <3> QED
      BY <1>1, <3>1 DEF HeadersOf
  <2> QED
    BY <2>1, <2>2, <2>3 DEF HeaderInv
<1>2. \A t \in Thread : hdr[t] \in SUBSET Header /\ HeadersOf(t)
  BY DEF HeaderInv
<1>3. \A t \in Thread : UNCHANGED hdr => Headers(t, hdr[t])
  BY DEF Headers, HeaderInv
<1>4. ASSUME NEW t \in Thread, Arrive(t) PROVE HeaderInv'
  <2>1. PICK h \in SUBSET FromVisitor : Headers(t, h)
    BY <1>4 DEF Arrive
  <2>2. h \in SUBSET Header /\ "X-Sealed-Visitor" \notin h
    BY DEF FromVisitor, Header
  <2> QED
    BY <1>1, <1>4, <2>1, <2>2 DEF Arrive, Place
<1>5. ASSUME NEW t \in Thread, Director(t) PROVE HeaderInv'
  <2> DEFINE named == Set(hdr[t], "own name", "X-Sealed-Name")
             told == IF forwardIP THEN Set(named, "own visitor", "X-Sealed-Visitor") ELSE named
             h == told \ StripReq
  <2>1. Headers(t, h) /\ Goto(t, "hop") /\ pc[t] = "director" /\ UNCHANGED forwardIP
    BY <1>5 DEF Director
  <2>2. named \in SUBSET Header /\ told \in SUBSET Header
    BY <1>2 DEF Header, Set
  <2>3. "X-Sealed-Name" \in named /\ "own name" \notin named /\ "X-Sealed-Visitor" \notin named
    BY <1>2, <2>1 DEF HeadersOf, Set
  <2>4. Named(told, forwardIP)
    BY <2>3 DEF Named, Set
  <2>5. h \in SUBSET Header /\ Named(h, forwardIP) /\ "connection" \notin h
    BY <2>2, <2>4 DEF Named, StripReq
  <2> HIDE DEF h
  <2> QED
    BY <1>1, <2>1, <2>5 DEF Place
<1>6. ASSUME NEW t \in Thread, HopByHop(t) PROVE HeaderInv'
  <2> DEFINE upgrade == {"connection", "upgrade"}
             again == IF upgrade \subseteq hdr[t] THEN upgrade ELSE {}
             kept(named) == ((hdr[t] \ (named \union upgrade)) \union again) \union {"address"}
  <2>1. "connection" \notin hdr[t] /\ pc[t] = "hop"
    BY <1>2, <1>6 DEF HopByHop, HeadersOf
  <2>2. Headers(t, kept({})) /\ Goto(t, "trip") /\ UNCHANGED forwardIP
    BY <1>6, <2>1 DEF HopByHop
  <2>3. kept({}) \in SUBSET Header
    BY <1>2 DEF Header, FromVisitor
  <2>4. Named(kept({}), forwardIP)
    BY <1>2, <2>1 DEF HeadersOf, Named
  <2> HIDE DEF kept
  <2> QED
    BY <1>1, <2>1, <2>2, <2>3, <2>4 DEF Place
<1>7. ASSUME NEW t \in Thread, RoundTrip(t) PROVE HeaderInv'
  <2> DEFINE h == hdr[t] \ StripReq
  <2>1. Headers(t, h) /\ Goto(t, "sending") /\ pc[t] = "trip" /\ UNCHANGED forwardIP
    BY <1>7 DEF RoundTrip, Strip
  <2>2. h \in SUBSET Header /\ "address" \notin h
    BY <1>2 DEF StripReq
  <2>3. Named(h, forwardIP)
    BY <1>2, <2>1 DEF HeadersOf, Named, StripReq
  <2> HIDE DEF h
  <2> QED
    BY <1>1, <2>1, <2>2, <2>3 DEF Place
<1>8. ASSUME NEW t \in Thread, Sent(t) PROVE HeaderInv'
  <2>1. Goto(t, "waiting") /\ pc[t] = "sending" /\ Headers(t, hdr[t]) /\ UNCHANGED forwardIP
    BY <1>3, <1>8 DEF Sent
  <2> QED
    BY <1>1, <1>2, <2>1 DEF HeadersOf, Place
<1>9. ASSUME NEW t \in Thread, Answer(t) PROVE HeaderInv'
  <2>1. /\ Goto(t, "body") /\ pc[t] \in {"sending", "waiting"}
        /\ Headers(t, hdr[t]) /\ UNCHANGED forwardIP
    BY <1>3, <1>9 DEF Answer
  <2> QED
    BY <1>1, <1>2, <2>1 DEF HeadersOf, Place
<1>10. ASSUME NEW t \in Thread, Fails(t) \/ BodyEnds(t) PROVE HeaderInv'
  <2>1. Goto(t, "count") /\ Headers(t, hdr[t]) /\ UNCHANGED forwardIP
    BY <1>3, <1>10 DEF Fails, BodyEnds, answer
  <2> QED
    BY <1>1, <1>2, <2>1 DEF Place
<1>11. ASSUME NEW t \in Thread, Aborts(t) \/ Count(t) PROVE HeaderInv'
  <2>1. Goto(t, "none") /\ Headers(t, {}) /\ UNCHANGED forwardIP
    BY <1>11 DEF Aborts, Count, Forget
  <2> QED
    BY <1>1, <2>1 DEF Place
<1>12. CASE (\E t \in Thread : Inform(t)) \/ IdleEnds \/ UNCHANGED vars
  <2>1. UNCHANGED <<forwardIP, pc, hdr>>
    BY <1>12 DEF Inform, IdleEnds, vars
  <2> QED
    BY <2>1 DEF HeaderInv, HeadersOf
<1> QED
  BY <1>4, <1>5, <1>6, <1>7, <1>8, <1>9, <1>10, <1>11, <1>12 DEF Next
------------------------------------------------------------------------------
Code == {0, 103, 200, 302, 502}
Shown == {0, 200, 302, 502}

\* What the recorder has seen and the visitor been shown, by the step reached.
AnswerOf(t) ==
  /\ pc[t] \in {"none", "director", "hop", "trip"} => t \notin informed /\ rec[t] = 0
  /\ pc[t] \in {"sending", "waiting"} /\ t \notin informed => rec[t] = 0
  /\ t \in informed => rec[t] = 103
  /\ pc[t] \in {"body", "count"} => shown[t] # 0
  /\ pc[t] \in {"body", "count"} /\ t \notin informed => rec[t] = shown[t]

AnswerInv ==
  /\ pc \in [Thread -> Place]
  /\ informed \subseteq Thread
  /\ rec \in [Thread -> Code]
  /\ shown \in [Thread -> Shown]
  /\ \A t \in Thread : AnswerOf(t)

LEMMA AnswerInit == Init => AnswerInv
BY DEF Init, AnswerInv, AnswerOf, Place, Code, Shown

\* The request t goes to l, informed, recorded and shown like this.
Moves(t, l, i, r, s) ==
  /\ pc' = [pc EXCEPT ![t] = l]
  /\ informed' = i /\ i \ {t} = informed \ {t}
  /\ rec' = [rec EXCEPT ![t] = r]
  /\ shown' = [shown EXCEPT ![t] = s]

LEMMA AnswerStep == AnswerInv /\ [Next]_vars => AnswerInv'
<1> SUFFICES ASSUME AnswerInv, [Next]_vars PROVE AnswerInv'
  OBVIOUS
<1>1. ASSUME NEW t \in Thread, NEW l \in Place, NEW i \in SUBSET Thread, NEW r \in Code,
             NEW s \in Shown, Moves(t, l, i, r, s),
             l \in {"none", "director", "hop", "trip"} => t \notin i /\ r = 0,
             l \in {"sending", "waiting"} /\ t \notin i => r = 0,
             t \in i => r = 103,
             l \in {"body", "count"} => s # 0,
             l \in {"body", "count"} /\ t \notin i => r = s
      PROVE  AnswerInv'
  <2>1. /\ pc' \in [Thread -> Place] /\ informed' \subseteq Thread
        /\ rec' \in [Thread -> Code] /\ shown' \in [Thread -> Shown]
    BY <1>1 DEF AnswerInv, Moves
  <2>2. ASSUME NEW u \in Thread, u # t PROVE AnswerOf(u)'
    <3>1. /\ pc'[u] = pc[u] /\ (u \in informed' <=> u \in informed) /\ rec'[u] = rec[u]
          /\ shown'[u] = shown[u]
      BY <1>1, <2>2 DEF AnswerInv, Moves
    <3>2. AnswerOf(u)
      BY DEF AnswerInv
    <3> QED
      BY <3>1, <3>2 DEF AnswerOf
  <2>3. AnswerOf(t)'
    <3>1. /\ pc'[t] = l /\ informed' = i /\ rec'[t] = r /\ shown'[t] = s
      BY <1>1 DEF AnswerInv, Moves
    <3> QED
      BY <1>1, <3>1 DEF AnswerOf
  <2> QED
    BY <2>1, <2>2, <2>3 DEF AnswerInv
<1>2. ASSUME NEW t \in Thread
      PROVE  /\ informed \in SUBSET Thread /\ rec[t] \in Code /\ shown[t] \in Shown
             /\ AnswerOf(t)
  BY DEF AnswerInv, AnswerOf
<1>3. ASSUME NEW t \in Thread
      PROVE  /\ UNCHANGED pc => pc' = [pc EXCEPT ![t] = pc[t]]
             /\ UNCHANGED rec => rec' = [rec EXCEPT ![t] = rec[t]]
             /\ UNCHANGED shown => shown' = [shown EXCEPT ![t] = shown[t]]
  BY DEF AnswerInv
\* The recorder keeps the first code.
<1>4. ASSUME NEW t \in Thread, NEW c \in Shown \ {0}, WriteHeader(t, c)
      PROVE  /\ rec' = [rec EXCEPT ![t] = IF rec[t] = 0 THEN c ELSE rec[t]]
             /\ (IF rec[t] = 0 THEN c ELSE rec[t]) \in Code
  BY <1>2, <1>4 DEF WriteHeader, Code, Shown
\* Before the answer nothing is recorded but an answer of 1xx.
<1>5. ASSUME NEW t \in Thread, NEW l \in {"director", "hop", "trip", "sending", "waiting"},
             Goto(t, l), UNCHANGED answer,
             pc[t] \in {"none", "director", "hop", "trip"} \/ (pc[t] = "sending" /\ l = "waiting")
      PROVE  AnswerInv'
  <2>1. l \in Place
    BY DEF Place
  <2>2. Moves(t, l, informed, rec[t], shown[t])
    BY <1>3, <1>5 DEF Goto, answer, Moves
  <2> QED
    BY <1>1, <1>2, <1>5, <2>1, <2>2 DEF AnswerOf
<1>6. ASSUME NEW t \in Thread,
             Arrive(t) \/ Director(t) \/ HopByHop(t) \/ RoundTrip(t) \/ Sent(t)
      PROVE  AnswerInv'
  BY <1>5, <1>6 DEF Arrive, Director, HopByHop, RoundTrip, Sent
<1>7. ASSUME NEW t \in Thread, Inform(t) PROVE AnswerInv'
  <2>1. /\ pc[t] \in {"sending", "waiting"} /\ t \notin informed
        /\ informed' = informed \union {t}
        /\ UNCHANGED <<pc, shown>>
    BY <1>2, <1>7 DEF Inform
  <2>2. rec' = [rec EXCEPT ![t] = 103]
    BY <1>2, <1>7, <2>1 DEF Inform, WriteHeader, AnswerOf
  <2>3. pc[t] \in Place /\ 103 \in Code
    BY <2>1 DEF Place, Code
  <2>4. Moves(t, pc[t], informed \union {t}, 103, shown[t])
    BY <1>3, <2>1, <2>2 DEF Moves
  <2> QED
    BY <1>1, <1>2, <2>1, <2>3, <2>4
<1>8. ASSUME NEW t \in Thread, Fails(t) PROVE AnswerInv'
  <2> DEFINE r == IF rec[t] = 0 THEN 502 ELSE rec[t]
  <2>1. /\ pc[t] \in {"trip", "sending", "waiting"}
        /\ pc' = [pc EXCEPT ![t] = "count"]
        /\ shown' = [shown EXCEPT ![t] = 502]
        /\ UNCHANGED informed
        /\ WriteHeader(t, 502)
    BY <1>8 DEF Fails, ErrorHandler, Goto
  <2>2. 502 \in Shown \ {0} /\ "count" \in Place
    BY DEF Shown, Place
  <2>3. rec' = [rec EXCEPT ![t] = r] /\ r \in Code
    BY <1>4, <2>1, <2>2
  <2>4. (t \in informed => r = 103) /\ (t \notin informed => r = 502)
    BY <1>2, <2>1 DEF AnswerOf
  <2>5. Moves(t, "count", informed, r, 502)
    BY <1>3, <2>1, <2>3 DEF Moves
  <2> HIDE DEF r
  <2> QED
    BY <1>1, <1>2, <2>2, <2>3, <2>4, <2>5
<1>9. ASSUME NEW t \in Thread, Answer(t) PROVE AnswerInv'
  <2>1. PICK c \in {200, 302} : shown' = [shown EXCEPT ![t] = c] /\ WriteHeader(t, c)
    BY <1>9 DEF Answer
  <2> DEFINE r == IF rec[t] = 0 THEN c ELSE rec[t]
  <2>3. /\ pc[t] \in {"sending", "waiting"}
        /\ pc' = [pc EXCEPT ![t] = "body"]
        /\ UNCHANGED informed
    BY <1>9 DEF Answer, Goto
  <2>4. c \in Shown \ {0} /\ "body" \in Place
    BY DEF Shown, Place
  <2>5. rec' = [rec EXCEPT ![t] = r] /\ r \in Code
    BY <1>4, <2>1, <2>4
  <2>6. (t \in informed => r = 103) /\ (t \notin informed => r = c)
    BY <1>2, <2>3 DEF AnswerOf
  <2>7. Moves(t, "body", informed, r, c)
    BY <2>1, <2>3, <2>5 DEF Moves
  <2> HIDE DEF r
  <2> QED
    BY <1>1, <1>2, <2>4, <2>5, <2>6, <2>7
<1>10. ASSUME NEW t \in Thread, BodyEnds(t) PROVE AnswerInv'
  <2>1. /\ pc[t] = "body" /\ pc' = [pc EXCEPT ![t] = "count"]
        /\ UNCHANGED <<informed, rec, shown>>
    BY <1>10 DEF BodyEnds, Goto, answer
  <2>2. "count" \in Place
    BY DEF Place
  <2>3. /\ t \in informed => rec[t] = 103
        /\ shown[t] # 0
        /\ t \notin informed => rec[t] = shown[t]
    BY <1>2, <2>1 DEF AnswerOf
  <2>4. Moves(t, "count", informed, rec[t], shown[t])
    BY <1>3, <2>1 DEF Moves
  <2> QED
    BY <1>1, <1>2, <2>2, <2>3, <2>4
<1>11. ASSUME NEW t \in Thread, Aborts(t) \/ Count(t) PROVE AnswerInv'
  <2>1. "none" \in Place /\ 0 \in Code /\ 0 \in Shown
    BY DEF Place, Code, Shown
  <2>2. Forget(t)
    BY <1>11 DEF Aborts, Count
  <2>3. Moves(t, "none", informed \ {t}, 0, 0)
    BY <2>2 DEF Forget, Goto, Moves
  <2> QED
    BY <1>1, <1>2, <2>1, <2>3
<1>12. CASE IdleEnds \/ UNCHANGED vars
  <2>1. UNCHANGED <<pc, informed, rec, shown>>
    BY <1>12 DEF IdleEnds, vars, answer
  <2> QED
    BY <2>1 DEF AnswerInv, AnswerOf
<1> QED
  BY <1>6, <1>7, <1>8, <1>9, <1>10, <1>11, <1>12 DEF Next

\* Whatever headers visitors send, the backend gets none that stripReq lists, a name set
\* by the guard alone, and an address set by the guard if and only if SEAL_FORWARD_IP is on.
THEOREM DiscreetCorrect == Spec => []Discreet
<1>1. HeaderInv => Discreet
  BY DEF HeaderInv, HeadersOf, Named, Discreet
<1> QED
  BY <1>1, HeaderInit, HeaderStep, PTL DEF Spec

\* withStats counts a success only when the visitor got one, and every answer by its
\* own code unless an answer of 1xx went before it.
THEOREM CountedCorrect == Spec => []CountedRight
<1>1. AnswerInv => CountedRight
  <2> SUFFICES ASSUME AnswerInv, NEW t \in Thread, pc[t] = "count"
               PROVE  /\ rec[t] = 200 => shown[t] = 200
                      /\ t \notin informed => rec[t] = shown[t]
    BY DEF CountedRight
  <2>1. AnswerOf(t)
    BY DEF AnswerInv
  <2> QED
    BY <2>1 DEF AnswerOf
<1> QED
  BY <1>1, AnswerInit, AnswerStep, PTL DEF Spec

\* The types of ReverseProxy; in particular withStats finds a code when it counts.
THEOREM TypeCorrect == Spec => []TypeOK
<1> DEFINE Numbers == idle \in Nat /\ arrived \in Nat
<1>1. Init => Numbers
  BY DEF Init
<1>2. Numbers /\ [Next]_vars => Numbers'
  <2> SUFFICES ASSUME Numbers, [Next]_vars PROVE Numbers'
    OBVIOUS
  <2> USE DEF Forget, answer
  <2>1. ASSUME NEW t \in Thread, Arrive(t) \/ BodyEnds(t) PROVE Numbers'
    BY <2>1 DEF Arrive, BodyEnds
  <2>2. ASSUME NEW t \in Thread, ~(Arrive(t) \/ BodyEnds(t)),
               \/ Director(t) \/ HopByHop(t) \/ RoundTrip(t) \/ Sent(t) \/ Inform(t)
               \/ Fails(t) \/ Answer(t) \/ Aborts(t) \/ Count(t)
        PROVE  Numbers'
    BY <2>2 DEF Director, HopByHop, RoundTrip, Sent, Inform, Fails, Answer, Aborts, Count
  <2>3. CASE IdleEnds
    BY <2>3 DEF IdleEnds
  <2>4. CASE UNCHANGED vars
    BY <2>4 DEF vars
  <2> QED
    BY <2>1, <2>2, <2>3, <2>4 DEF Next
<1>3. HeaderInv /\ AnswerInv /\ Numbers => TypeOK
  <2> SUFFICES ASSUME HeaderInv, AnswerInv, Numbers PROVE TypeOK
    OBVIOUS
  <2>1. ASSUME NEW t \in Thread, pc[t] \in {"body", "count"} PROVE rec[t] # 0
    <3>1. AnswerOf(t)
      BY DEF AnswerInv
    <3> QED
      BY <2>1, <3>1 DEF AnswerOf
  <2> QED
    BY <2>1 DEF HeaderInv, AnswerInv, Place, Code, Shown, TypeOK
<1> QED
  BY <1>1, <1>2, <1>3, HeaderInit, HeaderStep, AnswerInit, AnswerStep, PTL DEF Spec
==============================================================================
