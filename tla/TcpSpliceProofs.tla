--------------------------- MODULE TcpSpliceProofs ---------------------------
(* Proofs about TcpSplice: its types, that no session that runs is ended by  *)
(* the guard, and that each direction implements Pipe, for any number of     *)
(* items and any size of the client's socket.                                *)
EXTENDS TcpSplice, SequenceTheorems, TLAPS

(* The goroutines, the deadline and the sockets, whatever is in them.        *)
Control ==
  /\ mode \in {"open", "sealed"}
  /\ pc \in {"start", "line", "verify", "dial", "splice", "closed"}
  /\ up \in {"none", "copy", "end", "done"}
  /\ timer \in {"off", "on", "past"}
  /\ reply \in {"none", "403", "502"}
  /\ client \in {"open", "fin", "rst"}
  /\ back \in {"none", "open", "fin", "rst"}
  /\ gotEnd \in BOOLEAN /\ eof \in BOOLEAN
  /\ closed \in {"no", "fin", "rst"}

\* There is a backend from the dial on, and then no deadline any more.
Phases ==
  /\ up = "none" <=> back = "none"
  /\ pc \in {"start", "line", "verify", "dial"} => back = "none"
  /\ pc = "splice" => back # "none"
  /\ pc = "closed" <=> closed # "no"
  /\ back # "none" => timer = "off"

\* What has led to the end.
Ending ==
  /\ gotEnd => back # "none" /\ (pc = "closed" \/ up = "done")
  /\ eof => pc = "closed"
  /\ pc = "closed" =>
       IF back # "none"
         THEN gotEnd /\ (back \in {"fin", "rst"} \/ client = "rst")
         ELSE reply # "none" \/ timer = "past" \/ client # "open"

CtrlInv == Control /\ Phases /\ Ending

LEMMA CtrlInit == Init => CtrlInv
BY DEF Init, CtrlInv, Control, Phases, Ending

LEMMA CtrlStep == CtrlInv /\ [Next]_vars => CtrlInv'
<1> SUFFICES ASSUME CtrlInv, [Next]_vars PROVE CtrlInv'
  OBVIOUS
<1> USE DEF CtrlInv, Control, Phases, Ending, control, ends, upward, downward
<1>1. CASE Start
  BY <1>1 DEF Start
<1>2. CASE ReadLine \/ Verified
  BY <1>2 DEF ReadLine, Verified
<1>3. CASE LineFails
  BY <1>3 DEF LineFails, Close, Dead
<1>4. ASSUME NEW at \in {"verify", "dial"}, NEW text \in {"403", "502"}, Refuse(at, text)
      PROVE  CtrlInv'
  BY <1>4 DEF Refuse, Close, Dead
<1>5. CASE Dialled
  BY <1>5 DEF Dialled, Lift
<1>6. CASE DownCopy
  BY <1>6 DEF DownCopy
<1>7. CASE DownEnds
  BY <1>7 DEF DownEnds, Over, Close, Dead
<1>8. CASE UpCopy
  BY <1>8 DEF UpCopy
<1>9. CASE UpEnds
  BY <1>9 DEF UpEnds
<1>10. CASE CloseWrite
  BY <1>10 DEF CloseWrite
<1>11. CASE Deadline
  BY <1>11 DEF Deadline
<1>12. CASE ClientSends \/ BackendSends
  BY <1>12 DEF ClientSends, BackendSends
<1>13. CASE ClientSendsLate
  BY <1>13 DEF ClientSendsLate
<1>14. CASE ClientReads
  <2>1. UNCHANGED <<control, ends, upward, back>>
    BY <1>14 DEF ClientReads
  <2>2. CASE UNCHANGED eof
    BY <2>1, <2>2
  <2>3. CASE closed = "fin" /\ eof' = TRUE
    BY <2>1, <2>3
  <2> QED
    BY <1>14, <2>2, <2>3 DEF ClientReads
<1>15. ASSUME NEW how \in {"fin", "rst"}, ClientEnds(how) \/ BackendEnds(how)
       PROVE  CtrlInv'
  BY <1>15 DEF ClientEnds, BackendEnds
<1>16. CASE UNCHANGED vars
  BY <1>16 DEF vars
<1> QED
  BY <1>1, <1>2, <1>3, <1>4, <1>5, <1>6, <1>7, <1>8, <1>9, <1>10, <1>11, <1>12, <1>13,
     <1>14, <1>15, <1>16 DEF Next, Main, Upload, Peers

\* Once spliced, only the backend's end or a client that breaks off closes a
\* session; before, a client in time that waits is told why it is refused.
THEOREM NoSilentEndCorrect == Spec => []NoSilentEnd
<1>1. CtrlInv => NoSilentEnd
  BY DEF CtrlInv, Phases, Ending, NoSilentEnd
<1> QED
  BY <1>1, CtrlInit, CtrlStep, PTL DEF Spec
------------------------------------------------------------------------------
(* Items are numbered, so a queue is described by what it starts after.      *)

\* s holds the items k + 1, k + 2, ...
Run(s, k) == \A i \in 1..Len(s) : s[i] = k + i

LEMMA RunAppend ==
  ASSUME NEW s \in Seq(Item), NEW k \in Nat, Run(s, k), k + Len(s) < MaxItems,
         NEW x, x = k + Len(s) + 1
  PROVE  /\ x \in Item
         /\ Append(s, x) \in Seq(Item)
         /\ Len(Append(s, x)) = Len(s) + 1
         /\ Run(Append(s, x), k)
<1>1. Len(s) \in Nat
  BY LenProperties
<1>2. x \in Item
  BY <1>1, ConstantsAssumption DEF Item
<1>3. /\ Append(s, x) \in Seq(Item)
      /\ Len(Append(s, x)) = Len(s) + 1
      /\ \A i \in 1..Len(s) : Append(s, x)[i] = s[i]
      /\ Append(s, x)[Len(s) + 1] = x
  BY <1>2, AppendProperties
<1>4. Run(Append(s, x), k)
  <2> SUFFICES ASSUME NEW i \in 1..Len(s) + 1 PROVE Append(s, x)[i] = k + i
    BY <1>3 DEF Run
  <2>1. CASE i \in 1..Len(s)
    BY <2>1, <1>3 DEF Run
  <2>2. CASE i = Len(s) + 1
    BY <2>2, <1>3, <1>1
  <2> QED
    BY <2>1, <2>2, <1>1
<1> QED
  BY <1>2, <1>3, <1>4

LEMMA RunTail ==
  ASSUME NEW s \in Seq(Item), NEW k \in Nat, Run(s, k), s # <<>>
  PROVE  /\ Head(s) = k + 1
         /\ Head(s) \in Item
         /\ Tail(s) \in Seq(Item)
         /\ Len(s) > 0
         /\ Len(Tail(s)) = Len(s) - 1
         /\ Run(Tail(s), k + 1)
<1>1. Len(s) \in Nat /\ Len(s) > 0
  BY EmptySeq, LenProperties
<1>2. /\ Head(s) \in Item
      /\ Tail(s) \in Seq(Item)
      /\ Len(Tail(s)) = Len(s) - 1
      /\ \A i \in 1..Len(Tail(s)) : Tail(s)[i] = s[i + 1]
  BY HeadTailProperties
<1>3. Head(s) = s[1]
  OBVIOUS
<1>4. Head(s) = k + 1
  BY <1>1, <1>3 DEF Run
<1>5. ASSUME NEW i \in 1..Len(Tail(s)) PROVE Tail(s)[i] = k + 1 + i
  <2>1. Tail(s)[i] = s[i + 1] /\ i + 1 \in 1..Len(s)
    BY <1>1, <1>2
  <2> QED
    BY <2>1 DEF Run
<1> QED
  BY <1>1, <1>2, <1>4, <1>5 DEF Run

\* Two queues that hold the same items are the same.
LEMMA RunSame ==
  ASSUME NEW s \in Seq(Item), NEW t \in Seq(Item), NEW k \in Nat,
         Run(s, k), Run(t, k), Len(s) = Len(t)
  PROVE  s = t
BY SeqEqual DEF Run

LEMMA RunSub ==
  ASSUME NEW s \in Seq(Item), NEW k \in Nat, Run(s, k),
         NEW m \in Nat \ {0}, NEW n \in Nat, m <= n + 1, n <= Len(s),
         NEW j \in Nat, j = k + m - 1
  PROVE  /\ SubSeq(s, m, n) \in Seq(Item)
         /\ Len(SubSeq(s, m, n)) = n + 1 - m
         /\ Run(SubSeq(s, m, n), j)
<1>1. \A i \in m..n : s[i] \in Item
  BY ElementOfSeq, LenProperties
<1>2. /\ SubSeq(s, m, n) \in Seq(Item)
      /\ Len(SubSeq(s, m, n)) = IF m <= n THEN n - m + 1 ELSE 0
      /\ \A i \in 1..n - m + 1 : SubSeq(s, m, n)[i] = s[m + i - 1]
  BY <1>1, SubSeqProperties
<1>3. Len(SubSeq(s, m, n)) = n + 1 - m
  BY <1>2
<1>4. ASSUME NEW i \in 1..n + 1 - m PROVE SubSeq(s, m, n)[i] = j + i
  <2>1. m + i - 1 \in 1..Len(s)
    BY LenProperties
  <2> QED
    BY <1>2, <2>1 DEF Run
<1> QED
  BY <1>2, <1>3, <1>4 DEF Run
------------------------------------------------------------------------------
(* Client to backend.                                                        *)

\* The items that are not for the backend: the handshake line.
Skip == IF mode = "sealed" /\ sent # <<>> THEN 1 ELSE 0

UpTypes == {sent, sock, br, got} \subseteq Seq(Item)

\* Nothing is lost or reordered between the queues.
UpRuns ==
  /\ Run(sent, 0)
  /\ Run(got, Skip)
  /\ Run(br, Skip + Len(got))
  /\ Len(sock) <= Len(sent) /\ Run(sock, Len(sent) - Len(sock))

\* What came in is with the backend or waits for it, once the line is read.
UpWhole ==
  /\ pc \in {"start", "line"} => sock = sent /\ br = <<>> /\ got = <<>>
  /\ pc = "line" => mode = "sealed"
  /\ pc \in {"verify", "dial", "splice"} \/ back # "none" =>
       /\ mode = "sealed" => sent # <<>>
       /\ Skip + Len(got) + Len(br) + Len(sock) = Len(sent)

UpBroken == client = "rst" \/ back \in {"fin", "rst"}

\* The copying goroutine stops only after the last item.
UpDone ==
  up \in {"end", "done"} =>
    pc = "closed" \/ UpBroken \/ (br = <<>> /\ sock = <<>> /\ client # "open")

UpInv == UpTypes /\ UpRuns /\ UpWhole /\ UpDone

LEMMA UpInit == Init => UpInv
<1> SUFFICES ASSUME Init PROVE UpInv
  OBVIOUS
<1>1. sent = <<>> /\ sock = <<>> /\ br = <<>> /\ got = <<>>
  BY DEF Init
<1>2. <<>> \in Seq(Item) /\ Len(<<>>) = 0
  BY EmptySeq
<1>3. Skip = 0
  BY <1>1 DEF Skip
<1>4. \A k \in Nat : Run(<<>>, k)
  BY <1>2 DEF Run
<1> QED
  BY <1>1, <1>2, <1>3, <1>4 DEF Init, UpInv, UpTypes, UpRuns, UpWhole, UpDone

LEMMA UpStep == CtrlInv /\ UpInv /\ [Next]_vars => UpInv'
<1> SUFFICES ASSUME CtrlInv, UpInv, [Next]_vars PROVE UpInv'
  OBVIOUS
<1>a. sent \in Seq(Item) /\ sock \in Seq(Item) /\ br \in Seq(Item) /\ got \in Seq(Item)
  BY DEF UpInv, UpTypes
<1>b. UpRuns /\ UpWhole /\ UpDone
  BY DEF UpInv
<1>c. Control /\ Phases /\ Ending
  BY DEF CtrlInv
<1>0. /\ Len(sent) \in Nat /\ Len(sock) \in Nat /\ Len(br) \in Nat /\ Len(got) \in Nat
      /\ Len(<<>>) = 0
      /\ Skip \in {0, 1}
  BY <1>a, LenProperties, EmptySeq DEF Skip
\* A step that moves no item.
<1>1. ASSUME UNCHANGED <<mode, sent, sock, br, got>>,
             pc' \in {"start", "line"} => pc \in {"start", "line"},
             pc' = "line" => pc = "line" \/ mode = "sealed",
             pc' \in {"verify", "dial", "splice"} \/ back' # "none" =>
               \/ pc \in {"verify", "dial", "splice"} \/ back # "none"
               \/ pc = "start" /\ mode = "open",
             UpDone'
      PROVE  UpInv'
  <2>1. Skip' = Skip
    BY <1>1 DEF Skip
  <2>2. UpTypes'
    BY <1>1, <1>a DEF UpTypes
  <2>3. UpRuns'
    BY <1>1, <1>b, <2>1 DEF UpRuns, Run
  <2>4. pc = "start" /\ mode = "open" => Skip + Len(got) + Len(br) + Len(sock) = Len(sent)
    BY <1>0, <1>b DEF UpWhole, Skip
  <2>5. UpWhole'
    BY <1>1, <1>b, <2>1, <2>4 DEF UpWhole
  <2> QED
    BY <1>1, <2>2, <2>3, <2>5 DEF UpInv
<1>2. CASE Start
  <2>1. UpDone'
    BY <1>2, <1>b, <1>c DEF Start, UpDone, Phases, ends, upward, downward
  <2> QED
    BY <1>1, <1>2, <1>c, <2>1 DEF Start, Phases, Control, upward, downward
<1>3. CASE ReadLine
  <2>1. PICK n \in 1..Len(sock) : /\ br' = SubSeq(sock, 2, n)
                                  /\ sock' = SubSeq(sock, n + 1, Len(sock))
    BY <1>3 DEF ReadLine
  <2>2. /\ pc = "line" /\ pc' = "verify" /\ up = "none" /\ back = "none"
        /\ UNCHANGED <<mode, up, back, client, sent, got>>
    BY <1>3, <1>c DEF ReadLine, Phases, downward
  <2>3. mode = "sealed" /\ sock = sent /\ br = <<>> /\ got = <<>>
    BY <1>b, <2>2 DEF UpWhole
  <2>4. sent # <<>> /\ Skip = 1 /\ Skip' = 1
    BY <1>0, <2>1, <2>2, <2>3 DEF Skip
  <2>5. Run(sock, 0)
    BY <1>b, <2>3 DEF UpRuns
  <2>n. n \in Nat /\ n >= 1 /\ n <= Len(sock)
    BY <1>0, <2>1
  <2>6. br' \in Seq(Item) /\ Len(br') = n - 1 /\ Run(br', 1)
    <3>1. 2 <= n + 1 /\ 1 = 0 + 2 - 1 /\ n + 1 - 2 = n - 1
      BY <2>n
    <3> QED
      BY <1>a, <2>1, <2>5, <2>n, <3>1, RunSub
  <2>7. sock' \in Seq(Item) /\ Len(sock') = Len(sock) - n /\ Run(sock', n)
    <3>1. /\ n + 1 \in Nat \ {0} /\ n + 1 <= Len(sock) + 1 /\ n = 0 + (n + 1) - 1
          /\ Len(sock) + 1 - (n + 1) = Len(sock) - n
      BY <1>0, <2>n
    <3>2. /\ SubSeq(sock, n + 1, Len(sock)) \in Seq(Item)
          /\ Len(SubSeq(sock, n + 1, Len(sock))) = Len(sock) + 1 - (n + 1)
          /\ Run(SubSeq(sock, n + 1, Len(sock)), n)
      <4> DEFINE m == n + 1
      <4>1. m \in Nat \ {0} /\ m <= Len(sock) + 1 /\ n = 0 + m - 1
        BY <3>1
      <4> HIDE DEF m
      <4>2. /\ SubSeq(sock, m, Len(sock)) \in Seq(Item)
            /\ Len(SubSeq(sock, m, Len(sock))) = Len(sock) + 1 - m
            /\ Run(SubSeq(sock, m, Len(sock)), n)
        BY <1>0, <1>a, <2>5, <2>n, <4>1, RunSub
      <4> QED
        BY <4>2 DEF m
    <3> QED
      BY <2>1, <3>1, <3>2
  <2>8. UpTypes'
    BY <1>a, <2>2, <2>6, <2>7 DEF UpTypes
  <2>9. UpRuns'
    <3>1. Run(sent, 0)' /\ Run(got, Skip)'
      BY <1>b, <2>2, <2>3, <2>4 DEF UpRuns, Run
    <3>2. Run(br, Skip + Len(got))'
      <4>1. Skip' + Len(got') = 1
        BY <1>0, <2>2, <2>3, <2>4
      <4> QED
        BY <2>6, <4>1
    <3>3. (Len(sock) <= Len(sent) /\ Run(sock, Len(sent) - Len(sock)))'
      <4>1. Len(sent') - Len(sock') = n /\ Len(sock') <= Len(sent')
        BY <1>0, <2>n, <2>2, <2>3, <2>7
      <4> QED
        BY <2>7, <4>1
    <3> QED
      BY <3>1, <3>2, <3>3 DEF UpRuns
  <2>10. UpWhole'
    <3>1. Skip' + Len(got') + Len(br') + Len(sock') = Len(sent')
      BY <1>0, <2>n, <2>2, <2>3, <2>4, <2>6, <2>7
    <3> QED
      BY <2>2, <2>4, <3>1 DEF UpWhole
  <2>11. UpDone'
    BY <2>2 DEF UpDone
  <2> QED
    BY <2>8, <2>9, <2>10, <2>11 DEF UpInv
<1>4. CASE \/ LineFails \/ DownEnds
           \/ \E at \in {"verify", "dial"}, text \in {"403", "502"} : Refuse(at, text)
  <2>1. pc' = "closed" /\ UNCHANGED <<mode, up, upward, downward>>
    BY <1>4 DEF LineFails, DownEnds, Refuse, Close
  <2>2. UpDone'
    BY <2>1 DEF UpDone
  <2> QED
    BY <1>1, <2>1, <2>2 DEF upward, downward
<1>5. CASE Verified \/ Dialled
  <2>1. UpDone'
    BY <1>5, <1>b DEF Verified, Dialled, UpDone, UpBroken, upward, downward, ends
  <2> QED
    BY <1>1, <1>5, <2>1 DEF Verified, Dialled, upward, downward
<1>6. CASE UpCopy
  <2>1. up = "copy" /\ pc = "splice" /\ UNCHANGED <<mode, pc, up, sent, client, back>>
    BY <1>6 DEF UpCopy, control, downward
  <2>2. Skip' = Skip /\ UpDone'
    BY <2>1 DEF Skip, UpDone
  <2>3. Skip + Len(got) + Len(br) + Len(sock) = Len(sent)
    BY <1>b, <2>1 DEF UpWhole
  <2>4. Len(sent) <= MaxItems
    <3>1. CASE Len(sent) = 0
      BY <3>1, ConstantsAssumption
    <3>2. CASE Len(sent) # 0
      <4>1. sent[Len(sent)] = Len(sent)
        BY <1>0, <1>b, <3>2 DEF UpRuns, Run
      <4>2. sent[Len(sent)] \in Item
        BY <1>0, <1>a, <3>2, ElementOfSeq
      <4> QED
        BY <4>1, <4>2, ConstantsAssumption DEF Item
    <3> QED
      BY <3>1, <3>2
  <2>5. ASSUME got' \in Seq(Item), Len(got') = Len(got) + 1, Run(got', Skip),
               br' \in Seq(Item), Run(br', Skip + Len(got) + 1),
               sock' \in Seq(Item), Len(sock') <= Len(sock),
               Run(sock', Len(sent) - Len(sock')),
               Len(br') + Len(sock') + 1 = Len(br) + Len(sock)
        PROVE  UpInv'
    <3>1. UpTypes'
      BY <1>a, <2>1, <2>5 DEF UpTypes
    <3>2. (Len(sock) <= Len(sent))'
      BY <1>0, <1>b, <2>1, <2>5, LenProperties DEF UpRuns
    <3>3. Run(br, Skip + Len(got))'
      <4>1. Skip' + Len(got') = Skip + Len(got) + 1
        BY <1>0, <2>2, <2>5
      <4> QED
        BY <2>5, <4>1
    <3>4. UpRuns'
      BY <1>b, <2>1, <2>2, <2>5, <3>2, <3>3 DEF UpRuns
    <3>5. Len(br') \in Nat /\ Len(sock') \in Nat
      BY <2>5, LenProperties
    <3>6. Skip' + Len(got') + Len(br') + Len(sock') = Len(sent')
      <4>1. Skip' = Skip /\ Len(sent') = Len(sent)
        BY <2>1, <2>2
      <4>2. Len(got') = Len(got) + 1 /\ Len(br') + Len(sock') + 1 = Len(br) + Len(sock)
        BY <2>5
      <4> QED
        BY <1>0, <2>3, <3>5, <4>1, <4>2
    <3>7. UpWhole'
      BY <1>b, <2>1, <3>6 DEF UpWhole
    <3> QED
      BY <2>2, <3>1, <3>4, <3>7 DEF UpInv
  <2>6. CASE br # <<>> /\ got' = Append(got, Head(br)) /\ br' = Tail(br) /\ UNCHANGED sock
    <3>1. /\ Head(br) = Skip + Len(got) + 1
          /\ br' \in Seq(Item) /\ Len(br') = Len(br) - 1 /\ Len(br) > 0
          /\ Run(br', Skip + Len(got) + 1)
      BY <1>0, <1>a, <1>b, <2>6, RunTail DEF UpRuns
    <3>2. Skip + Len(got) < MaxItems
      BY <1>0, <2>3, <2>4, <3>1, ConstantsAssumption
    <3>3. /\ got' \in Seq(Item) /\ Len(got') = Len(got) + 1
          /\ Run(got', Skip)
      BY <1>0, <1>a, <1>b, <2>6, <3>1, <3>2, RunAppend DEF UpRuns
    <3> QED
      BY <1>0, <1>a, <1>b, <2>5, <2>6, <3>1, <3>3 DEF UpRuns
  <2>7. CASE /\ br = <<>> /\ sock # <<>>
             /\ got' = Append(got, Head(sock)) /\ sock' = Tail(sock) /\ UNCHANGED br
    <3>1. Len(sent) - Len(sock) = Skip + Len(got)
      BY <1>0, <2>3, <2>7
    <3>2. Run(sock, Skip + Len(got))
      BY <1>b, <3>1 DEF UpRuns
    <3>3. /\ Head(sock) = Skip + Len(got) + 1
          /\ sock' \in Seq(Item) /\ Len(sock') = Len(sock) - 1 /\ Len(sock) > 0
          /\ Run(sock', Skip + Len(got) + 1)
      BY <1>0, <1>a, <2>7, <3>2, RunTail
    <3>4. Skip + Len(got) < MaxItems
      BY <1>0, <2>3, <2>4, <3>3, ConstantsAssumption
    <3>5. /\ got' \in Seq(Item) /\ Len(got') = Len(got) + 1
          /\ Run(got', Skip)
      BY <1>0, <1>a, <1>b, <2>7, <3>3, <3>4, RunAppend DEF UpRuns
    <3>6. Len(sent) - Len(sock') = Skip + Len(got) + 1
      BY <1>0, <3>1, <3>3
    <3>7. Run(br', Skip + Len(got) + 1)
      BY <1>0, <2>7 DEF Run
    <3>8. Run(sock', Len(sent) - Len(sock'))
      BY <3>3, <3>6
    <3>9. Len(sock') <= Len(sock) /\ Len(br') + Len(sock') + 1 = Len(br) + Len(sock)
      BY <1>0, <2>7, <3>3
    <3> QED
      BY <1>a, <2>5, <2>7, <3>3, <3>5, <3>7, <3>8, <3>9
  <2> QED
    BY <1>6, <2>6, <2>7 DEF UpCopy, Forward
<1>7. CASE UpEnds
  <2>1. UpDone'
    BY <1>7, <1>b, <1>c DEF UpEnds, UpDone, UpBroken, Dead, Phases, upward, downward
  <2> QED
    BY <1>1, <1>7, <2>1 DEF UpEnds, upward, downward
<1>8. CASE CloseWrite
  <2>1. UpDone'
    BY <1>8, <1>b DEF CloseWrite, UpDone, UpBroken, upward, downward
  <2> QED
    BY <1>1, <1>8, <2>1 DEF CloseWrite, upward, downward
<1>9. CASE Deadline \/ ClientSendsLate \/ DownCopy \/ ClientReads \/ BackendSends \/ UNCHANGED vars
  <2>1. UNCHANGED <<pc, up, back, upward, mode>>
    BY <1>9 DEF Deadline, ClientSendsLate, DownCopy, ClientReads, BackendSends, vars,
                control, ends, upward, downward
  <2>2. UpDone'
    BY <1>b, <2>1 DEF UpDone, UpBroken, upward
  <2> QED
    BY <1>1, <2>1, <2>2 DEF upward
<1>10. ASSUME NEW how \in {"fin", "rst"}, ClientEnds(how) \/ BackendEnds(how)
       PROVE  UpInv'
  <2>1. UNCHANGED <<mode, pc, up, sent, sock, br, got>>
    BY <1>10 DEF ClientEnds, BackendEnds, control, upward, ends
  <2>2. back' # "none" => back # "none"
    BY <1>10 DEF ClientEnds, BackendEnds, downward
  <2>3. UpDone'
    BY <1>10, <1>b, <2>1 DEF ClientEnds, BackendEnds, UpDone, UpBroken, upward, downward
  <2> QED
    BY <1>1, <2>1, <2>2, <2>3
<1>11. CASE ClientSends
  <2>1. /\ client = "open" /\ closed = "no" /\ Len(sent) < MaxItems
        /\ sent' = Append(sent, Len(sent) + 1)
        /\ sock' = Append(sock, Len(sent) + 1)
        /\ UNCHANGED <<mode, pc, up, back, client, br, got>>
    BY <1>11 DEF ClientSends, control, downward
  <2>2. pc # "closed"
    BY <1>c, <2>1 DEF Phases
  <2>3. sent' \in Seq(Item) /\ Len(sent') = Len(sent) + 1 /\ Run(sent', 0)
    BY <1>0, <1>a, <1>b, <2>1, RunAppend DEF UpRuns
  <2>4. /\ sock' \in Seq(Item) /\ Len(sock') = Len(sock) + 1
        /\ Run(sock', Len(sent) - Len(sock))
    <3>1. /\ Len(sent) - Len(sock) \in Nat
          /\ Len(sent) - Len(sock) + Len(sock) < MaxItems
          /\ Len(sent) + 1 = Len(sent) - Len(sock) + Len(sock) + 1
      BY <1>0, <1>b, <2>1, ConstantsAssumption DEF UpRuns
    <3> QED
      BY <1>a, <1>b, <2>1, <3>1, RunAppend DEF UpRuns
  <2>5. sent' # <<>>
    BY <1>0, <2>3
  <2>6. \/ Skip' = Skip /\ (mode = "sealed" => sent # <<>>)
        \/ br = <<>> /\ got = <<>> /\ pc \in {"start", "line"} /\ back = "none"
    BY <1>b, <1>c, <2>1, <2>2, <2>5 DEF Skip, UpWhole, Control, Phases
  <2>7. UpTypes'
    BY <1>a, <2>1, <2>3, <2>4 DEF UpTypes
  <2>8. UpRuns'
    <3>1. Run(got, Skip)' /\ Run(br, Skip + Len(got))'
      <4>1. CASE Skip' = Skip
        BY <1>b, <2>1, <4>1 DEF UpRuns
      <4>2. CASE br = <<>> /\ got = <<>>
        BY <1>0, <2>1, <4>2 DEF Run
      <4> QED
        BY <2>6, <4>1, <4>2
    <3>2. Len(sent') - Len(sock') = Len(sent) - Len(sock) /\ Len(sock') <= Len(sent')
      BY <1>0, <1>b, <2>3, <2>4 DEF UpRuns
    <3> QED
      BY <2>3, <2>4, <3>1, <3>2 DEF UpRuns
  <2>9. UpWhole'
    <3>1. CASE Skip' = Skip /\ (mode = "sealed" => sent # <<>>)
      <4>1. pc \in {"start", "line"} => sock' = sent'
        BY <1>b, <2>1 DEF UpWhole
      <4>2. pc \in {"verify", "dial", "splice"} \/ back # "none" =>
              Skip' + Len(got') + Len(br') + Len(sock') = Len(sent')
        BY <1>0, <1>b, <2>1, <2>3, <2>4, <3>1 DEF UpWhole
      <4> QED
        BY <1>b, <2>1, <2>5, <4>1, <4>2 DEF UpWhole
    <3>2. CASE br = <<>> /\ got = <<>> /\ pc \in {"start", "line"} /\ back = "none"
      BY <1>b, <2>1, <3>2 DEF UpWhole
    <3> QED
      BY <2>6, <3>1, <3>2
  <2>10. UpDone'
    BY <1>b, <2>1, <2>2 DEF UpDone, UpBroken
  <2> QED
    BY <2>7, <2>8, <2>9, <2>10 DEF UpInv
<1> QED
  BY <1>2, <1>3, <1>4, <1>5, <1>6, <1>7, <1>8, <1>9, <1>10, <1>11
  DEF Next, Main, Upload, Peers

LEMMA PayloadRun ==
  UpInv => /\ Payload \in Seq(Item)
           /\ Len(Payload) = Len(sent) - Skip
           /\ Run(Payload, Skip)
<1> SUFFICES ASSUME UpInv
             PROVE  /\ Payload \in Seq(Item)
                    /\ Len(Payload) = Len(sent) - Skip
                    /\ Run(Payload, Skip)
  OBVIOUS
<1>1. sent \in Seq(Item) /\ Run(sent, 0) /\ Len(sent) \in Nat
  BY LenProperties DEF UpInv, UpTypes, UpRuns
<1>2. CASE mode = "sealed" /\ sent # <<>>
  <2>1. /\ Tail(sent) \in Seq(Item) /\ Len(Tail(sent)) = Len(sent) - 1
        /\ Run(Tail(sent), 0 + 1)
    BY <1>1, <1>2, RunTail
  <2>2. Run(Tail(sent), 1)
    BY <2>1
  <2> QED
    BY <1>2, <2>1, <2>2 DEF Payload, Skip
<1>3. CASE ~(mode = "sealed" /\ sent # <<>>)
  BY <1>1, <1>3 DEF Payload, Skip
<1> QED
  BY <1>2, <1>3

LEMMA UpSimulates ==
  CtrlInv /\ UpInv /\ UpInv' /\ [Next]_vars => [UpPipe!Next]_(UpPipe!vars)
<1> SUFFICES ASSUME CtrlInv, UpInv, UpInv', [Next]_vars
             PROVE  [UpPipe!Next]_(UpPipe!vars)
  OBVIOUS
<1>a. /\ Payload \in Seq(Item)
      /\ Len(Payload) = Len(sent) - Skip
      /\ Run(Payload, Skip)
  BY PayloadRun
<1>b. /\ Payload' \in Seq(Item)
      /\ Len(Payload') = Len(sent') - Skip'
      /\ Run(Payload', Skip')
  <2>1. (/\ Payload \in Seq(Item)
         /\ Len(Payload) = Len(sent) - Skip
         /\ Run(Payload, Skip))'
    BY PayloadRun, PTL
  <2> QED
    BY <2>1 DEF Run
<1>c. Control /\ Phases /\ Ending
  BY DEF CtrlInv
<1>0. /\ sent \in Seq(Item) /\ got \in Seq(Item) /\ br \in Seq(Item) /\ sock \in Seq(Item)
      /\ Len(sent) \in Nat /\ Len(got) \in Nat /\ Len(br) \in Nat /\ Len(sock) \in Nat
      /\ Skip \in {0, 1}
  BY LenProperties DEF UpInv, UpTypes, Skip
\* Nothing that Pipe sees changes.
<1>1. ASSUME UNCHANGED <<mode, sent, got, gotEnd, UpBroken>> PROVE UNCHANGED UpPipe!vars
  BY <1>1 DEF UpPipe!vars, Payload, UpBroken
<1>2. CASE Start \/ ReadLine \/ Verified \/ Deadline \/ ClientSendsLate \/ DownCopy
           \/ ClientReads \/ BackendSends \/ UpEnds \/ UNCHANGED vars
  <2>1. UNCHANGED <<mode, sent, got, gotEnd, client, back>>
    BY <1>2 DEF Start, ReadLine, Verified, Deadline, ClientSendsLate, DownCopy, ClientReads,
                BackendSends, UpEnds, vars, control, ends, upward, downward
  <2> QED
    BY <1>1, <2>1 DEF UpBroken
<1>3. CASE Dialled
  <2>1. UNCHANGED <<mode, sent, got, gotEnd, client>> /\ back = "none" /\ back' = "open"
    BY <1>3, <1>c DEF Dialled, Phases, ends, upward
  <2> QED
    BY <1>1, <2>1 DEF UpBroken
<1>4. CASE LineFails \/ \E at \in {"verify", "dial"}, text \in {"403", "502"} : Refuse(at, text)
  <2>1. UNCHANGED <<mode, sent, got, client, back>> /\ back = "none" /\ gotEnd' = FALSE
    BY <1>4, <1>c DEF LineFails, Refuse, Close, Phases, upward, downward
  <2>2. gotEnd = FALSE
    BY <1>c, <2>1 DEF Control, Ending
  <2> QED
    BY <1>1, <2>1, <2>2 DEF UpBroken
<1>5. CASE DownEnds
  <2>1. UNCHANGED <<mode, sent, got, client, back>> /\ back # "none" /\ gotEnd' = TRUE
    BY <1>5, <1>c DEF DownEnds, Close, Phases, upward, downward
  <2>2. UpBroken
    BY <1>5, <1>c, <2>1 DEF DownEnds, Over, Dead, Phases, UpBroken
  <2>3. UpPipe!End
    BY <2>1, <2>2 DEF UpPipe!End, UpBroken, Payload
  <2> QED
    BY <2>3 DEF UpPipe!Next
<1>6. CASE CloseWrite
  <2>1. UNCHANGED <<mode, sent, got, client, back>> /\ up = "end" /\ gotEnd' = TRUE
    BY <1>6 DEF CloseWrite, upward, downward
  <2>2. CASE pc = "closed"
    <3>1. gotEnd = TRUE
      BY <1>c, <2>1, <2>2 DEF Control, Phases, Ending
    <3> QED
      BY <1>1, <2>1, <3>1 DEF UpBroken
  <2>3. CASE UpBroken
    <3>1. UpPipe!End
      BY <2>1, <2>3 DEF UpPipe!End, UpBroken, Payload
    <3> QED
      BY <3>1 DEF UpPipe!Next
  <2>4. CASE pc # "closed" /\ br = <<>> /\ sock = <<>>
    <3>1. pc = "splice"
      BY <1>c, <2>1, <2>4 DEF Control, Phases
    <3>2. Len(got) = Len(Payload)
      <4>1. Skip + Len(got) + Len(br) + Len(sock) = Len(sent)
        BY <3>1 DEF UpInv, UpWhole
      <4>2. Len(br) = 0 /\ Len(sock) = 0
        BY <2>4, EmptySeq
      <4> QED
        BY <1>0, <1>a, <4>1, <4>2
    <3>3. got = Payload
      <4>1. Run(got, Skip) /\ Skip \in Nat
        BY <1>0 DEF UpInv, UpRuns
      <4> QED
        BY <1>0, <1>a, <3>2, <4>1, RunSame
    <3>4. UpPipe!End
      BY <2>1, <3>3 DEF UpPipe!End, Payload
    <3> QED
      BY <3>4 DEF UpPipe!Next
  <2> QED
    BY <2>1, <2>2, <2>3, <2>4 DEF UpInv, UpDone
<1>7. CASE UpCopy
  <2>1. /\ up = "copy" /\ pc = "splice"
        /\ UNCHANGED <<mode, sent, gotEnd, client, back>>
    BY <1>7 DEF UpCopy, control, ends, downward
  <2>2. gotEnd = FALSE
    BY <1>c, <2>1 DEF Control, Ending
  <2>3. Skip' = Skip /\ Payload' = Payload
    BY <2>1 DEF Skip, Payload
  <2>4. PICK x \in Item : got' = Append(got, x)
    BY <1>0, <1>7, HeadTailProperties DEF UpCopy, Forward
  <2>5. got' \in Seq(Item) /\ Len(got') = Len(got) + 1 /\ got'[Len(got) + 1] = x
    BY <1>0, <2>4, AppendProperties
  <2>6. Run(got', Skip)
    BY <2>3 DEF UpInv, UpRuns, Run
  <2>7. x = Skip + Len(got) + 1
    BY <1>0, <2>5, <2>6 DEF Run
  <2>8. Len(got) < Len(Payload)
    <3>1. (Skip + Len(got) + Len(br) + Len(sock) = Len(sent))'
      BY <1>7 DEF UpCopy, UpInv, UpWhole, control
    <3>2. Len(br') \in Nat /\ Len(sock') \in Nat
      BY LenProperties DEF UpInv, UpTypes
    <3>3. Skip + (Len(got) + 1) + Len(br') + Len(sock') = Len(sent)
      BY <2>1, <2>3, <2>5, <3>1
    <3> QED
      BY <1>0, <1>a, <3>2, <3>3
  <2>9. Payload[Len(got) + 1] = x
    BY <1>0, <1>a, <2>7, <2>8 DEF Run
  <2>10. UpPipe!Deliver
    BY <2>1, <2>2, <2>3, <2>4, <2>8, <2>9 DEF UpPipe!Deliver
  <2> QED
    BY <2>10 DEF UpPipe!Next
<1>8. ASSUME NEW how \in {"fin", "rst"}, ClientEnds(how) \/ BackendEnds(how)
      PROVE  [UpPipe!Next]_(UpPipe!vars)
  <2>1. UNCHANGED <<mode, sent, got, gotEnd>>
    BY <1>8 DEF ClientEnds, BackendEnds, control, upward, ends
  <2>2. CASE UpBroken' = UpBroken
    BY <1>1, <2>1, <2>2
  <2>3. CASE UpBroken'
    <3>1. UpPipe!Break
      BY <2>1, <2>3 DEF UpPipe!Break, UpBroken, Payload
    <3> QED
      BY <3>1 DEF UpPipe!Next
  <2>4. UpBroken => UpBroken'
    BY <1>8 DEF ClientEnds, BackendEnds, UpBroken, upward, downward
  <2> QED
    BY <2>2, <2>3, <2>4 DEF UpBroken
<1>9. CASE ClientSends
  <2>1. /\ client = "open" /\ closed = "no" /\ Len(sent) < MaxItems
        /\ sent' = Append(sent, Len(sent) + 1)
        /\ UNCHANGED <<mode, up, gotEnd, got, client, back>>
    BY <1>9 DEF ClientSends, control, ends, downward
  <2>2. Len(sent) + 1 \in Item
    BY <1>0, <2>1, ConstantsAssumption DEF Item
  <2>3. sent' \in Seq(Item) /\ Len(sent') = Len(sent) + 1 /\ sent' # <<>>
    BY <1>0, <2>1, <2>2, AppendProperties
  <2>4. CASE mode = "sealed" /\ sent = <<>>
    <3>1. Skip' = 1 /\ Len(sent) = 0 /\ Payload = <<>>
      BY <2>1, <2>3, <2>4, EmptySeq DEF Skip, Payload
    <3>2. Len(Payload') = 0
      BY <1>b, <2>3, <3>1
    <3>3. Payload' = <<>>
      BY <1>b, <3>2, EmptySeq
    <3> QED
      BY <2>1, <3>1, <3>3 DEF UpPipe!vars, UpBroken
  <2>5. CASE mode = "open" \/ sent # <<>>
    <3>1. Skip' = Skip
      BY <2>1, <2>3, <2>5 DEF Skip
    <3>2. Len(Payload') = Len(Payload) + 1
      BY <1>0, <1>a, <1>b, <2>3, <3>1
    <3>3. Len(sent) + 1 = Skip + Len(Payload) + 1 /\ Skip + Len(Payload) < MaxItems
      BY <1>0, <1>a, <2>1
    <3>4. /\ Append(Payload, Len(sent) + 1) \in Seq(Item)
          /\ Len(Append(Payload, Len(sent) + 1)) = Len(Payload) + 1
          /\ Run(Append(Payload, Len(sent) + 1), Skip)
      BY <1>0, <1>a, <3>3, RunAppend
    <3>5. Payload' = Append(Payload, Len(sent) + 1)
      <4>1. Run(Payload', Skip) /\ Skip \in Nat
        BY <1>0, <1>b, <3>1
      <4> QED
        BY <1>b, <3>2, <3>4, <4>1, RunSame
    <3>6. gotEnd => UpBroken
      <4>1. gotEnd => up = "done" /\ pc # "closed"
        BY <1>c, <2>1 DEF Phases, Ending
      <4> QED
        BY <2>1, <4>1 DEF UpInv, UpDone
    <3>7. UpPipe!Send
      BY <2>1, <2>2, <3>5, <3>6 DEF UpPipe!Send, UpBroken
    <3> QED
      BY <3>7 DEF UpPipe!Next
  <2> QED
    BY <1>c, <2>4, <2>5 DEF Control
<1> QED
  BY <1>2, <1>3, <1>4, <1>5, <1>6, <1>7, <1>8, <1>9 DEF Next, Main, Upload, Peers

\* Client to backend the splice implements Pipe: everything the client sends after
\* the handshake line reaches the backend in order, and the end after it.
THEOREM UpCorrect == Spec => UpSpec
<1>1. Init => UpPipe!Init
  BY DEF Init, UpPipe!Init, Payload
<1>2. CtrlInv /\ UpInv /\ UpInv' /\ [Next]_vars => [UpPipe!Next]_(UpPipe!vars)
  BY UpSimulates
<1> QED
  BY <1>1, <1>2, CtrlInit, CtrlStep, UpInit, UpStep, PTL DEF Spec, UpSpec, UpPipe!Spec
------------------------------------------------------------------------------
(* Backend to client.                                                        *)

DownTypes == {bsent, bsock, out, rcvd} \subseteq Seq(Item)

DownRuns ==
  /\ Run(bsent, 0)
  /\ Run(rcvd, 0)
  /\ Run(out, Len(rcvd))
  /\ Run(bsock, Len(rcvd) + Len(out))
  /\ Len(rcvd) + Len(out) + Len(bsock) = Len(bsent)

DownBroken == client = "rst" \/ back = "rst"

\* The sockets are closed only after the last item.
DownDone ==
  /\ eof => out = <<>>
  /\ back = "none" => bsock = <<>>
  /\ pc = "closed" => bsock = <<>> \/ DownBroken

DownInv == DownTypes /\ DownRuns /\ DownDone

LEMMA DownInit == Init => DownInv
<1> SUFFICES ASSUME Init PROVE DownInv
  OBVIOUS
<1>1. bsent = <<>> /\ bsock = <<>> /\ out = <<>> /\ rcvd = <<>>
  BY DEF Init
<1>2. <<>> \in Seq(Item) /\ Len(<<>>) = 0
  BY EmptySeq
<1>3. \A k \in Nat : Run(<<>>, k)
  BY <1>2 DEF Run
<1> QED
  BY <1>1, <1>2, <1>3 DEF DownInv, DownTypes, DownRuns, DownDone

LEMMA DownStep == CtrlInv /\ DownInv /\ [Next]_vars => DownInv'
<1> SUFFICES ASSUME CtrlInv, DownInv, [Next]_vars PROVE DownInv'
  OBVIOUS
<1>a. bsent \in Seq(Item) /\ bsock \in Seq(Item) /\ out \in Seq(Item) /\ rcvd \in Seq(Item)
  BY DEF DownInv, DownTypes
<1>b. DownRuns /\ DownDone
  BY DEF DownInv
<1>c. Control /\ Phases /\ Ending
  BY DEF CtrlInv
<1>0. Len(bsent) \in Nat /\ Len(bsock) \in Nat /\ Len(out) \in Nat /\ Len(rcvd) \in Nat
  BY <1>a, LenProperties
<1>d. Len(bsent) <= MaxItems
  <2>1. CASE Len(bsent) = 0
    BY <2>1, ConstantsAssumption
  <2>2. CASE Len(bsent) # 0
    <3>1. bsent[Len(bsent)] = Len(bsent)
      BY <1>0, <1>b, <2>2 DEF DownRuns, Run
    <3>2. bsent[Len(bsent)] \in Item
      BY <1>0, <1>a, <2>2, ElementOfSeq
    <3> QED
      BY <3>1, <3>2, ConstantsAssumption DEF Item
  <2> QED
    BY <2>1, <2>2
\* A step that moves no item.
<1>1. ASSUME UNCHANGED <<bsent, bsock, out, rcvd>>, DownDone' PROVE DownInv'
  <2>1. DownTypes'
    BY <1>1, <1>a DEF DownTypes
  <2>2. DownRuns'
    BY <1>1, <1>b DEF DownRuns, Run
  <2> QED
    BY <1>1, <2>1, <2>2 DEF DownInv
<1>2. CASE Start \/ ReadLine \/ Verified \/ Dialled
  <2>1. pc' # "closed" /\ (back' = "none" => back = "none")
        /\ UNCHANGED <<bsent, bsock, out, rcvd, eof>>
    BY <1>2 DEF Start, ReadLine, Verified, Dialled, downward
  <2>2. DownDone'
    BY <1>b, <2>1 DEF DownDone
  <2> QED
    BY <1>1, <2>1, <2>2
<1>3. CASE LineFails \/ \E at \in {"verify", "dial"}, text \in {"403", "502"} : Refuse(at, text)
  <2>1. back = "none" /\ UNCHANGED downward
    BY <1>3, <1>c DEF LineFails, Refuse, Phases
  <2>2. DownDone'
    BY <1>b, <2>1 DEF DownDone, downward
  <2> QED
    BY <1>1, <2>1, <2>2 DEF downward
<1>4. CASE DownEnds
  <2>1. UNCHANGED <<downward, client>> /\ back # "none"
    BY <1>4, <1>c DEF DownEnds, Phases, upward
  <2>2. bsock = <<>> \/ DownBroken
    BY <1>4, <1>c, <2>1 DEF DownEnds, Over, Dead, Phases, DownBroken
  <2>3. DownDone'
    BY <1>b, <2>1, <2>2 DEF DownDone, DownBroken, downward
  <2> QED
    BY <1>1, <2>1, <2>3 DEF downward
<1>5. CASE UpCopy \/ UpEnds \/ CloseWrite \/ Deadline \/ ClientSends \/ ClientSendsLate
           \/ UNCHANGED vars
  <2>1. UNCHANGED <<pc, client, downward>>
    BY <1>5 DEF UpCopy, UpEnds, CloseWrite, Deadline, ClientSends, ClientSendsLate,
                vars, control, upward
  <2>2. DownDone'
    BY <1>b, <2>1 DEF DownDone, DownBroken, downward
  <2> QED
    BY <1>1, <2>1, <2>2 DEF downward
<1>6. ASSUME NEW how \in {"fin", "rst"}, ClientEnds(how) \/ BackendEnds(how)
      PROVE  DownInv'
  <2>1. UNCHANGED <<pc, bsent, bsock, out, rcvd, eof>>
    BY <1>6 DEF ClientEnds, BackendEnds, control, downward
  <2>2. (DownBroken => DownBroken') /\ (back' = "none" => back = "none")
    BY <1>6 DEF ClientEnds, BackendEnds, DownBroken, upward, downward
  <2>3. DownDone'
    BY <1>b, <2>1, <2>2 DEF DownDone
  <2> QED
    BY <1>1, <2>1, <2>3
<1>7. CASE DownCopy
  <2>1. /\ pc = "splice" /\ bsock # <<>>
        /\ out' = Append(out, Head(bsock)) /\ bsock' = Tail(bsock)
        /\ UNCHANGED <<pc, back, bsent, rcvd, eof>>
    BY <1>7 DEF DownCopy, control
  <2>2. /\ Head(bsock) = Len(rcvd) + Len(out) + 1
        /\ bsock' \in Seq(Item) /\ Len(bsock') = Len(bsock) - 1 /\ Len(bsock) > 0
        /\ Run(bsock', Len(rcvd) + Len(out) + 1)
    BY <1>0, <1>a, <1>b, <2>1, RunTail DEF DownRuns
  <2>3. Len(rcvd) + Len(out) < MaxItems
    BY <1>0, <1>b, <1>d, <2>2, ConstantsAssumption DEF DownRuns
  <2>4. out' \in Seq(Item) /\ Len(out') = Len(out) + 1 /\ Run(out', Len(rcvd))
    BY <1>0, <1>a, <1>b, <2>1, <2>2, <2>3, RunAppend DEF DownRuns
  <2>5. Len(rcvd') + Len(out') = Len(rcvd) + Len(out) + 1
    <3>1. Len(rcvd') = Len(rcvd)
      BY <2>1
    <3> QED
      BY <1>0, <2>4, <3>1
  <2>6. DownRuns'
    <3>1. Run(bsent, 0)' /\ Run(rcvd, 0)' /\ Run(out, Len(rcvd))'
      BY <1>b, <2>1, <2>4 DEF DownRuns
    <3>2. Run(bsock, Len(rcvd) + Len(out))'
      BY <2>2, <2>5
    <3>3. Len(rcvd') + Len(out') + Len(bsock') = Len(bsent')
      <4>1. Len(bsent') = Len(bsent)
        BY <2>1
      <4> QED
        BY <1>0, <1>b, <2>2, <2>5, <4>1 DEF DownRuns
    <3> QED
      BY <3>1, <3>2, <3>3 DEF DownRuns
  <2>7. DownTypes'
    BY <1>a, <2>1, <2>2, <2>4 DEF DownTypes
  <2>8. DownDone'
    <3>1. eof = FALSE /\ back # "none"
      BY <1>c, <2>1 DEF Control, Phases, Ending
    <3> QED
      BY <2>1, <3>1 DEF DownDone
  <2> QED
    BY <2>6, <2>7, <2>8 DEF DownInv
<1>8. CASE ClientReads
  <2>1. UNCHANGED <<pc, client, back, bsent, bsock>>
    BY <1>8 DEF ClientReads, control, upward
  <2>2. CASE out = <<>> /\ UNCHANGED <<out, rcvd>>
    <3>1. DownDone'
      BY <1>b, <2>1, <2>2 DEF DownDone, DownBroken
    <3> QED
      BY <1>1, <2>1, <2>2, <3>1
  <2>3. CASE /\ out # <<>> /\ rcvd' = Append(rcvd, Head(out)) /\ out' = Tail(out)
             /\ UNCHANGED eof
    <3>1. /\ Head(out) = Len(rcvd) + 1
          /\ out' \in Seq(Item) /\ Len(out') = Len(out) - 1 /\ Len(out) > 0
          /\ Run(out', Len(rcvd) + 1)
      BY <1>0, <1>a, <1>b, <2>3, RunTail DEF DownRuns
    <3>2. 0 + Len(rcvd) < MaxItems /\ Len(rcvd) + 1 = 0 + Len(rcvd) + 1
      BY <1>0, <1>b, <1>d, <3>1, ConstantsAssumption DEF DownRuns
    <3>3. rcvd' \in Seq(Item) /\ Len(rcvd') = Len(rcvd) + 1 /\ Run(rcvd', 0)
      BY <1>0, <1>a, <1>b, <2>3, <3>1, <3>2, RunAppend DEF DownRuns
    <3>4. Len(rcvd') + Len(out') = Len(rcvd) + Len(out)
      BY <1>0, <3>1, <3>3
    <3>5. DownRuns'
      <4>1. Run(bsent, 0)' /\ Run(rcvd, 0)' /\ Run(out, Len(rcvd))'
        BY <1>b, <2>1, <3>1, <3>3 DEF DownRuns
      <4>2. Run(bsock, Len(rcvd) + Len(out))'
        BY <1>b, <2>1, <3>4 DEF DownRuns
      <4>3. Len(rcvd') + Len(out') + Len(bsock') = Len(bsent')
        BY <1>b, <2>1, <3>4 DEF DownRuns
      <4> QED
        BY <4>1, <4>2, <4>3 DEF DownRuns
    <3>6. DownTypes'
      BY <1>a, <2>1, <3>1, <3>3 DEF DownTypes
    <3>7. DownDone'
      BY <1>b, <2>1, <2>3 DEF DownDone, DownBroken
    <3> QED
      BY <3>5, <3>6, <3>7 DEF DownInv
  <2> QED
    BY <1>8, <2>2, <2>3 DEF ClientReads
<1>9. CASE BackendSends
  <2>1. /\ pc = "splice" /\ Len(bsent) < MaxItems /\ back = "open"
        /\ bsent' = Append(bsent, Len(bsent) + 1)
        /\ bsock' = Append(bsock, Len(bsent) + 1)
        /\ UNCHANGED <<pc, back, out, rcvd, eof>>
    BY <1>9 DEF BackendSends, control
  <2>2. /\ 0 + Len(bsent) < MaxItems /\ Len(bsent) + 1 = 0 + Len(bsent) + 1
        /\ Len(rcvd) + Len(out) \in Nat
        /\ Len(rcvd) + Len(out) + Len(bsock) < MaxItems
        /\ Len(bsent) + 1 = Len(rcvd) + Len(out) + Len(bsock) + 1
    BY <1>0, <1>b, <2>1 DEF DownRuns
  <2>3. bsent' \in Seq(Item) /\ Len(bsent') = Len(bsent) + 1 /\ Run(bsent', 0)
    BY <1>0, <1>a, <1>b, <2>1, <2>2, RunAppend DEF DownRuns
  <2>4. /\ bsock' \in Seq(Item) /\ Len(bsock') = Len(bsock) + 1
        /\ Run(bsock', Len(rcvd) + Len(out))
    BY <1>a, <1>b, <2>1, <2>2, RunAppend DEF DownRuns
  <2>5. Len(rcvd') + Len(out') = Len(rcvd) + Len(out)
    BY <2>1
  <2>6. DownRuns'
    <3>1. Run(rcvd, 0)' /\ Run(out, Len(rcvd))'
      BY <1>b, <2>1 DEF DownRuns
    <3>2. Run(bsock, Len(rcvd) + Len(out))'
      BY <2>4, <2>5
    <3>3. Len(rcvd') + Len(out') + Len(bsock') = Len(bsent')
      BY <1>0, <1>b, <2>3, <2>4, <2>5 DEF DownRuns
    <3> QED
      BY <2>3, <3>1, <3>2, <3>3 DEF DownRuns
  <2>7. DownTypes'
    BY <1>a, <2>1, <2>3, <2>4 DEF DownTypes
  <2>8. DownDone'
    BY <1>b, <2>1 DEF DownDone
  <2> QED
    BY <2>6, <2>7, <2>8 DEF DownInv
<1> QED
  BY <1>2, <1>3, <1>4, <1>5, <1>6, <1>7, <1>8, <1>9 DEF Next, Main, Upload, Peers

LEMMA DownSimulates ==
  CtrlInv /\ DownInv /\ DownInv' /\ [Next]_vars => [DownPipe!Next]_(DownPipe!vars)
<1> SUFFICES ASSUME CtrlInv, DownInv, DownInv', [Next]_vars
             PROVE  [DownPipe!Next]_(DownPipe!vars)
  OBVIOUS
<1>a. bsent \in Seq(Item) /\ bsock \in Seq(Item) /\ out \in Seq(Item) /\ rcvd \in Seq(Item)
  BY DEF DownInv, DownTypes
<1>b. DownRuns /\ DownDone
  BY DEF DownInv
<1>c. Control /\ Phases /\ Ending
  BY DEF CtrlInv
<1>0. Len(bsent) \in Nat /\ Len(bsock) \in Nat /\ Len(out) \in Nat /\ Len(rcvd) \in Nat
  BY <1>a, LenProperties
\* Nothing that Pipe sees changes.
<1>1. ASSUME UNCHANGED <<bsent, rcvd, eof, DownBroken>> PROVE UNCHANGED DownPipe!vars
  BY <1>1 DEF DownPipe!vars, DownBroken
<1>2. CASE Start \/ ReadLine \/ Verified \/ Deadline \/ ClientSendsLate \/ DownCopy \/ DownEnds
           \/ LineFails \/ (\E at \in {"verify", "dial"}, text \in {"403", "502"} : Refuse(at, text))
           \/ ClientSends \/ UpCopy \/ UpEnds \/ CloseWrite \/ UNCHANGED vars
  <2>1. UNCHANGED <<bsent, rcvd, eof, client, back>>
    BY <1>2 DEF Start, ReadLine, Verified, Deadline, ClientSendsLate, DownCopy, DownEnds,
                LineFails, Refuse, ClientSends, UpCopy, UpEnds, CloseWrite,
                vars, upward, downward
  <2> QED
    BY <1>1, <2>1 DEF DownBroken
<1>3. CASE Dialled
  <2>1. UNCHANGED <<bsent, rcvd, eof, client>> /\ back = "none" /\ back' = "open"
    BY <1>3, <1>c DEF Dialled, Phases, upward
  <2> QED
    BY <1>1, <2>1 DEF DownBroken
<1>4. ASSUME NEW how \in {"fin", "rst"}, ClientEnds(how) \/ BackendEnds(how)
      PROVE  [DownPipe!Next]_(DownPipe!vars)
  <2>1. UNCHANGED <<bsent, rcvd, eof>>
    BY <1>4 DEF ClientEnds, BackendEnds, downward
  <2>2. CASE DownBroken' = DownBroken
    BY <1>1, <2>1, <2>2
  <2>3. CASE DownBroken'
    <3>1. DownPipe!Break
      BY <2>1, <2>3 DEF DownPipe!Break, DownBroken
    <3> QED
      BY <3>1 DEF DownPipe!Next
  <2>4. DownBroken => DownBroken'
    BY <1>4 DEF ClientEnds, BackendEnds, DownBroken, upward, downward
  <2> QED
    BY <2>2, <2>3, <2>4 DEF DownBroken
<1>5. CASE BackendSends
  <2>1. /\ pc = "splice" /\ Len(bsent) < MaxItems
        /\ bsent' = Append(bsent, Len(bsent) + 1)
        /\ UNCHANGED <<rcvd, eof, client, back>>
    BY <1>5 DEF BackendSends, upward
  <2>2. Len(bsent) + 1 \in Item /\ eof = FALSE
    BY <1>0, <1>c, <2>1, ConstantsAssumption DEF Item, Control, Ending
  <2>3. DownPipe!Send
    BY <2>1, <2>2 DEF DownPipe!Send
  <2> QED
    BY <2>3 DEF DownPipe!Next
<1>6. CASE ClientReads
  <2>1. UNCHANGED <<client, back, bsent, bsock>>
    BY <1>6 DEF ClientReads, upward
  <2>2. CASE /\ out # <<>> /\ rcvd' = Append(rcvd, Head(out)) /\ UNCHANGED eof
    <3>1. Head(out) = Len(rcvd) + 1 /\ Len(out) > 0
      BY <1>0, <1>a, <1>b, <2>2, RunTail DEF DownRuns
    <3>2. Len(rcvd) < Len(bsent)
      BY <1>0, <1>b, <3>1 DEF DownRuns
    <3>3. bsent[Len(rcvd) + 1] = Len(rcvd) + 1
      BY <1>0, <1>b, <3>2 DEF DownRuns, Run
    <3>4. eof = FALSE
      BY <1>b, <1>c, <2>2 DEF DownDone, Control
    <3>5. DownPipe!Deliver
      BY <2>1, <2>2, <3>1, <3>2, <3>3, <3>4 DEF DownPipe!Deliver
    <3> QED
      BY <3>5 DEF DownPipe!Next
  <2>3. CASE out = <<>> /\ closed = "fin" /\ eof' = TRUE /\ UNCHANGED rcvd
    <3>1. bsock = <<>> \/ DownBroken
      BY <1>b, <1>c, <2>3 DEF DownDone, Phases
    <3>2. bsock = <<>> => rcvd = bsent
      <4> SUFFICES ASSUME bsock = <<>> PROVE rcvd = bsent
        OBVIOUS
      <4>1. Len(out) = 0 /\ Len(bsock) = 0
        BY <2>3, EmptySeq
      <4>2. Len(rcvd) = Len(bsent)
        BY <1>0, <1>b, <4>1 DEF DownRuns
      <4> QED
        BY <1>a, <1>b, <4>2, RunSame DEF DownRuns
    <3>3. DownPipe!End
      BY <2>1, <2>3, <3>1, <3>2 DEF DownPipe!End, DownBroken
    <3> QED
      BY <3>3 DEF DownPipe!Next
  <2> QED
    BY <1>6, <2>2, <2>3 DEF ClientReads
<1> QED
  BY <1>2, <1>3, <1>4, <1>5, <1>6 DEF Next, Main, Upload, Peers

\* Backend to client the splice implements Pipe: an orderly end of the client's
\* connection shows that the backend's answer has arrived whole.
THEOREM DownCorrect == Spec => DownSpec
<1>1. Init => DownPipe!Init
  BY DEF Init, DownPipe!Init
<1>2. CtrlInv /\ DownInv /\ DownInv' /\ [Next]_vars => [DownPipe!Next]_(DownPipe!vars)
  BY DownSimulates
<1> QED
  BY <1>1, <1>2, CtrlInit, CtrlStep, DownInit, DownStep, PTL
  DEF Spec, DownSpec, DownPipe!Spec

\* Every variable keeps its type, whatever the peers do.
THEOREM TypeCorrect == Spec => []TypeOK
<1>1. CtrlInv /\ UpInv /\ DownInv => TypeOK
  BY DEF CtrlInv, Control, Phases, Ending, UpInv, UpTypes, DownInv, DownTypes, TypeOK
<1> QED
  BY <1>1, CtrlInit, CtrlStep, UpInit, UpStep, DownInit, DownStep, PTL DEF Spec
==============================================================================
