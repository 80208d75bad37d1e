------------------------------- MODULE TcpSplice -------------------------------
(***************************************************************************)
(* One TCP connection through guard-go/main.go: handleTCPConn reads and    *)
(* checks the handshake line under a deadline, dials the backend and lets  *)
(* two goroutines copy, one in each direction, until the backend ends.     *)
(* Mode and seals are in Guard and BurnStore; here they are either way.    *)
(*                                                                         *)
(* A read, a write or a close of a socket is one step.  What peers send    *)
(* waits in queues; a guard that closes a socket with unread bytes in it,  *)
(* or whose client sends on after that, resets the connection.             *)
(***************************************************************************)
EXTENDS Naturals, Sequences

CONSTANTS
  MaxItems,   \* bound on what each peer sends
  Buf         \* what the socket to a client that does not read takes

ASSUME ConstantsAssumption == MaxItems \in Nat /\ Buf \in Nat \ {0}

\* What a peer sends is numbered; the handshake line is an item of its own.
Item == 1..MaxItems

VARIABLES
  mode,    \* what isOpen says
  pc,      \* the goroutine of handleTCPConn
  up,      \* the goroutine that copies from client to backend
  timer,   \* the deadline of the client's socket: off, on or past
  reply,   \* "403" or "502" if that was written to the client
  client,  \* the client: open, fin (it sends no more) or rst (it broke off)
  sent,    \* history: all that the client has sent
  sock,    \* of that, what the guard has not read yet
  br,      \* read into the bufio.Reader with the line, not forwarded yet
  got,     \* what the backend has received
  gotEnd,  \* the backend has been sent the end of that
  back,    \* the backend: none, open, fin or rst
  bsent,   \* history: all that the backend has sent
  bsock,   \* of that, what the guard has not read yet
  out,     \* written to the client's socket, not read by the client yet
  rcvd,    \* what the client has received
  closed,  \* how the guard closed the client's socket: no, fin or rst
  eof      \* the client has been shown an orderly end

control == <<mode, pc, up, timer, reply>>
ends == <<gotEnd, closed>>
upward == <<client, sent, sock, br, got>>
downward == <<back, bsent, bsock, out, rcvd, eof>>
vars == <<control, ends, upward, downward>>

Init == /\ mode \in {"open", "sealed"}
        /\ pc = "start"
        /\ up = "none"
        /\ timer = "off"
        /\ reply = "none"
        /\ client = "open" /\ back = "none"
        /\ sent = <<>> /\ sock = <<>> /\ br = <<>> /\ got = <<>>
        /\ bsent = <<>> /\ bsock = <<>> /\ out = <<>> /\ rcvd = <<>>
        /\ gotEnd = FALSE /\ eof = FALSE
        /\ closed = "no"

\* Reads and writes on the client's socket fail.
Dead == timer = "past" \/ client = "rst"

\* The deferred closes: the backend's, if there is one, and the client's.
Close ==
  /\ pc' = "closed"
  /\ gotEnd' = (back # "none")
  /\ closed' = IF sock = <<>> THEN "fin" ELSE "rst"
------------------------------------------------------------------------------
\* isOpen; otherwise SetDeadline, 5 s from now.
Start ==
  /\ pc = "start"
  /\ \/ mode = "open" /\ pc' = "dial" /\ UNCHANGED timer
     \/ mode = "sealed" /\ pc' = "line" /\ timer' = "on"
  /\ UNCHANGED <<mode, up, reply, ends, upward, downward>>

Deadline ==
  /\ timer = "on" /\ timer' = "past"
  /\ UNCHANGED <<mode, pc, up, reply, ends, upward, downward>>

\* ReadString: the line, and whatever came along with it, which stays in br.
ReadLine ==
  /\ pc = "line" /\ pc' = "verify"
  /\ timer # "past"
  /\ \E n \in 1..Len(sock) :
       br' = SubSeq(sock, 2, n) /\ sock' = SubSeq(sock, n + 1, Len(sock))
  /\ UNCHANGED <<mode, up, timer, reply, ends, client, sent, got, downward>>

\* Too late, or the client ended without a line: closed without a word.
LineFails ==
  /\ pc = "line"
  /\ Dead \/ (client = "fin" /\ sock = <<>>)
  /\ Close
  /\ UNCHANGED <<mode, up, timer, reply, upward, downward>>

Verified ==
  /\ pc = "verify" /\ pc' = "dial"
  /\ UNCHANGED <<mode, up, timer, reply, ends, upward, downward>>

\* Bad seal; or the backend refuses, or does not answer in 10 s.  The client is told
\* if its deadline has not passed meanwhile.
Refuse(at, text) ==
  /\ pc = at
  /\ reply' = IF Dead THEN "none" ELSE text
  /\ Close
  /\ UNCHANGED <<mode, up, timer, upward, downward>>

\* Mutant of Lift: the deadline stays.
LiftNot == UNCHANGED timer

\* No deadline from now on, also if it has passed already.
Lift == timer' = "off"

\* Connected; the second goroutine starts.
Dialled ==
  /\ pc = "dial" /\ pc' = "splice"
  /\ back' = "open" /\ up' = "copy"
  /\ Lift
  /\ UNCHANGED <<mode, reply, ends, upward, bsent, bsock, out, rcvd, eof>>
------------------------------------------------------------------------------
\* Mutant of Forward: io.Copy(backend, client), past the bufio.Reader.
ForwardSocket ==
  sock # <<>> /\ got' = Append(got, Head(sock)) /\ sock' = Tail(sock) /\ UNCHANGED br

\* io.Copy(backend, br): first what is in the reader, then the socket.
Forward ==
  \/ br # <<>> /\ got' = Append(got, Head(br)) /\ br' = Tail(br) /\ UNCHANGED sock
  \/ /\ br = <<>> /\ sock # <<>> /\ timer # "past"
     /\ got' = Append(got, Head(sock)) /\ sock' = Tail(sock) /\ UNCHANGED br

UpCopy ==
  /\ up = "copy" /\ pc = "splice" /\ back # "rst"
  /\ Forward
  /\ UNCHANGED <<control, ends, client, sent, downward>>

\* The client has ended and all is forwarded, or a socket fails or is closed.
UpEnds ==
  /\ up = "copy" /\ up' = "end"
  /\ \/ br = <<>> /\ (Dead \/ (client = "fin" /\ sock = <<>>))
     \/ back = "rst" \/ pc = "closed"
  /\ UNCHANGED <<mode, pc, timer, reply, ends, upward, downward>>

\* Its error is dropped when the connection is closed already.
CloseWrite ==
  /\ up = "end" /\ up' = "done"
  /\ gotEnd' = TRUE
  /\ UNCHANGED <<mode, pc, timer, reply, closed, upward, downward>>

\* io.Copy(client, backend); it waits while the client does not read.
DownCopy ==
  /\ pc = "splice" /\ ~Dead
  /\ bsock # <<>> /\ Len(out) < Buf
  /\ out' = Append(out, Head(bsock)) /\ bsock' = Tail(bsock)
  /\ UNCHANGED <<control, ends, upward, back, bsent, rcvd, eof>>

\* Mutants of Over: the rest of the answer is not read; the other goroutine is
\* waited for.
OverEarly == back \in {"fin", "rst"}
OverLast == up = "done" /\ ((back = "fin" /\ bsock = <<>>) \/ back = "rst")

\* The backend has ended or failed, or the client cannot be written to.
Over == (back = "fin" /\ bsock = <<>>) \/ back = "rst" \/ (bsock # <<>> /\ Dead)

\* Both sockets are closed, whatever the other direction is doing.
DownEnds ==
  /\ pc = "splice"
  /\ Over
  /\ Close
  /\ UNCHANGED <<mode, up, timer, reply, upward, downward>>
------------------------------------------------------------------------------
ClientSends ==
  /\ client = "open" /\ closed = "no" /\ Len(sent) < MaxItems
  /\ sent' = Append(sent, Len(sent) + 1)
  /\ sock' = Append(sock, Len(sent) + 1)
  /\ UNCHANGED <<control, ends, client, br, got, downward>>

\* Sent to a socket that the guard has closed.
ClientSendsLate ==
  /\ client = "open" /\ closed = "fin" /\ closed' = "rst"
  /\ UNCHANGED <<control, gotEnd, upward, downward>>

\* It closes its sending half, or all of it (the guard sees the same), or breaks off.
ClientEnds(how) ==
  /\ client \in {"open", "fin"} \ {how} /\ client' = how
  /\ UNCHANGED <<control, ends, sent, sock, br, got, downward>>

ClientReads ==
  /\ client # "rst" /\ closed # "rst"
  /\ \/ out # <<>> /\ rcvd' = Append(rcvd, Head(out)) /\ out' = Tail(out) /\ UNCHANGED eof
     \/ out = <<>> /\ closed = "fin" /\ eof' = TRUE /\ UNCHANGED <<out, rcvd>>
  /\ UNCHANGED <<control, ends, upward, back, bsent, bsock>>

BackendSends ==
  /\ back = "open" /\ pc = "splice" /\ Len(bsent) < MaxItems
  /\ bsent' = Append(bsent, Len(bsent) + 1)
  /\ bsock' = Append(bsock, Len(bsent) + 1)
  /\ UNCHANGED <<control, ends, upward, back, out, rcvd, eof>>

BackendEnds(how) ==
  /\ back \in {"open", "fin"} \ {how} /\ back' = how
  /\ UNCHANGED <<control, ends, upward, bsent, bsock, out, rcvd, eof>>

Main == \/ Start \/ ReadLine \/ LineFails \/ Verified
        \/ Refuse("verify", "403") \/ Refuse("dial", "502")
        \/ Dialled \/ DownCopy \/ DownEnds
Upload == UpCopy \/ UpEnds \/ CloseWrite
Peers == \/ ClientSends \/ ClientSendsLate \/ ClientReads \/ BackendSends
         \/ \E how \in {"fin", "rst"} : ClientEnds(how) \/ BackendEnds(how)

Next == Main \/ Upload \/ Deadline \/ Peers

Spec == Init /\ [][Next]_vars

\* Goroutines run, dials and deadlines end.  Nothing is assumed of the peers.
FairSpec == Spec /\ WF_vars(Main) /\ WF_vars(Upload) /\ WF_vars(Deadline)
------------------------------------------------------------------------------
\* Every variable keeps its type; there is a second goroutine and something to be
\* closed only if there is a backend.
TypeOK ==
  /\ mode \in {"open", "sealed"}
  /\ pc \in {"start", "line", "verify", "dial", "splice", "closed"}
  /\ up \in {"none", "copy", "end", "done"}
  /\ timer \in {"off", "on", "past"}
  /\ reply \in {"none", "403", "502"}
  /\ client \in {"open", "fin", "rst"}
  /\ back \in {"none", "open", "fin", "rst"}
  /\ {sent, sock, br, got, bsent, bsock, out, rcvd} \subseteq Seq(Item)
  /\ gotEnd \in BOOLEAN /\ eof \in BOOLEAN
  /\ closed \in {"no", "fin", "rst"}
  /\ up = "none" <=> back = "none"
  /\ gotEnd => back # "none"

\* What the backend is meant to get: in sealed mode all but the handshake line.
Payload == IF mode = "sealed" /\ sent # <<>> THEN Tail(sent) ELSE sent

\* Client to backend is a Pipe: in order, from the first byte after the line, with
\* the end after the last one.  It is cut when the client breaks off, and also as
\* soon as the backend ends its own half.
UpPipe == INSTANCE Pipe WITH
  sent <- Payload, got <- got, ended <- gotEnd,
  broken <- client = "rst" \/ back \in {"fin", "rst"}
UpSpec == UpPipe!Spec

\* Backend to client is a Pipe: an orderly end shows that the answer is whole, even
\* if the client ended its half before, unless the backend itself broke off.
DownPipe == INSTANCE Pipe WITH
  sent <- bsent, got <- rcvd, ended <- eof,
  broken <- client = "rst" \/ back = "rst"
DownSpec == DownPipe!Spec

\* The guard never ends a session that runs: once spliced, only the backend's end or
\* a client that breaks off closes it, never the deadline of the handshake.  Before,
\* a client that is in time and waits is told why.
NoSilentEnd ==
  pc = "closed" =>
    IF up # "none"
      THEN back \in {"fin", "rst"} \/ client = "rst"
      ELSE reply # "none" \/ timer = "past" \/ client # "open"

\* Whatever the client does or does not send, its handshake comes to an end; and when
\* the backend ends, both goroutines do, unless the client does not read.
NeverStuck ==
  /\ pc = "start" ~> pc \in {"splice", "closed"}
  /\ back \in {"fin", "rst"} ~> (pc = "closed" /\ up = "done") \/ Len(out) = Buf
================================================================================
