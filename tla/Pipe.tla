--------------------------------- MODULE Pipe ---------------------------------
(***************************************************************************)
(* One direction of a relayed connection, whatever buffers and goroutines  *)
(* it is made of: what comes out is what went in, in order, and an end is  *)
(* shown only after everything came out, unless one of the peers broke off. *)
(***************************************************************************)
EXTENDS Naturals, Sequences

CONSTANT Item

VARIABLES sent,    \* what the source has put in
          got,     \* what the sink has taken out
          broken,  \* a peer has broken off
          ended    \* the sink has been shown the end

vars == <<sent, got, broken, ended>>

Init == /\ sent = <<>>
        /\ got = <<>>
        /\ broken = FALSE
        /\ ended = FALSE

\* After an orderly end nothing more goes in.
Send == /\ ended => broken
        /\ \E i \in Item : sent' = Append(sent, i)
        /\ UNCHANGED <<got, broken, ended>>

Deliver == /\ ~ended
           /\ Len(got) < Len(sent)
           /\ got' = Append(got, sent[Len(got) + 1])
           /\ UNCHANGED <<sent, broken, ended>>

Break == broken' = TRUE /\ UNCHANGED <<sent, got, ended>>

End == /\ broken \/ got = sent
       /\ ended' = TRUE
       /\ UNCHANGED <<sent, got, broken>>

Next == Send \/ Deliver \/ Break \/ End

Spec == Init /\ [][Next]_vars
===============================================================================
