------------------------------- MODULE OneShot -------------------------------
(***************************************************************************)
(* What a single-use store promises, whatever files, locks and processes   *)
(* it is made of: a key is spent once and stays spent, and a spent key     *)
(* lets at most one visitor through.                                       *)
(***************************************************************************)
EXTENDS Naturals

CONSTANT Key        \* what is spent: one entry per link and channel

VARIABLES spent,    \* keys that have been spent
          passes    \* how many visitors each key has let through

vars == <<spent, passes>>

Init == /\ spent = {}
        /\ passes = [k \in Key |-> 0]

\* The key is spent; its holder may now pass.
Burn(k) == /\ k \notin spent
           /\ spent' = spent \union {k}
           /\ UNCHANGED passes

\* The holder of a spent key goes through, once.
Pass(k) == /\ k \in spent
           /\ passes[k] = 0
           /\ passes' = [passes EXCEPT ![k] = 1]
           /\ UNCHANGED spent

Next == \E k \in Key : Burn(k) \/ Pass(k)

Spec == Init /\ [][Next]_vars
==============================================================================
