---------------------------- MODULE MCRoomQuota ----------------------------
(* RoomQuota with interchangeable goroutines and two rooms, "1" and "1:2".   *)
(* The second name is the first with one more part, and also reads like the  *)
(* entry of the first for round 2.                                           *)
EXTENDS RoomQuota, TLC

Parts == {1, 2}
TwoRooms == {<<1>>, <<1, 2>>}

Symmetry == Permutations(Thread)
=============================================================================
