------------------------------ MODULE MCWSHub -------------------------------
(* Instances of WSHub for TLC: two tabs of one user. *)
EXTENDS WSHub

CONSTANTS a, b, ann, s1

MCUser == [x \in Clients |-> ann]
=============================================================================
