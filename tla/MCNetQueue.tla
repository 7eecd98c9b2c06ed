---------------------------- MODULE MCNetQueue ------------------------------
(* The clients of a VLAN for TLC, with the order of its list.              *)
EXTENDS NetQueue

CONSTANTS tap, user, nic

AllThree == <<tap, user, nic>>
Sent == [c \in {tap, user, nic} |-> IF c = user THEN 1 ELSE IF c = tap THEN 2 ELSE 3]

=============================================================================
