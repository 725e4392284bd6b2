-------------------------- MODULE MCShardedTransfer ---------------------------
(* Small instances of ShardedTransfer.                                       *)
EXTENDS ShardedTransfer

Kind(push, punctual) == [push |-> push, punctual |-> punctual]

\* A late attach on a pull stalls it for good (LatePull); no other mode does.
EndingModes == {Kind(TRUE, TRUE), Kind(FALSE, TRUE), Kind(TRUE, FALSE)}
LatePull == {Kind(FALSE, FALSE)}

TwoExtras == 1..2
ThreeExtras == 1..3
=============================================================================
