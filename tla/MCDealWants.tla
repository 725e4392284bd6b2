------------------------------ MODULE MCDealWants ------------------------------
(* Small instances of DealWants.                                             *)
EXTENDS DealWants

Key(l, w) == [len |-> l, wire |-> w]

\* Equal keys, keys of no bytes, one long key among short ones, fewer keys than
\* channels, and keys that compress.
MixedLists ==
  { <<Key(2, 2), Key(2, 2), Key(2, 2), Key(2, 2), Key(2, 2), Key(2, 2)>>,
    <<Key(0, 1), Key(0, 1), Key(0, 1), Key(0, 1)>>,
    <<Key(1, 1), Key(7, 7), Key(1, 1), Key(1, 1), Key(2, 2)>>,
    <<Key(3, 3), Key(3, 3)>>,
    <<Key(6, 1), Key(2, 2), Key(6, 1), Key(2, 2), Key(1, 1)>> }

\* Twelve equal keys a round.
EqualLists == { [i \in 1..12 |-> Key(2, 2)] }
=============================================================================
