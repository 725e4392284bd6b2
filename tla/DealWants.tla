------------------------------- MODULE DealWants -------------------------------
(* How Receive shares a round's wants out over its channels: dealWants gives *)
(* each key to the channel with the lowest ratio of assigned bytes to weight, *)
(* the packs arrive at the speed of their channels, the round ends with the  *)
(* last of them, and the bytes each channel moved weigh the next round.      *)
(* Ratios are compared exactly; the code compares them as 64-bit floats.     *)
EXTENDS Integers, Sequences, FiniteSets, SequencesExt

CONSTANTS
  N,           \* channels, 0 is the control channel
  Speeds,      \* bytes a channel may move per tick
  WantLists,   \* want lists a round may have, sequences of [len, wire]
  MaxRounds    \* bound on rounds

Keys == [len : Nat, wire : Nat \ {0}]

ASSUME DealAssumption ==
  /\ N \in Nat \ {0} /\ MaxRounds \in Nat \ {0}
  /\ Speeds \subseteq Nat \ {0}
  /\ WantLists \subseteq Seq(Keys) \ {<<>>}

Channel == 0..(N - 1)

VARIABLES
  speed,      \* bytes each channel moves per tick
  round,      \* rounds dealt, the root's included
  phase,      \* "deal" or "move"
  wants,      \* wants not dealt yet
  weights,    \* what dealWants is given
  assigned,   \* bytes assigned to each channel
  shards,     \* the wants dealt to each channel
  left,       \* wire bytes a channel has still to move in this round
  wire,       \* wire bytes a channel has moved since Receive began
  prevWire    \* the same, when the weights were last taken

dealVars == <<speed, round, phase, wants, weights, assigned, shards, left, wire, prevWire>>

\* The wire bytes of a shard's pack.
WireBytes(shard) == FoldSeq(LAMBDA k, n : k.wire + n, 0, shard)

\* A weight below 1 is floored, a key of no bytes counts as one.
Weight(c) == IF weights[c] < 1 THEN 1 ELSE weights[c]
BytesUnfloored(k) == k.len
Bytes(k) == IF k.len < 1 THEN 1 ELSE k.len

IgnoresWeight(c, d) == assigned[c] < assigned[d]
\* assigned[c] / Weight(c) < assigned[d] / Weight(d)
RatioBelow(c, d) == assigned[c] * Weight(d) < assigned[d] * Weight(c)

\* The lowest ratio, ties to the lower index.
Best == CHOOSE c \in Channel : \A d \in Channel :
          ~RatioBelow(d, c) /\ (d < c => RatioBelow(c, d))

\* Receive begins with the root alone.
Root(list) == <<list[1]>>

DealTypeOK ==
  /\ speed \in [Channel -> Speeds]
  /\ round \in 1..MaxRounds /\ phase \in {"deal", "move"}
  /\ wants \in Seq(Keys) /\ shards \in [Channel -> Seq(Keys)]
  /\ \E list \in WantLists :
       /\ IsSuffix(wants, list) \/ IsSuffix(wants, Root(list))
       /\ \A c \in Channel : Range(shards[c]) \subseteq Range(list)
  /\ \A f \in {weights, assigned, left, wire, prevWire} : f \in [Channel -> Nat]
  /\ \A c \in Channel : prevWire[c] <= wire[c]

Zero == [c \in Channel |-> 0]

DealInit ==
  /\ speed \in [Channel -> Speeds]
  /\ round = 1 /\ phase = "deal"
  /\ \E list \in WantLists : wants = Root(list)
  /\ weights = Zero /\ assigned = Zero /\ left = Zero /\ wire = Zero /\ prevWire = Zero
  /\ shards = [c \in Channel |-> <<>>]

DealKey ==
  /\ phase = "deal" /\ wants # <<>>
  /\ assigned' = [assigned EXCEPT ![Best] = @ + Bytes(Head(wants))]
  /\ shards' = [shards EXCEPT ![Best] = Append(@, Head(wants))]
  /\ wants' = Tail(wants)
  /\ UNCHANGED <<speed, round, phase, weights, left, wire, prevWire>>

\* The shards are asked for; channels without one get no frame.
Ask ==
  /\ phase = "deal" /\ wants = <<>>
  /\ left' = [c \in Channel |-> WireBytes(shards[c])]
  /\ phase' = "move"
  /\ UNCHANGED <<speed, round, wants, weights, assigned, shards, wire, prevWire>>

Moved(c) == IF left[c] < speed[c] THEN left[c] ELSE speed[c]

\* Every channel moves what it can in a tick.
Tick ==
  /\ phase = "move" /\ \E c \in Channel : left[c] > 0
  /\ left' = [c \in Channel |-> left[c] - Moved(c)]
  /\ wire' = [c \in Channel |-> wire[c] + Moved(c)]
  /\ UNCHANGED <<speed, round, phase, wants, weights, assigned, shards, prevWire>>

WeightsCumulative == weights' = wire
\* The samples of the round that ended: the bytes each channel moved in it.
Sample == weights' = [c \in Channel |-> wire[c] - prevWire[c]]

\* The round ends with its last channel; the next one is sampled and dealt.
NextRound ==
  /\ phase = "move" /\ \A c \in Channel : left[c] = 0
  /\ round < MaxRounds
  /\ round' = round + 1
  /\ \E list \in WantLists : wants' = list
  /\ Sample
  /\ prevWire' = wire
  /\ assigned' = Zero /\ shards' = [c \in Channel |-> <<>>]
  /\ phase' = "deal"
  /\ UNCHANGED <<speed, left, wire>>

\* Nothing is missing any more: Receive ends with the round.
Synced ==
  /\ phase = "move" /\ \A c \in Channel : left[c] = 0
  /\ UNCHANGED dealVars

DealNext == DealKey \/ Ask \/ Tick \/ NextRound \/ Synced

DealSpec == DealInit /\ [][DealNext]_dealVars

-----------------------------------------------------------------------------
(* Properties                                                                *)

Dealt(c) == Len(shards[c])

\* No channel is locked out: whatever the weights and the lengths of the keys,
\* the first N keys of a round go to N different channels, the control channel
\* first.  While a channel has none, no other has two and none above it has one.
Probed ==
  \A c, d \in Channel : Dealt(c) = 0 => Dealt(d) <= 1 /\ (c < d => Dealt(d) = 0)

\* A channel has bytes assigned when it has keys.
Counted == \A c \in Channel : assigned[c] = 0 <=> Dealt(c) = 0

\* What a channel was asked for is what it moved since the weights were taken and
\* what is left.
Conserved ==
  \A c \in Channel :
    left[c] + wire[c] = prevWire[c] + IF phase = "deal" THEN 0 ELSE WireBytes(shards[c])

\* Shares are proportional to the weights within one key: without its last key
\* no channel would be ahead of any other.
Balanced ==
  \A c, d \in Channel : Dealt(c) > 0 =>
    (assigned[c] - Bytes(Last(shards[c]))) * Weight(d) <= assigned[d] * Weight(c)

\* All of it: what holds at every step of a round.
DealIInv == DealTypeOK /\ Probed /\ Counted /\ Conserved /\ Balanced

\* What is sampled is what was dealt: the weights of a round are the wire bytes
\* of the last round's shards, in every round after the root's.
SampledIsDealt ==
  [][round' # round => \A c \in Channel : weights'[c] = WireBytes(shards[c])]_dealVars

DealtBytes == {Bytes(k) : k \in UNION {Range(shards[c]) : c \in Channel}}
Largest == CHOOSE m \in DealtBytes : \A n \in DealtBytes : n <= m

\* What the comments on the samples and on dealWants say: a slow channel stops
\* being the straggler of every round.  Once both channels have been sampled in
\* a round, the slower is dealt no more bytes than the faster, within one key.
StragglerRelieved ==
  (phase = "move" /\ round > 2) =>
    \A c, d \in Channel : (speed[c] < speed[d] /\ weights[c] > 0 /\ weights[d] > 0) =>
      assigned[c] <= assigned[d] + Largest
=============================================================================
