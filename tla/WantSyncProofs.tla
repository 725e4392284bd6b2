--------------------------- MODULE WantSyncProofs ----------------------------
(* The safety of the want loop for every graph, every set of channels and    *)
(* untrusted peers, every sender and every bound.                            *)
EXTENDS WantSync, TLAPS

-----------------------------------------------------------------------------
(* The graph                                                                 *)

\* A subtree that is complete in a store is complete in every larger one: what
\* Wants pruned stays pruned while others write.
LEMMA CompleteMonotone ==
  ASSUME NEW S, NEW T, NEW k, S \subseteq T, Complete(S, k)
  PROVE  Complete(T, k)
BY DEF Complete

\* An object that is present over complete children is complete: the step from
\* a round's objects to the frontier of the next round.
LEMMA CompleteAbove ==
  ASSUME NEW S \in SUBSET Key, NEW k \in S, \A x \in Kids[k] : Complete(S, x)
  PROVE  Complete(S, k)
<1> DEFINE Whole == UNION {D \in SUBSET S : Closed(D)}
<1> DEFINE C == {k} \cup Whole
<1>1. Closed(Whole)
  BY DEF Closed
<1>2. Kids[k] \subseteq Whole
  BY DEF Complete
<1>3. Closed(C)
  BY <1>1, <1>2 DEF Closed
<1>4. C \in SUBSET S
  OBVIOUS
<1> QED
  BY <1>3, <1>4 DEF Complete

-----------------------------------------------------------------------------
(* Types                                                                     *)

\* The packs the actions put on a channel are packs.
LEMMA PackFacts ==
  /\ Empty \in Pack
  /\ \A t \in {"end", "err", "bad"} : [Empty EXCEPT !.term = t] \in Pack
  /\ \A t \in {"end", "err", "bad"} : \A o \in SUBSET Key :
        [Empty EXCEPT !.objs = o, !.term = t] \in Pack
BY DEF Empty, Pack

\* What is left of a pack whose objects are dropped, and of one that is cut short,
\* are packs.
LEMMA PackRests ==
  ASSUME NEW p \in Pack, NEW o \in SUBSET p.objs
  PROVE  /\ [Empty EXCEPT !.term = p.term] \in Pack
         /\ [p EXCEPT !.objs = o, !.term = "bad"] \in Pack
BY DEF Empty, Pack

\* So is what is left of one when an object is taken out.
LEMMA PackLess ==
  ASSUME NEW p \in Pack, NEW k
  PROVE  /\ [p EXCEPT !.objs = @ \ {k}] \in Pack
         /\ [p EXCEPT !.forged = @ \ {k}] \in Pack
BY DEF Pack

\* A request in flight is a set of one TWants.
LEMMA SingletonIn ==
  ASSUME NEW S, NEW x \in S
  PROVE  {x} \in SUBSET S
OBVIOUS

\* A fault below the bound keeps the count in its range.
LEMMA OneFaultMore ==
  ASSUME faults \in 0..MaxFaults, faults < MaxFaults
  PROVE  faults + 1 \in 0..MaxFaults
BY SyncAssumption

\* Every step keeps every variable in its range.
LEMMA TypeStep ==
  ASSUME TypeOK, [Next]_vars
  PROVE  TypeOK'
<1> USE GraphAssumption, SyncAssumption, RogueAssumption, PackFacts
<1>1. CASE Begin
  BY <1>1 DEF Begin, TypeOK
<1>2. CASE Finish
  <2>1. request' \in [Channel -> SUBSET (SUBSET Key)]
    <3>1. PICK written \in SUBSET Channel :
            request' = [c \in Channel |->
              IF c \in written /\ ~cut[c] THEN {{}} ELSE request[c]]
      BY <1>2 DEF Finish, Released
    <3>2. \A c \in Channel :
            (IF c \in written /\ ~cut[c] THEN {{}} ELSE request[c]) \in SUBSET (SUBSET Key)
      BY DEF TypeOK
    <3> QED
      BY <3>1, <3>2
  <2>2. pc' \in {"ok", "local"}
    BY <1>2 DEF Finish
  <2> QED
    BY <1>2, <2>1, <2>2 DEF Finish, TypeOK
<1>3. CASE DealRound
  <2>1. PICK ask \in Asks(wants) : \E deal \in Deals(ask) :
          /\ round' = ask
          /\ carry' = wants \ ask
          /\ request' = [c \in Channel |->
               IF c \in Used(deal) /\ ~cut[c] THEN {Shard(deal, c)} ELSE request[c]]
          /\ \/ pc' = "round" /\ active' = Used(deal)
             \/ (\E c \in Used(deal) : cut[c]) /\ pc' = "local" /\ active' = {}
    BY <1>3 DEF DealRound
  <2>2. ask \subseteq wants
    BY DEF Asks
  <2>3. PICK deal \in Deals(ask) :
          /\ request' = [c \in Channel |->
               IF c \in Used(deal) /\ ~cut[c] THEN {Shard(deal, c)} ELSE request[c]]
          /\ \/ pc' = "round" /\ active' = Used(deal)
             \/ (\E c \in Used(deal) : cut[c]) /\ pc' = "local" /\ active' = {}
    BY <2>1
  <2>4. \A c : Shard(deal, c) \in SUBSET Key
    BY <2>2 DEF Deals, Shard, TypeOK
  <2>5. request' \in [Channel -> SUBSET (SUBSET Key)]
    <3>1. \A c \in Channel : request[c] \in SUBSET (SUBSET Key)
      BY DEF TypeOK
    <3>2. \A c \in Channel : {Shard(deal, c)} \in SUBSET (SUBSET Key)
      <4> TAKE c \in Channel
      <4> HIDE DEF Shard
      <4>1. Shard(deal, c) \in SUBSET Key
        BY <2>4
      <4> QED
        BY <4>1, SingletonIn
    <3>3. request' = [c \in Channel |->
            IF c \in Used(deal) /\ ~cut[c] THEN {Shard(deal, c)} ELSE request[c]]
      BY <2>3
    <3>4. \A c \in Channel : (IF c \in Used(deal) /\ ~cut[c] THEN {Shard(deal, c)} ELSE request[c])
                                \in SUBSET (SUBSET Key)
      <4> TAKE c \in Channel
      <4>1. CASE c \in Used(deal) /\ ~cut[c]
        BY <3>2, <4>1
      <4>2. CASE ~(c \in Used(deal) /\ ~cut[c])
        BY <3>1, <4>2
      <4> QED
        BY <4>1, <4>2
    <3> QED
      BY <3>3, <3>4
  <2>6. pc' \in {"round", "local"} /\ active' \subseteq Channel
    BY <2>3 DEF Used
  <2> QED
    BY <1>3, <2>1, <2>2, <2>5, <2>6 DEF DealRound, TypeOK
<1>4. CASE RoundFails
  BY <1>4 DEF RoundFails, TypeOK, wire
<1>5. CASE NextRound
  BY <1>5 DEF NextRound, NextFrontier, TypeOK, wire
<1>6. CASE Crash
  <2>1. /\ request' \in [Channel -> SUBSET (SUBSET Key)]
        /\ pack' \in [Channel -> Pack]
    BY <1>6 DEF Crash
  <2>2. store' \subseteq Key /\ fresh' = {} /\ pc' = "idle" /\ active' = {}
    BY <1>6 DEF Crash, TypeOK
  <2>3. faults' \in 0..MaxFaults
    BY <1>6, OneFaultMore DEF Crash, TypeOK
  <2> QED
    BY <1>6, <2>1, <2>2, <2>3 DEF Crash, TypeOK
<1>7. CASE Done
  BY <1>7 DEF Done, TypeOK, vars, wire, recv
<1>8. ASSUME NEW k \in Key, Scan(k) PROVE TypeOK'
  BY <1>8 DEF Scan, TypeOK, wire
<1>9. ASSUME NEW k \in Key, OtherWrite(k) PROVE TypeOK'
  BY <1>9 DEF OtherWrite, TypeOK, wire, recv
<1>10. ASSUME NEW c \in Channel, SendRound(c) PROVE TypeOK'
  <2>1. request' \in [Channel -> SUBSET (SUBSET Key)]
    BY <1>10 DEF SendRound, TypeOK
  <2>2. pack' \in [Channel -> Pack]
    <3>1. \A keys \in request[c] : keys \subseteq Key
      BY DEF TypeOK
    <3>2. PICK o \in SUBSET Key, t \in {"end", "err"} :
            pack' = [pack EXCEPT ![c] = [Empty EXCEPT !.objs = o, !.term = t]]
      BY <1>10, <3>1 DEF SendRound
    <3> QED
      BY <3>2 DEF TypeOK
  <2>3. sender' \in [Channel -> {"none", "reading", "done", "failed", "rogue"}]
    BY <1>10 DEF SendRound, TypeOK
  <2>4. faults' \in 0..MaxFaults
    BY <1>10, OneFaultMore DEF SendRound, TypeOK
  <2>5. UNCHANGED <<store, fresh, recv, cut>>
    BY <1>10 DEF SendRound
  <2> QED
    BY <2>1, <2>2, <2>3, <2>4, <2>5 DEF TypeOK, recv
<1>11. ASSUME NEW c \in Channel, SendDone(c) PROVE TypeOK'
  BY <1>11 DEF SendDone, TypeOK, recv
<1>12. ASSUME NEW c \in Channel, SendBroken(c) PROVE TypeOK'
  BY <1>12 DEF SendBroken, TypeOK, recv
<1>13. ASSUME NEW c \in Channel, RoguePack(c) PROVE TypeOK'
  BY <1>13 DEF RoguePack, TypeOK, recv
<1>14. ASSUME NEW c \in Channel, AbandonDecoder(c) PROVE TypeOK'
  <2>1. pack' \in [Channel -> Pack]
    <3>1. [Empty EXCEPT !.term = pack[c].term] \in Pack
      BY PackRests DEF TypeOK
    <3>2. pack' = pack \/ pack' = [pack EXCEPT ![c] = [Empty EXCEPT !.term = pack[c].term]]
      BY <1>14 DEF AbandonDecoder
    <3> QED
      BY <3>1, <3>2 DEF TypeOK
  <2> QED
    BY <1>14, <2>1 DEF AbandonDecoder, TypeOK
<1>15. ASSUME NEW c \in Channel, Cut(c) PROVE TypeOK'
  <2>1. request' \in [Channel -> SUBSET (SUBSET Key)]
    <3>1. PICK kept \in {{}, request[c]} : request' = [request EXCEPT ![c] = kept]
      BY <1>15 DEF Cut
    <3>2. {} \in SUBSET (SUBSET Key) /\ request[c] \in SUBSET (SUBSET Key)
      BY DEF TypeOK
    <3> QED
      BY <3>1, <3>2 DEF TypeOK
  <2>2. pack' \in [Channel -> Pack]
    <3>1. \/ \E objs \in SUBSET pack[c].objs :
               pack' = [pack EXCEPT ![c] = [pack[c] EXCEPT !.objs = objs, !.term = "bad"]]
          \/ pack' = pack
      BY <1>15, Zenon DEF Cut
    <3>2. ASSUME NEW objs \in SUBSET pack[c].objs
          PROVE  [pack[c] EXCEPT !.objs = objs, !.term = "bad"] \in Pack
      BY PackRests DEF TypeOK
    <3>3. PICK p \in Pack : pack' = [pack EXCEPT ![c] = p] \/ pack' = pack
      <4>1. Empty \in Pack
        BY PackFacts
      <4> QED
        BY <3>1, <3>2, <4>1
    <3> QED
      BY <3>3 DEF TypeOK
  <2>3. cut' \in [Channel -> BOOLEAN]
    BY <1>15 DEF Cut, TypeOK
  <2>4. faults' \in 0..MaxFaults
    BY <1>15, OneFaultMore DEF Cut, TypeOK
  <2> QED
    BY <1>15, <2>1, <2>2, <2>3, <2>4 DEF Cut, TypeOK, recv
<1>16. ASSUME NEW c \in Channel, CloseDecoder(c) PROVE TypeOK'
  <2>1. errs' \subseteq {"remote", "decode", "store"}
    <3>1. pack[c].term \in {"open", "end", "err", "bad"}
      BY DEF TypeOK, Pack
    <3> QED
      BY <1>16, <3>1 DEF CloseDecoder, TypeOK
  <2>2. pack' \in [Channel -> Pack]
    <3>1. PICK p \in Pack : pack' = [pack EXCEPT ![c] = p]
      BY <1>16, PackFacts DEF CloseDecoder
    <3> QED
      BY <3>1 DEF TypeOK
  <2> QED
    BY <1>16, <2>1, <2>2 DEF CloseDecoder, TypeOK
<1>17. ASSUME NEW c \in Channel, NEW k \in Key, Deliver(c, k) PROVE TypeOK'
  <2>1. pack' \in [Channel -> Pack]
    <3>1. pack[c] \in Pack /\ pack' = [pack EXCEPT ![c] = [pack[c] EXCEPT !.objs = @ \ {k}]]
      BY <1>17 DEF Deliver, TypeOK
    <3>2. [pack[c] EXCEPT !.objs = @ \ {k}] \in Pack
      BY <3>1, PackLess
    <3> QED
      BY <3>1, <3>2 DEF TypeOK
  <2>2. next' \subseteq Key
    BY <1>17, GraphAssumption DEF Deliver, TypeOK
  <2>3. store' \subseteq Key /\ fresh' \subseteq store' /\ received' \subseteq Key
    BY <1>17 DEF Deliver, TypeOK
  <2> QED
    BY <1>17, <2>1, <2>2, <2>3 DEF Deliver, TypeOK
<1>18. ASSUME NEW c \in Channel, NEW k \in Key, DeliverForged(c, k) PROVE TypeOK'
  <2>1. pack' \in [Channel -> Pack]
    <3>1. pack[c] \in Pack /\ pack' = [pack EXCEPT ![c] = [pack[c] EXCEPT !.forged = @ \ {k}]]
      BY <1>18 DEF DeliverForged, TypeOK
    <3>2. [pack[c] EXCEPT !.forged = @ \ {k}] \in Pack
      BY <3>1, PackLess
    <3> QED
      BY <3>1, <3>2 DEF TypeOK
  <2> QED
    BY <1>18, <2>1 DEF DeliverForged, TypeOK
<1>19. CASE UNCHANGED vars
  BY <1>19 DEF TypeOK, vars, wire, recv
<1>20. CASE ScanFails
  <2>1. faults' \in 0..MaxFaults
    BY <1>20, OneFaultMore DEF ScanFails, TypeOK
  <2> QED
    BY <1>20, <2>1 DEF ScanFails, TypeOK, wire
<1>21. CASE StoreFails
  <2>1. faults' \in 0..MaxFaults
    BY <1>21, OneFaultMore DEF StoreFails, TypeOK
  <2> QED
    BY <1>21, <2>1 DEF StoreFails, TypeOK, wire
<1> QED
  BY <1>20, <1>21, <1>1, <1>2, <1>3, <1>4, <1>5, <1>6, <1>7, <1>8, <1>9, <1>10, <1>11, <1>12,
     <1>13, <1>14, <1>15, <1>16, <1>17, <1>18, <1>19 DEF Next

-----------------------------------------------------------------------------
(* Accounting: no key is ever forgotten                                      *)

\* Objects may be stored while the keys to account for stay the same.
LEMMA AccountedKept ==
  ASSUME TypeOK, TypeOK', Accounted, store \subseteq store',
         pc' \in {"scan", "round"} => pc \in {"scan", "round"} /\ Outstanding' = Outstanding
  PROVE  Accounted'
BY DEF Accounted

\* Every step accounts for the keys it takes out of sight.
LEMMA AccountedStep ==
  ASSUME IInv, TypeOK', [Next]_vars
  PROVE  Accounted'
<1> USE DEF IInv
<1>1. CASE Begin
  BY <1>1 DEF Begin, Accounted, Outstanding
<1>2. CASE ScanFails \/ Finish \/ RoundFails \/ Crash
  BY <1>2 DEF ScanFails, Finish, RoundFails, Crash, Accounted
<1>3. CASE DealRound
  <2>1. PICK ask \in Asks(wants) : round' = ask /\ carry' = wants \ ask
    BY <1>3 DEF DealRound
  <2>2. pc = "scan" /\ frontier = {} /\ store' = store /\ pc' \in {"round", "local"}
    BY <1>3 DEF DealRound
  <2>3. pc' = "round" => Outstanding' = Outstanding
    BY <2>1, <2>2 DEF Outstanding, Asks
  <2> QED
    BY <2>2, <2>3, AccountedKept
<1>4. CASE NextRound
  <2> SUFFICES ASSUME NEW S \in SUBSET Key, store \subseteq S,
                      \A k \in next \cup carry : Complete(S, k)
               PROVE  Complete(S, Root)
    BY <1>4 DEF NextRound, NextFrontier, Accounted, Outstanding
  <2>1. ASSUME NEW k \in round PROVE Complete(S, k)
    <3>1. k \in S /\ Kids[k] \subseteq next
      BY <1>4 DEF NextRound, Delivered, ReceivedStored, TypeOK
    <3> QED
      BY <3>1, CompleteAbove
  <2>2. pc = "round" /\ \A k \in Outstanding : Complete(S, k)
    BY <1>4, <2>1 DEF NextRound, Outstanding
  <2> QED
    BY <2>2 DEF Accounted
<1>5. ASSUME NEW k \in Key, Scan(k) PROVE Accounted'
  <2>1. pc = "scan" /\ pc' = "scan" /\ store' = store /\ k \in frontier
    BY <1>5 DEF Scan
  <2>2. CASE MustRequest(store, k)
    <3>1. Outstanding' = Outstanding
      BY <1>5, <2>1, <2>2 DEF Scan, Outstanding
    <3> QED
      BY <2>1, <3>1, AccountedKept
  <2>3. CASE ~MustRequest(store, k)
    <3>1. Complete(store, k)
      BY <2>3 DEF MustRequest
    <3> SUFFICES ASSUME NEW S \in SUBSET Key, store \subseteq S,
                        \A x \in Outstanding' : Complete(S, x)
                 PROVE  Complete(S, Root)
      BY <2>1 DEF Accounted
    <3>2. \A x \in Outstanding : x = k \/ x \in Outstanding'
      BY <1>5, <2>1, <2>3 DEF Scan, Outstanding
    <3>3. Complete(S, k)
      BY <3>1, CompleteMonotone
    <3> QED
      BY <2>1, <3>2, <3>3 DEF Accounted
  <2> QED
    BY <2>2, <2>3
<1>6. ASSUME NEW k \in Key, OtherWrite(k) PROVE Accounted'
  BY <1>6, AccountedKept DEF OtherWrite, recv, Outstanding
<1>7. ASSUME NEW c \in Channel,
             SendRound(c) \/ SendDone(c) \/ SendBroken(c) \/ RoguePack(c) \/ Cut(c)
      PROVE  Accounted'
  BY <1>7, AccountedKept
  DEF SendRound, SendDone, SendBroken, RoguePack, Cut, recv, Outstanding
<1>8. ASSUME NEW c \in Channel, AbandonDecoder(c) \/ CloseDecoder(c) PROVE Accounted'
  BY <1>8, AccountedKept DEF AbandonDecoder, CloseDecoder, Outstanding
<1>9. ASSUME NEW c \in Channel, NEW k \in Key, Deliver(c, k) \/ DeliverForged(c, k)
      PROVE  Accounted'
  BY <1>9, AccountedKept DEF Deliver, DeliverForged, Outstanding
<1>10. CASE StoreFails
  BY <1>10, AccountedKept DEF StoreFails, Outstanding
<1>11. CASE Done \/ UNCHANGED vars
  BY <1>11, AccountedKept DEF Done, vars, recv, Outstanding
<1> QED
  BY <1>1, <1>2, <1>3, <1>4, <1>5, <1>6, <1>7, <1>8, <1>9, <1>10, <1>11 DEF Next

-----------------------------------------------------------------------------
(* Receipt and release                                                       *)

\* What a round received without a store error is stored with its children noted.
LEMMA ReceivedStep ==
  ASSUME IInv, TypeOK', [Next]_vars
  PROVE  ReceivedStored'
<1> USE DEF IInv
<1>1. CASE Begin \/ ScanFails \/ StoreFails \/ Finish \/ RoundFails \/ NextRound \/ Crash
  BY <1>1 DEF Begin, ScanFails, StoreFails, Finish, RoundFails, NextRound, Crash, ReceivedStored
<1>2. CASE DealRound
  BY <1>2 DEF DealRound, ReceivedStored
<1>3. ASSUME NEW k \in Key, Scan(k) \/ OtherWrite(k) PROVE ReceivedStored'
  BY <1>3 DEF Scan, OtherWrite, recv, ReceivedStored
<1>4. ASSUME NEW c \in Channel,
             SendRound(c) \/ SendDone(c) \/ SendBroken(c) \/ RoguePack(c) \/ Cut(c)
      PROVE  ReceivedStored'
  BY <1>4 DEF SendRound, SendDone, SendBroken, RoguePack, Cut, recv, ReceivedStored
<1>5. ASSUME NEW c \in Channel, AbandonDecoder(c) \/ CloseDecoder(c) PROVE ReceivedStored'
  BY <1>5 DEF AbandonDecoder, CloseDecoder, ReceivedStored
<1>6. ASSUME NEW c \in Channel, NEW k \in Key, Deliver(c, k) PROVE ReceivedStored'
  BY <1>6 DEF Deliver, ReceivedStored
<1>7. ASSUME NEW c \in Channel, NEW k \in Key, DeliverForged(c, k) PROVE ReceivedStored'
  BY <1>7 DEF DeliverForged, ReceivedStored
<1>8. CASE Done \/ UNCHANGED vars
  BY <1>8 DEF Done, vars, recv, ReceivedStored
<1> QED
  BY <1>1, <1>2, <1>3, <1>4, <1>5, <1>6, <1>7, <1>8 DEF Next

\* The loop ends only over a complete tree: with nothing left to account for,
\* the root itself is complete.
LEMMA NothingLeft ==
  ASSUME IInv, Finish
  PROVE  Complete(store, Root)
<1>1. store \in SUBSET Key /\ Outstanding = {} /\ pc = "scan"
  BY DEF IInv, TypeOK, Finish, Outstanding
<1> QED
  BY <1>1 DEF IInv, Accounted

\* The store shrinks only in a crash, which ends the attempt.
LEMMA StoreGrows ==
  ASSUME TypeOK, [Next]_vars
  PROVE  store \subseteq store' \/ Crash
BY DEF Next, vars, Begin, ScanFails, Finish, DealRound, StoreFails, RoundFails, NextRound,
       Done, Scan, OtherWrite, SendRound, SendDone, SendBroken, RoguePack, AbandonDecoder, Cut, CloseDecoder,
       Deliver, DeliverForged

\* Success, an empty TWants and a released sender each imply a complete tree.
LEMMA ReleaseStep ==
  ASSUME IInv, TypeOK', [Next]_vars
  PROVE  /\ FinalOnlyWhenSynced'
         /\ NoneReleased'
         /\ SyncedOnOk'
         /\ SenderReleased'
<1> DEFINE Goal == FinalOnlyWhenSynced' /\ NoneReleased' /\ SyncedOnOk' /\ SenderReleased'
<1> USE DEF IInv, FinalOnlyWhenSynced, NoneReleased, SyncedOnOk, SenderReleased
<1>0. Complete(store, Root) /\ store \subseteq store' => Complete(store', Root)
  BY CompleteMonotone
<1>1. CASE Begin
  BY <1>1 DEF Begin
<1>2. CASE Finish
  BY <1>2, NothingLeft DEF Finish, Released
<1>3. CASE DealRound
  <2>1. PICK ask \in Asks(wants) : \E deal \in Deals(ask) :
          request' = [c \in Channel |->
               IF c \in Used(deal) /\ ~cut[c] THEN {Shard(deal, c)} ELSE request[c]]
    BY <1>3 DEF DealRound
  <2>2. \A c \in Channel : {} \notin request[c]
    BY <1>3 DEF DealRound
  <2>3. \A c \in Channel : {} \notin request'[c]
    BY <2>1, <2>2 DEF Used
  <2> QED
    BY <1>3, <2>3 DEF DealRound
<1>4. CASE ScanFails \/ StoreFails \/ RoundFails \/ NextRound
  BY <1>4 DEF ScanFails, StoreFails, RoundFails, NextRound, wire
<1>5. CASE Crash
  BY <1>5 DEF Crash
<1>6. ASSUME NEW k \in Key, Scan(k) PROVE Goal
  BY <1>6 DEF Scan, wire
<1>7. ASSUME NEW k \in Key, OtherWrite(k) PROVE Goal
  BY <1>7, <1>0 DEF OtherWrite, wire, recv
<1>8. ASSUME NEW c \in Channel, SendRound(c) PROVE Goal
  <2>1. /\ UNCHANGED <<store, pc, wants, errs, frontier>>
        /\ sender[c] = "reading"
        /\ \/ sender' = sender
           \/ sender' = [sender EXCEPT ![c] = "failed"]
    BY <1>8 DEF SendRound, recv
  <2>2. \A x \in Channel : request'[x] \subseteq request[x]
    BY <1>8 DEF SendRound, TypeOK
  <2> QED
    BY <2>1, <2>2 DEF TypeOK
<1>9. ASSUME NEW c \in Channel, SendDone(c) PROVE Goal
  BY <1>9 DEF SendDone, recv, TypeOK
<1>10. ASSUME NEW c \in Channel, SendBroken(c) PROVE Goal
  BY <1>10 DEF SendBroken, recv, TypeOK
<1>11. ASSUME NEW c \in Channel, RoguePack(c) PROVE Goal
  BY <1>11 DEF RoguePack, recv, TypeOK
<1>12. ASSUME NEW c \in Channel, AbandonDecoder(c) \/ CloseDecoder(c) PROVE Goal
  BY <1>12 DEF AbandonDecoder, CloseDecoder, wire
<1>13. ASSUME NEW c \in Channel, NEW k \in Key, Deliver(c, k) \/ DeliverForged(c, k)
       PROVE  Goal
  BY <1>13 DEF Deliver, DeliverForged
<1>14. CASE Done \/ UNCHANGED vars
  BY <1>14 DEF Done, vars, wire, recv
<1>15. ASSUME NEW c \in Channel, Cut(c) PROVE Goal
  <2>1. \A x \in Channel : {} \in request'[x] => {} \in request[x]
    <3>1. PICK kept \in {{}, request[c]} : request' = [request EXCEPT ![c] = kept]
      BY <1>15 DEF Cut
    <3>2. kept \subseteq request[c]
      BY <3>1
    <3> QED
      BY <3>1, <3>2 DEF TypeOK
  <2> QED
    BY <1>15, <2>1 DEF Cut, recv
<1> QED
  BY <1>1, <1>2, <1>3, <1>4, <1>5, <1>6, <1>7, <1>8, <1>9, <1>10, <1>11, <1>12, <1>13,
     <1>14, <1>15 DEF Next

-----------------------------------------------------------------------------
(* Frames and faults                                                         *)

\* Every channel carries one frame of the running round at most.
LEMMA FramedStep ==
  ASSUME TypeOK, Framed, [Next]_vars
  PROVE  Framed'
<1> DEFINE Fine(c) ==
      (sender[c] # "rogue" /\ ~cut[c]) =>
        /\ pc = "scan" => request[c] = {} /\ pack[c] = Empty
        /\ pc = "round" =>
             /\ request[c] = {} \/ (c \in active /\ pack[c] = Empty)
             /\ \A x, y \in request[c] : x = y
             /\ c \in active \/ "store" \in errs \/ pack[c] = Empty
<1>0. /\ Framed <=> \A c \in Channel : Fine(c)
      /\ Framed' <=> \A c \in Channel : Fine(c)'
  BY DEF Framed
<1>a. ASSUME UNCHANGED <<pc, active, errs, request, pack, sender, cut>> PROVE Framed'
  BY <1>a DEF Framed
<1>1. CASE Begin
  BY <1>1 DEF Begin, Framed
<1>2. CASE ScanFails \/ Finish \/ RoundFails \/ Crash
  <2>1. pc' \notin {"scan", "round"}
    BY <1>2 DEF ScanFails, Finish, RoundFails, Crash
  <2> QED
    BY <2>1 DEF Framed
<1>3. CASE DealRound
  <2>1. PICK ask \in Asks(wants) : \E deal \in Deals(ask) :
          /\ request' = [c \in Channel |->
               IF c \in Used(deal) /\ ~cut[c] THEN {Shard(deal, c)} ELSE request[c]]
          /\ pc' = "round" => active' = Used(deal)
    BY <1>3 DEF DealRound
  <2>4. PICK deal \in Deals(ask) :
          /\ request' = [c \in Channel |->
               IF c \in Used(deal) /\ ~cut[c] THEN {Shard(deal, c)} ELSE request[c]]
          /\ pc' = "round" => active' = Used(deal)
    BY <2>1
  <2>2. pc = "scan" /\ pc' # "scan" /\ UNCHANGED <<pack, sender, cut>>
    BY <1>3 DEF DealRound
  <2>3. \A c \in Channel : c \in Used(deal) \/ request'[c] = request[c]
    BY <2>4
  <2> QED
    BY <2>2, <2>3, <2>4 DEF Framed
<1>4. CASE NextRound
  BY <1>4 DEF NextRound, wire, Framed
<1>5. CASE StoreFails
  BY <1>5 DEF StoreFails, wire, Framed
<1>6. ASSUME NEW k \in Key, Scan(k) \/ OtherWrite(k) PROVE Framed'
  BY <1>6, <1>a DEF Scan, OtherWrite, recv, wire
<1>7. ASSUME NEW c \in Channel, SendRound(c) PROVE Framed'
  <2>1. /\ UNCHANGED <<pc, active, errs, cut>>
        /\ request' = [request EXCEPT ![c] = {}] /\ request[c] # {}
        /\ pc \in {"scan", "round"} /\ sender[c] = "reading" /\ ~cut[c]
    BY <1>7 DEF SendRound, recv
  <2>2. \A x \in Channel \ {c} : UNCHANGED <<request[x], pack[x], sender[x]>>
    BY <1>7 DEF SendRound, TypeOK
  <2>3. pc = "round" /\ c \in active
    BY <2>1 DEF Framed
  <2>4. Fine(c)'
    BY <2>1, <2>3 DEF TypeOK
  <2>5. ASSUME NEW x \in Channel \ {c} PROVE Fine(x)'
    BY <1>0, <2>1, <2>2
  <2> QED
    BY <1>0, <2>4, <2>5
<1>8. ASSUME NEW c \in Channel, SendDone(c) \/ SendBroken(c) PROVE Framed'
  <2>1. /\ UNCHANGED <<pc, active, errs, pack, cut>>
        /\ request' = [request EXCEPT ![c] = {}] /\ sender[c] = "reading"
    BY <1>8 DEF SendDone, SendBroken, recv
  <2>2. \A x \in Channel \ {c} : UNCHANGED <<request[x], sender[x]>>
    BY <1>8 DEF SendDone, SendBroken, TypeOK
  <2>3. Fine(c)'
    BY <1>0, <2>1 DEF TypeOK
  <2>4. ASSUME NEW x \in Channel \ {c} PROVE Fine(x)'
    BY <1>0, <2>1, <2>2
  <2> QED
    BY <1>0, <2>3, <2>4
<1>9. ASSUME NEW c \in Channel, RoguePack(c) PROVE Framed'
  <2>1. /\ UNCHANGED <<pc, active, errs, sender, cut>> /\ sender[c] = "rogue"
        /\ \A x \in Channel \ {c} : UNCHANGED <<request[x], pack[x]>>
    BY <1>9 DEF RoguePack, recv, TypeOK
  <2> QED
    BY <2>1 DEF Framed
<1>10. ASSUME NEW c \in Channel, Cut(c) PROVE Framed'
  <2>1. /\ UNCHANGED <<pc, active, errs, sender>> /\ cut'[c]
        /\ \A x \in Channel \ {c} : UNCHANGED <<request[x], cut[x]>>
    BY <1>10 DEF Cut, recv, TypeOK
  <2>2. \A x \in Channel \ {c} : pack'[x] = pack[x]
    BY <1>10 DEF Cut, TypeOK
  <2> QED
    BY <2>1, <2>2 DEF Framed
<1>11. ASSUME NEW c \in Channel, AbandonDecoder(c) PROVE Framed'
  <2>1. /\ UNCHANGED <<pc, errs, request, sender, cut>> /\ pc = "round" /\ "store" \in errs
        /\ pack[c].objs \cup pack[c].forged # {} /\ c \in active
        /\ \A x \in Channel \ {c} : pack'[x] = pack[x] /\ (x \in active' <=> x \in active)
    BY <1>11 DEF AbandonDecoder, TypeOK
  <2>2. pack[c] # Empty
    BY <2>1 DEF Empty
  <2>3. Fine(c)'
    BY <1>0, <2>1, <2>2
  <2>4. ASSUME NEW x \in Channel \ {c} PROVE Fine(x)'
    BY <1>0, <2>1
  <2> QED
    BY <1>0, <2>3, <2>4
<1>12. ASSUME NEW c \in Channel, CloseDecoder(c) PROVE Framed'
  <2>1. /\ UNCHANGED <<pc, request, sender, cut>> /\ pc = "round" /\ c \in active
        /\ pack[c].term # "open" /\ active' = active \ {c} /\ errs \subseteq errs'
    BY <1>12 DEF CloseDecoder
  <2>2. /\ ~cut[c] => pack'[c] = Empty
        /\ \A x \in Channel \ {c} : pack'[x] = pack[x]
    BY <1>12 DEF CloseDecoder, TypeOK
  <2>3. pack[c] # Empty
    BY <2>1 DEF Empty
  <2>4. Fine(c)'
    BY <1>0, <2>1, <2>2, <2>3
  <2>5. ASSUME NEW x \in Channel \ {c} PROVE Fine(x)'
    BY <1>0, <2>1, <2>2
  <2> QED
    BY <1>0, <2>4, <2>5
<1>13. ASSUME NEW c \in Channel, NEW k \in Key, Deliver(c, k) \/ DeliverForged(c, k)
       PROVE  Framed'
  <2>1. /\ UNCHANGED <<pc, active, request, sender, cut>> /\ pc = "round" /\ c \in active
        /\ pack[c].objs \cup pack[c].forged # {} /\ errs \subseteq errs'
    BY <1>13 DEF Deliver, DeliverForged
  <2>2. \A x \in Channel \ {c} : pack'[x] = pack[x]
    BY <1>13 DEF Deliver, DeliverForged, TypeOK
  <2>3. pack[c] # Empty
    BY <2>1 DEF Empty
  <2>4. Fine(c)'
    BY <1>0, <2>1, <2>3
  <2>5. ASSUME NEW x \in Channel \ {c} PROVE Fine(x)'
    BY <1>0, <2>1, <2>2
  <2> QED
    BY <1>0, <2>4, <2>5
<1>14. CASE Done \/ UNCHANGED vars
  BY <1>14, <1>a DEF Done, vars, recv, wire
<1> QED
  BY <1>1, <1>2, <1>3, <1>4, <1>5, <1>6, <1>7, <1>8, <1>9, <1>10, <1>11, <1>12, <1>13, <1>14
  DEF Next

\* Below a key the sender has completely, it has everything.
LEMMA CompleteBelow ==
  ASSUME NEW S, NEW k, Complete(S, k)
  PROVE  k \in S /\ \A x \in Kids[k] : Complete(S, x)
BY DEF Complete, Closed

\* As long as nothing has gone wrong, nothing can but a fault.
LEMMA FaultlessStep ==
  ASSUME TypeOK, TypeOK', Framed, NoneReleased, Faultless, [Next]_vars
  PROVE  Faultless'
<1> SUFFICES ASSUME Honest', Complete(SenderStore, Root), faults' = 0
             PROVE  /\ pc' \notin {"remote", "local"}
                    /\ \A c \in Channel : ~cut'[c]
                    /\ pc' \in {"scan", "round"} =>
                         /\ errs' = {}
                         /\ \A c \in Channel : sender'[c] = "reading"
                         /\ \A k \in (Outstanding \cup next)' : Complete(SenderStore, k)
                    /\ pc' = "round" =>
                         /\ \A c \in Channel :
                              /\ \A keys \in request'[c] : keys \subseteq round'
                              /\ pack'[c].objs \subseteq round' /\ pack'[c].forged = {}
                              /\ pack'[c].term \in {"open", "end"}
                         /\ \A k \in round' \ received' : \E c \in active' :
                              k \in pack'[c].objs \/ \E keys \in request'[c] : k \in keys
  BY DEF Faultless
<1> DEFINE Running ==
      /\ errs = {}
      /\ \A c \in Channel : sender[c] = "reading"
      /\ \A k \in Outstanding \cup next : Complete(SenderStore, k)
<1> DEFINE Wired ==
      \A c \in Channel :
        /\ \A keys \in request[c] : keys \subseteq round
        /\ pack[c].objs \subseteq round /\ pack[c].forged = {}
        /\ pack[c].term \in {"open", "end"}
<1> DEFINE UnderWay(k) ==
      \E c \in active : k \in pack[c].objs \/ \E keys \in request[c] : k \in keys
<1> DEFINE Goal ==
      /\ pc' \notin {"remote", "local"}
      /\ \A c \in Channel : ~cut'[c]
      /\ pc' \in {"scan", "round"} => Running'
      /\ pc' = "round" => Wired' /\ \A k \in round' \ received' : UnderWay(k)'
<1>g. SUFFICES Goal
  OBVIOUS
<1>b. CASE Begin
  <2>1. /\ pc' = "scan" /\ errs' = {} /\ \A c \in Channel : ~cut'[c]
        /\ \A c \in Channel : sender'[c] \in {"rogue", "reading"}
        /\ (Outstanding \cup next)' = {Root}
    BY <1>b DEF Begin, Outstanding
  <2> QED
    BY <2>1 DEF Honest
<1> SUFFICES ASSUME ~Begin PROVE Goal
  BY <1>b
<1>h. Honest /\ faults = 0
  <2>1. \A c \in Channel : sender[c] = "rogue" => sender'[c] = "rogue"
    <3>1. ASSUME NEW x \in Channel, SendRound(x) \/ SendDone(x) \/ SendBroken(x)
          PROVE  /\ sender[x] = "reading"
                 /\ sender' = sender \/ \E how : sender' = [sender EXCEPT ![x] = how]
      BY <3>1 DEF SendRound, SendDone, SendBroken
    <3>2. \/ sender' = sender
          \/ \E x \in Channel : SendRound(x) \/ SendDone(x) \/ SendBroken(x)
      BY DEF Next, vars, wire, ScanFails, Finish, DealRound, StoreFails, RoundFails,
             NextRound, Crash, Done, Scan, OtherWrite, RoguePack, AbandonDecoder, Cut,
             CloseDecoder, Deliver, DeliverForged
    <3> QED
      BY <3>1, <3>2 DEF TypeOK
  <2>2. faults' = faults \/ faults' = faults + 1
    BY DEF Next, vars, recv, wire, ScanFails, Finish, DealRound, StoreFails, RoundFails,
           NextRound, Crash, Done, Scan, OtherWrite, SendRound, SendDone, SendBroken,
           RoguePack, AbandonDecoder, Cut, CloseDecoder, Deliver, DeliverForged, TypeOK
  <2>3. faults = 0
    BY <2>2, SyncAssumption DEF TypeOK
  <2> QED
    BY <2>1, <2>3 DEF Honest
<1>i. /\ pc \notin {"remote", "local"}
      /\ \A c \in Channel : ~cut[c]
      /\ pc \in {"scan", "round"} => Running
      /\ pc = "round" => Wired /\ \A k \in round \ received : UnderWay(k)
  BY <1>h DEF Faultless
<1>n. ~ScanFails /\ ~StoreFails /\ ~Crash /\ \A c \in Channel : ~Cut(c) /\ ~RoguePack(c)
  BY <1>h DEF ScanFails, StoreFails, Crash, Cut, RoguePack, Honest, TypeOK
<1>1. CASE Finish
  BY <1>1, <1>i DEF Finish, Released
<1>2. CASE DealRound
  <2>1. PICK ask \in Asks(wants) : \E deal \in Deals(ask) :
          /\ round' = ask /\ carry' = wants \ ask
          /\ request' = [c \in Channel |->
               IF c \in Used(deal) /\ ~cut[c] THEN {Shard(deal, c)} ELSE request[c]]
          /\ \/ pc' = "round" /\ active' = Used(deal)
             \/ \E c \in Used(deal) : cut[c]
    BY <1>2 DEF DealRound
  <2>2. PICK deal \in Deals(ask) :
          /\ request' = [c \in Channel |->
               IF c \in Used(deal) /\ ~cut[c] THEN {Shard(deal, c)} ELSE request[c]]
          /\ \/ pc' = "round" /\ active' = Used(deal)
             \/ \E c \in Used(deal) : cut[c]
    BY <2>1
  <2>3. /\ pc = "scan" /\ next' = {} /\ errs' = {}
        /\ UNCHANGED <<pack, sender, cut>>
    BY <1>2 DEF DealRound
  <2>4. pc' = "round" /\ active' = Used(deal) /\ \A c \in Used(deal) : ~cut[c]
    BY <1>i, <2>2 DEF Used
  <2>5. \A c \in Channel : request[c] = {} /\ pack[c] = Empty
    BY <1>i, <2>3 DEF Framed
  <2>6. \A c \in Channel : request'[c] \subseteq {Shard(deal, c)}
    BY <2>2, <2>5
  <2>7. ask \subseteq wants /\ \A c : Shard(deal, c) \subseteq ask
    BY DEF Asks, Deals, Shard
  <2>8. ASSUME NEW k \in ask
        PROVE  /\ deal[k] \in active' /\ k \in Shard(deal, deal[k])
               /\ request'[deal[k]] = {Shard(deal, deal[k])}
    <3>1. k \in Shard(deal, deal[k]) /\ deal[k] \in Channel
      BY DEF Deals, Shard
    <3>2. deal[k] \in Used(deal)
      BY <3>1 DEF Used
    <3> QED
      BY <2>2, <2>4, <3>1, <3>2
  <2>9. Running'
    BY <1>i, <2>1, <2>3, <2>4, <2>7 DEF Outstanding
  <2>10. Wired'
    BY <2>1, <2>3, <2>5, <2>6, <2>7 DEF Empty
  <2>11. ASSUME NEW k \in round' PROVE UnderWay(k)'
    BY <2>1, <2>8
  <2> QED
    BY <1>i, <2>3, <2>4, <2>9, <2>10, <2>11
<1>3. CASE RoundFails
  <2>1. pc = "round" /\ active = {} /\ (errs # {} \/ ~(round \subseteq received))
    BY <1>3 DEF RoundFails, Delivered
  <2> QED
    BY <1>i, <2>1
<1>4. CASE NextRound
  <2>1. /\ pc = "round" /\ pc' = "scan" /\ frontier' = next \cup carry
        /\ wants' = {} /\ next' = {} /\ errs' = errs /\ UNCHANGED <<sender, cut>>
    BY <1>4 DEF NextRound, NextFrontier, wire
  <2> QED
    BY <1>i, <2>1 DEF Outstanding
<1>5. ASSUME NEW k \in Key, Scan(k) PROVE Goal
  <2>1. /\ pc = "scan" /\ pc' = "scan" /\ (Outstanding \cup next)' \subseteq Outstanding \cup next
        /\ UNCHANGED <<errs, sender, cut>>
    BY <1>5 DEF Scan, Outstanding, wire
  <2> QED
    BY <1>i, <2>1
<1>6. ASSUME NEW k \in Key, OtherWrite(k) PROVE Goal
  BY <1>6, <1>i DEF OtherWrite, recv, wire, Outstanding
<1>7. ASSUME NEW c \in Channel, SendRound(c) PROVE Goal
  <2>1. /\ UNCHANGED <<recv, cut>> /\ pc \in {"scan", "round"} /\ pack[c] = Empty
        /\ request' = [request EXCEPT ![c] = {}]
    BY <1>7 DEF SendRound
  <2>2. pc = "round" /\ c \in active
    BY <1>7, <1>i DEF SendRound, Framed
  <2>3. PICK keys \in request[c] :
          \/ /\ pack' = [pack EXCEPT ![c] = [Empty EXCEPT !.objs = keys, !.term = "end"]]
             /\ sender' = sender
          \/ ~(keys \subseteq SenderStore)
    <3>1. faults' # faults + 1
      BY <1>h
    <3> QED
      BY <1>7, <3>1 DEF SendRound
  <2>4. keys \subseteq round /\ round \subseteq SenderStore
    BY <1>i, <2>2, CompleteBelow DEF Outstanding
  <2>5. /\ pack' = [pack EXCEPT ![c] = [Empty EXCEPT !.objs = keys, !.term = "end"]]
        /\ sender' = sender
    BY <2>3, <2>4
  <2>6. request[c] = {keys}
    <3>1. ~cut[c] /\ sender[c] # "rogue"
      BY <1>7 DEF SendRound
    <3>2. \A x, y \in request[c] : x = y
      BY <2>2, <3>1 DEF Framed
    <3> QED
      BY <2>3, <3>2
  <2>7. /\ \A x \in Channel \ {c} : UNCHANGED <<request[x], pack[x]>>
        /\ request'[c] = {} /\ pack'[c].objs = keys
        /\ pack'[c].forged = {} /\ pack'[c].term = "end"
    BY <2>1, <2>5 DEF TypeOK, Empty
  <2>8. Wired'
    BY <1>i, <2>1, <2>2, <2>4, <2>7 DEF recv
  <2>9. ASSUME NEW k \in round' \ received' PROVE UnderWay(k)'
    <3>1. PICK x \in active : k \in pack[x].objs \/ \E ks \in request[x] : k \in ks
      BY <1>i, <2>1, <2>2 DEF recv
    <3>2. CASE x = c
      BY <2>1, <2>6, <2>7, <3>1, <3>2 DEF recv, Empty
    <3>3. CASE x # c
      BY <2>1, <2>7, <3>1, <3>3 DEF recv, TypeOK
    <3> QED
      BY <3>2, <3>3
  <2> QED
    BY <1>i, <2>1, <2>2, <2>5, <2>8, <2>9 DEF recv, Outstanding
<1>8. ASSUME NEW c \in Channel, SendDone(c) PROVE Goal
  <2>1. pc \notin {"scan", "round"} /\ UNCHANGED <<recv, cut>>
    BY <1>8 DEF SendDone, NoneReleased
  <2> QED
    BY <1>i, <2>1 DEF recv
<1>9. ASSUME NEW c \in Channel, SendBroken(c) PROVE Goal
  <2>1. pc = "idle" /\ UNCHANGED <<recv, cut>>
    BY <1>9, <1>i DEF SendBroken
  <2> QED
    BY <1>i, <2>1 DEF recv
<1>10. ASSUME NEW c \in Channel, AbandonDecoder(c) PROVE Goal
  BY <1>10, <1>i DEF AbandonDecoder
<1>11. ASSUME NEW c \in Channel, CloseDecoder(c) PROVE Goal
  <2>1. /\ pc = "round" /\ c \in active /\ pack[c].objs = {} /\ pack[c].term # "open"
        /\ active' = active \ {c} /\ UNCHANGED <<pc, round, carry, next, received, request, sender, cut>>
        /\ pack' = [pack EXCEPT ![c] = Empty]
    BY <1>11, <1>i DEF CloseDecoder
  <2>2. pack[c].term = "end" /\ errs' = errs
    BY <1>11, <1>i, <2>1 DEF CloseDecoder
  <2>3. request[c] = {}
    <3>1. pack[c] # Empty
      BY <2>1 DEF Empty
    <3> QED
      BY <1>i, <2>1, <3>1 DEF Framed
  <2>4. \A x \in Channel \ {c} : pack'[x] = pack[x]
    BY <2>1 DEF TypeOK
  <2>5. Wired'
    BY <1>i, <2>1, <2>4 DEF TypeOK, Empty
  <2>6. ASSUME NEW k \in round' \ received' PROVE UnderWay(k)'
    BY <1>i, <2>1, <2>3, <2>4 DEF TypeOK
  <2> QED
    BY <1>i, <2>1, <2>2, <2>5, <2>6 DEF Outstanding
<1>12. ASSUME NEW c \in Channel, NEW k \in Key, Deliver(c, k) PROVE Goal
  <2>1. /\ pc = "round" /\ c \in active /\ k \in pack[c].objs
        /\ received' = received \cup {k} /\ next' = next \cup Kids[k]
        /\ UNCHANGED <<pc, round, carry, active, errs, request, sender, cut>>
    BY <1>12 DEF Deliver
  <2>2. /\ \A x \in Channel \ {c} : pack'[x] = pack[x]
        /\ pack'[c].objs = pack[c].objs \ {k} /\ pack'[c].forged = pack[c].forged
        /\ pack'[c].term = pack[c].term
    BY <1>12 DEF Deliver, TypeOK, Pack
  <2>3. Complete(SenderStore, k)
    BY <1>i, <2>1 DEF Outstanding
  <2>4. Running'
    BY <1>i, <2>1, <2>3, CompleteBelow DEF Outstanding
  <2>5. Wired'
    BY <1>i, <2>1, <2>2
  <2>6. ASSUME NEW x \in round' \ received' PROVE UnderWay(x)'
    <3>1. x # k /\ UnderWay(x)
      BY <1>i, <2>1
    <3> QED
      BY <2>1, <2>2, <3>1 DEF TypeOK
  <2> QED
    BY <1>i, <2>1, <2>4, <2>5, <2>6
<1>13. ASSUME NEW c \in Channel, NEW k \in Key, DeliverForged(c, k) PROVE Goal
  BY <1>13, <1>i DEF DeliverForged
<1>14. CASE Done \/ UNCHANGED vars
  BY <1>14, <1>i DEF Done, vars, recv, wire, Outstanding
<1> QED
  BY <1>n, <1>1, <1>2, <1>3, <1>4, <1>5, <1>6, <1>7, <1>8, <1>9, <1>10, <1>11, <1>12, <1>13, <1>14
  DEF Next

-----------------------------------------------------------------------------
(* The theorems                                                              *)

\* Before the first attempt nothing is outstanding, in flight or claimed.
LEMMA InitIInv == Init => IInv
<1> SUFFICES ASSUME Init PROVE IInv
  OBVIOUS
<1> USE GraphAssumption, SyncAssumption DEF Init
<1>1. TypeOK
  <2>1. /\ request \in [Channel -> SUBSET (SUBSET Key)]
        /\ pack \in [Channel -> Pack]
    BY PackFacts
  <2>2. store \subseteq Key /\ faults \in 0..MaxFaults
    OBVIOUS
  <2> QED
    BY <2>1, <2>2 DEF TypeOK
<1>2. Accounted /\ ReceivedStored /\ NoneReleased /\ SyncedOnOk /\ SenderReleased
  BY DEF Accounted, ReceivedStored, NoneReleased, SyncedOnOk, SenderReleased
<1>3. FinalOnlyWhenSynced
  BY DEF FinalOnlyWhenSynced
<1>4. Framed /\ Faultless
  BY DEF Framed, Faultless
<1> QED
  BY <1>1, <1>2, <1>3, <1>4 DEF IInv

\* The invariant is inductive.
THEOREM Inductive == Spec => []IInv
<1>1. ASSUME IInv, [Next]_vars PROVE IInv'
  <2>1. TypeOK'
    BY <1>1, TypeStep DEF IInv
  <2> QED
    BY <1>1, <2>1, AccountedStep, ReceivedStep, ReleaseStep, FramedStep, FaultlessStep
    DEF IInv
<1> QED
  BY <1>1, InitIInv, PTL DEF Spec

\* Every variable of the want loop stays in its range.
THEOREM TypeCorrect == Spec => []TypeOK
<1>1. IInv => TypeOK
  BY DEF IInv
<1> QED
  BY <1>1, Inductive, PTL

\* Receive reports success only over a complete tree: for every graph, every
\* number of channels, every untrusted peer, and every loss or crash.
THEOREM SyncedSafe == Spec => []SyncedOnOk
<1>1. IInv => SyncedOnOk
  BY DEF IInv
<1> QED
  BY <1>1, Inductive, PTL

\* A Send that returns without error left a complete tree at the far end.
THEOREM ReleasedSafe == Spec => []SenderReleased
<1>1. IInv => SenderReleased
  BY DEF IInv
<1> QED
  BY <1>1, Inductive, PTL

\* Between two rounds the channels of our own Send are empty: no frame of one
\* round is ever read in the next.
THEOREM AlwaysAligned == Spec => []AlignedAtScan
<1>1. IInv => AlignedAtScan
  BY DEF IInv, Framed, AlignedAtScan
<1> QED
  BY <1>1, Inductive, PTL

\* A transfer from a sender that has the tree fails over nothing but a fault,
\* however rounds, shards, packs and other handlers' writes interleave.
THEOREM FailsOverFaults == Spec => []NoSpuriousFailure
<1>1. IInv => NoSpuriousFailure
  BY DEF IInv, Faultless, NoSpuriousFailure
<1> QED
  BY <1>1, Inductive, PTL

-----------------------------------------------------------------------------
(* The want loop implements the contract of a transfer                       *)

\* The contract may start from any store the loop may start from.
LEMMA InitRefines == Init => Abstract!Init
BY SyncAssumption DEF Init, Abstract!Init, Result

\* Completeness is the same notion in the loop and in the contract.
LEMMA SameComplete == \A S, k : Complete(S, k) <=> Abstract!Complete(S, k)
BY DEF Complete, Closed, Abstract!Complete, Abstract!Closed

\* A step that keeps the outcome and only adds objects is a Gain.
LEMMA GainRefines ==
  ASSUME TypeOK, TypeOK', store \subseteq store', Result' = Result
  PROVE  Abstract!Next
BY DEF Abstract!Next, Abstract!Gain, TypeOK

\* Every step of the loop is a step of the contract, or changes nothing it sees.
LEMMA StepRefines ==
  ASSUME IInv, TypeOK', [Next]_vars
  PROVE  [Abstract!Next]_(Abstract!vars)
<1> USE DEF IInv, TypeOK, Abstract!vars
<1>1. CASE Begin
  <2>1. Result \in {"none", "failed"} /\ Result' = "running" /\ store' = store
    BY <1>1 DEF Begin, Result
  <2> QED
    BY <2>1 DEF Abstract!Next, Abstract!Start
<1>2. CASE Finish
  <2>1. Result = "running" /\ Result' \in {"ok", "failed"} /\ store' = store
    BY <1>2 DEF Finish, Result
  <2>2. Abstract!Complete(store, Root)
    BY <1>2, NothingLeft, SameComplete
  <2> QED
    BY <2>1, <2>2 DEF Abstract!Next, Abstract!Succeed, Abstract!Fail
<1>3. CASE DealRound
  <2>1. Result = "running" /\ Result' \in {"running", "failed"} /\ store' = store
    BY <1>3 DEF DealRound, Result
  <2> QED
    BY <2>1 DEF Abstract!Next, Abstract!Fail
<1>4. CASE ScanFails \/ RoundFails
  <2>1. Result = "running" /\ Result' = "failed" /\ store' = store
    BY <1>4 DEF ScanFails, RoundFails, Result
  <2> QED
    BY <2>1 DEF Abstract!Next, Abstract!Fail
<1>5. CASE NextRound
  BY <1>5 DEF NextRound, Result
<1>6. CASE Crash
  <2>1. Result = "running" /\ Result' = "none" /\ store' \in SUBSET store
    BY <1>6 DEF Crash, Result
  <2> QED
    BY <2>1 DEF Abstract!Next, Abstract!Die
<1>7. ASSUME NEW k \in Key, Scan(k) PROVE UNCHANGED Abstract!vars
  BY <1>7 DEF Scan, Result
<1>8. ASSUME NEW k \in Key, OtherWrite(k) PROVE Abstract!Next
  BY <1>8, GainRefines DEF OtherWrite, recv, Result
<1>9. ASSUME NEW c \in Channel,
             SendRound(c) \/ SendDone(c) \/ SendBroken(c) \/ RoguePack(c) \/ Cut(c)
      PROVE  UNCHANGED Abstract!vars
  BY <1>9 DEF SendRound, SendDone, SendBroken, RoguePack, Cut, recv, Result
<1>10. ASSUME NEW c \in Channel, AbandonDecoder(c) \/ CloseDecoder(c)
       PROVE  UNCHANGED Abstract!vars
  BY <1>10 DEF AbandonDecoder, CloseDecoder, Result
<1>11. ASSUME NEW c \in Channel, NEW k \in Key, Deliver(c, k) \/ DeliverForged(c, k)
       PROVE  Abstract!Next
  BY <1>11, GainRefines DEF Deliver, DeliverForged, Result
<1>12. CASE StoreFails
  BY <1>12 DEF StoreFails, Result
<1>13. CASE Done \/ UNCHANGED vars
  BY <1>13 DEF Done, vars, recv, Result
<1> QED
  BY <1>1, <1>2, <1>3, <1>4, <1>5, <1>6, <1>7, <1>8, <1>9, <1>10, <1>11, <1>12, <1>13
  DEF Next

\* The want loop keeps the contract its callers rely on.
THEOREM Refinement == Spec => Contract
<1>1. IInv /\ IInv' /\ [Next]_vars => [Abstract!Next]_(Abstract!vars)
  BY StepRefines DEF IInv
<1> QED
  BY <1>1, InitRefines, Inductive, PTL DEF Spec, Contract, Abstract!Spec
=============================================================================
