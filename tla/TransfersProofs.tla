---------------------------- MODULE TransfersProofs ----------------------------
(* The ownership of attached streams for any number of transfers and streams *)
(* and any capacity.                                                         *)
EXTENDS Transfers, FiniteSetTheorems, TLAPS

\* gather never asks for more than the channel holds.
LEMMA Clamped == Promised \in Nat /\ Promised <= MaxDataConns
  BY RegistryAssumption DEF Promised

-----------------------------------------------------------------------------
(* Channels                                                                  *)

\* Who leaves the channels alone leaves all that is queued.
LEMMA Same ==
  ASSUME UNCHANGED queue
  PROVE  /\ \A t \in Transfer : QueuedIn(t)' = QueuedIn(t)
         /\ NoneTwice => NoneTwice'
  BY DEF QueuedIn, NoneTwice

\* Only streams are queued.
LEMMA QueuedStreams ==
  ASSUME TypeOK
  PROVE  \A t \in Transfer : QueuedIn(t) \subseteq Stream
  BY DEF TypeOK, QueuedIn

\* A receive takes the first stream out, and it is in the channel no more.
LEMMA Received ==
  ASSUME TypeOK, NoneTwice, NEW t \in Transfer, queue[t] # <<>>,
         queue' = [queue EXCEPT ![t] = Tail(queue[t])]
  PROVE  /\ Head(queue[t]) \in QueuedIn(t)
         /\ QueuedIn(t)' = QueuedIn(t) \ {Head(queue[t])}
         /\ \A u \in Transfer : u # t => QueuedIn(u)' = QueuedIn(u)
         /\ NoneTwice'
         /\ queue' \in [Transfer -> Seq(Stream)]
         /\ \A u \in Transfer : Len(queue'[u]) <= MaxDataConns
<1> DEFINE q == queue[t]
<1>1. q \in Seq(Stream) /\ Len(q) \in Nat /\ Len(q) # 0 /\ Len(q) <= MaxDataConns
  BY DEF TypeOK
<1>2. /\ Tail(q) \in Seq(Stream) /\ Len(Tail(q)) = Len(q) - 1
      /\ \A i \in 1..(Len(q) - 1) : Tail(q)[i] = q[i + 1]
      /\ Head(q) = q[1]
  BY <1>1
<1>3. DOMAIN q = 1..Len(q) /\ DOMAIN Tail(q) = 1..(Len(q) - 1)
  BY <1>1, <1>2
<1>4. queue'[t] = Tail(q) /\ \A u \in Transfer : u # t => queue'[u] = queue[u]
  BY DEF TypeOK
<1>5. \A i, j \in 1..Len(q) : q[i] = q[j] => i = j
  BY <1>3 DEF NoneTwice
<1> HIDE DEF q
<1>6. Head(q) \in {q[i] : i \in 1..Len(q)}
  BY <1>1, <1>2
<1>7. {Tail(q)[i] : i \in 1..(Len(q) - 1)} = {q[i] : i \in 1..Len(q)} \ {Head(q)}
  <2>1. ASSUME NEW x \in {Tail(q)[i] : i \in 1..(Len(q) - 1)}
        PROVE  x \in {q[i] : i \in 1..Len(q)} \ {Head(q)}
    <3>1. PICK i \in 1..(Len(q) - 1) : x = q[i + 1]
      BY <1>2, <2>1
    <3>2. i + 1 \in 1..Len(q) /\ 1 \in 1..Len(q) /\ i + 1 # 1
      BY <1>1, <3>1
    <3> QED
      BY <1>2, <1>5, <3>1, <3>2
  <2>2. ASSUME NEW x \in {q[i] : i \in 1..Len(q)} \ {Head(q)}
        PROVE  x \in {Tail(q)[i] : i \in 1..(Len(q) - 1)}
    <3>1. PICK i \in 1..Len(q) : x = q[i]
      BY <2>2
    <3>2. i # 1
      BY <1>2, <2>2, <3>1
    <3>3. i - 1 \in 1..(Len(q) - 1) /\ (i - 1) + 1 = i
      BY <1>1, <3>2
    <3> QED
      BY <1>2, <3>1, <3>3
  <2> QED
    BY <2>1, <2>2
<1>8. \A i, j \in DOMAIN Tail(q) : Tail(q)[i] = Tail(q)[j] => i = j
  <2> SUFFICES ASSUME NEW i \in 1..(Len(q) - 1), NEW j \in 1..(Len(q) - 1), q[i + 1] = q[j + 1]
               PROVE  i = j
    BY <1>2, <1>3
  <2>1. i + 1 \in 1..Len(q) /\ j + 1 \in 1..Len(q)
    BY <1>1
  <2>2. i + 1 = j + 1
    BY <1>5, <2>1
  <2> QED
    BY <1>1, <2>2
<1>9. NoneTwice'
  <2>1. ASSUME NEW u \in Transfer
        PROVE  \A i, j \in DOMAIN queue'[u] : queue'[u][i] = queue'[u][j] => i = j
    <3>1. CASE u = t
      <4>1. queue'[u] = Tail(q)
        BY <1>4, <3>1
      <4> QED
        BY <1>8, <4>1, Zenon
    <3>2. CASE u # t
      BY <1>4, <3>2 DEF NoneTwice
    <3> QED
      BY <3>1, <3>2
  <2> QED
    BY <2>1 DEF NoneTwice
<1>10. QueuedIn(t)' = QueuedIn(t) \ {Head(q)} /\ Head(q) \in QueuedIn(t)
  <2>1. QueuedIn(t) = {q[i] : i \in 1..Len(q)}
    BY <1>3 DEF QueuedIn, q
  <2>2. QueuedIn(t)' = {Tail(q)[i] : i \in 1..(Len(q) - 1)}
    BY <1>3, <1>4 DEF QueuedIn
  <2> QED
    BY <1>6, <1>7, <2>1, <2>2
<1>11. \A u \in Transfer : u # t => QueuedIn(u)' = QueuedIn(u)
  BY <1>4 DEF QueuedIn
<1>12. queue' \in [Transfer -> Seq(Stream)]
  BY <1>2 DEF TypeOK, q
<1>13. \A u \in Transfer : Len(queue'[u]) <= MaxDataConns
  BY <1>1, <1>2, <1>4, RegistryAssumption DEF TypeOK, q
<1> QED
  BY <1>9, <1>10, <1>11, <1>12, <1>13 DEF q

\* A send puts its stream at the end.
LEMMA Sent ==
  ASSUME TypeOK, NoneTwice, NEW t \in Transfer, NEW s \in Stream, s \notin QueuedIn(t),
         Len(queue[t]) < MaxDataConns, queue' = [queue EXCEPT ![t] = Append(queue[t], s)]
  PROVE  /\ QueuedIn(t)' = QueuedIn(t) \cup {s}
         /\ \A u \in Transfer : u # t => QueuedIn(u)' = QueuedIn(u)
         /\ NoneTwice'
         /\ queue' \in [Transfer -> Seq(Stream)]
         /\ \A u \in Transfer : Len(queue'[u]) <= MaxDataConns
<1> DEFINE q == queue[t]
<1>1. q \in Seq(Stream) /\ Len(q) \in Nat /\ Len(q) < MaxDataConns /\ MaxDataConns \in Nat
  BY RegistryAssumption DEF TypeOK
<1>2. /\ Append(q, s) \in Seq(Stream) /\ Len(Append(q, s)) = Len(q) + 1
      /\ \A i \in 1..Len(q) : Append(q, s)[i] = q[i]
      /\ Append(q, s)[Len(q) + 1] = s
  BY <1>1
<1>3. DOMAIN q = 1..Len(q) /\ DOMAIN Append(q, s) = 1..(Len(q) + 1)
  BY <1>1, <1>2
<1>4. queue'[t] = Append(q, s) /\ \A u \in Transfer : u # t => queue'[u] = queue[u]
  BY DEF TypeOK
<1>5. \A i, j \in 1..Len(q) : q[i] = q[j] => i = j
  BY <1>3 DEF NoneTwice
<1>6. \A i \in 1..Len(q) : q[i] # s
  BY <1>3 DEF QueuedIn
<1> HIDE DEF q
<1>7. {Append(q, s)[i] : i \in 1..(Len(q) + 1)} = {q[i] : i \in 1..Len(q)} \cup {s}
  <2>1. ASSUME NEW x \in {Append(q, s)[i] : i \in 1..(Len(q) + 1)}
        PROVE  x \in {q[i] : i \in 1..Len(q)} \cup {s}
    <3>1. PICK i \in 1..(Len(q) + 1) : x = Append(q, s)[i]
      BY <2>1
    <3>2. i \in 1..Len(q) \/ i = Len(q) + 1
      BY <1>1
    <3> QED
      BY <1>2, <3>1, <3>2
  <2>2. ASSUME NEW x \in {q[i] : i \in 1..Len(q)} \cup {s}
        PROVE  x \in {Append(q, s)[i] : i \in 1..(Len(q) + 1)}
    <3>1. 1..Len(q) \subseteq 1..(Len(q) + 1) /\ Len(q) + 1 \in 1..(Len(q) + 1)
      BY <1>1
    <3> QED
      BY <1>2, <2>2, <3>1
  <2> QED
    BY <2>1, <2>2
<1>8. \A i, j \in DOMAIN Append(q, s) : Append(q, s)[i] = Append(q, s)[j] => i = j
  <2> SUFFICES ASSUME NEW i \in 1..(Len(q) + 1), NEW j \in 1..(Len(q) + 1),
                      Append(q, s)[i] = Append(q, s)[j]
               PROVE  i = j
    BY <1>3
  <2>1. (i \in 1..Len(q) \/ i = Len(q) + 1) /\ (j \in 1..Len(q) \/ j = Len(q) + 1)
    BY <1>1
  <2> QED
    BY <1>2, <1>5, <1>6, <2>1
<1>9. NoneTwice'
  <2>1. ASSUME NEW u \in Transfer
        PROVE  \A i, j \in DOMAIN queue'[u] : queue'[u][i] = queue'[u][j] => i = j
    <3>1. CASE u = t
      <4>1. queue'[u] = Append(q, s)
        BY <1>4, <3>1
      <4> QED
        BY <1>8, <4>1, Zenon
    <3>2. CASE u # t
      BY <1>4, <3>2 DEF NoneTwice
    <3> QED
      BY <3>1, <3>2
  <2> QED
    BY <2>1 DEF NoneTwice
<1>10. QueuedIn(t)' = QueuedIn(t) \cup {s}
  <2>1. QueuedIn(t) = {q[i] : i \in 1..Len(q)}
    BY <1>3 DEF QueuedIn, q
  <2>2. QueuedIn(t)' = {Append(q, s)[i] : i \in 1..(Len(q) + 1)}
    BY <1>3, <1>4 DEF QueuedIn
  <2> QED
    BY <1>7, <2>1, <2>2
<1>11. \A u \in Transfer : u # t => QueuedIn(u)' = QueuedIn(u)
  BY <1>4 DEF QueuedIn
<1>12. queue' \in [Transfer -> Seq(Stream)]
  BY <1>2 DEF TypeOK, q
<1>13. \A u \in Transfer : Len(queue'[u]) <= MaxDataConns
  BY <1>1, <1>2, <1>4 DEF TypeOK, q
<1> QED
  BY <1>9, <1>10, <1>11, <1>12, <1>13

-----------------------------------------------------------------------------
(* The steps                                                                 *)

\* Every step keeps every variable in its range; gather stops at what was promised.
LEMMA TypeStep ==
  ASSUME TypeOK, OneOwner, HandedOpen, [Next]_vars
  PROVE  TypeOK'
<1> USE RegistryAssumption, Clamped DEF TypeOK, TransferSteps, StreamSteps
<1>1. ASSUME NEW t \in Transfer, Create(t) PROVE TypeOK'
  BY <1>1 DEF Create, Move
<1>2. ASSUME NEW t \in Transfer, Offer(t) PROVE TypeOK'
  BY <1>2 DEF Offer, Move
<1>3. ASSUME NEW t \in Transfer, OfferFails(t) PROVE TypeOK'
  BY <1>3 DEF OfferFails, Move
<1>4. ASSUME NEW t \in Transfer, Gather(t) PROVE TypeOK'
  <2>1. queue' = [queue EXCEPT ![t] = Tail(queue[t])] /\ queue[t] # <<>>
    BY <1>4 DEF Gather
  <2>2. Head(queue[t]) \in Stream
    BY <2>1
  <2>3. /\ IsFiniteSet(gathered[t] \cup {Head(queue[t])})
        /\ Cardinality(gathered[t] \cup {Head(queue[t])}) <= MaxDataConns
    <3>1. Cardinality(gathered[t]) \in Nat /\ Cardinality(gathered[t]) < Promised
      BY <1>4, FS_CardinalityType DEF Gather
    <3>2. /\ IsFiniteSet(gathered[t] \cup {Head(queue[t])})
          /\ Cardinality(gathered[t] \cup {Head(queue[t])})
               \in {Cardinality(gathered[t]), Cardinality(gathered[t]) + 1}
      BY FS_AddElement
    <3> QED
      BY <3>1, <3>2
  <2>4. gathered' = [gathered EXCEPT ![t] = gathered[t] \cup {Head(queue[t])}]
    BY <1>4 DEF Gather
  <2>5. queue' \in [Transfer -> Seq(Stream)] /\ \A u \in Transfer : Len(queue'[u]) <= MaxDataConns
    BY <2>1, Received DEF OneOwner
  <2> QED
    BY <1>4, <2>2, <2>3, <2>4, <2>5 DEF Gather
<1>5. ASSUME NEW t \in Transfer, GatherAll(t) PROVE TypeOK'
  BY <1>5 DEF GatherAll, Move
<1>6. ASSUME NEW t \in Transfer, Deadline(t) PROVE TypeOK'
  BY <1>6 DEF Deadline, Move
<1>7. ASSUME NEW t \in Transfer, Finish(t) PROVE TypeOK'
  BY <1>7 DEF Finish, Move
<1>8. ASSUME NEW t \in Transfer, Unregister(t) PROVE TypeOK'
  BY <1>8 DEF Unregister, Move
<1>9. ASSUME NEW t \in Transfer, Drain(t) PROVE TypeOK'
  <2>1. queue' \in [Transfer -> Seq(Stream)] /\ \A u \in Transfer : Len(queue'[u]) <= MaxDataConns
    BY <1>9, Received DEF Drain, OneOwner
  <2> QED
    BY <1>9, <2>1 DEF Drain
<1>10. ASSUME NEW t \in Transfer, DrainEnds(t) PROVE TypeOK'
  BY <1>10 DEF DrainEnds, Move
<1>11. ASSUME NEW t \in Transfer, CloseGathered(t) PROVE TypeOK'
  BY <1>11 DEF CloseGathered, Move
<1>12. ASSUME NEW s \in Stream, Arrive(s) PROVE TypeOK'
  BY <1>12 DEF Arrive
<1>13. ASSUME NEW s \in Stream, Lookup(s) PROVE TypeOK'
  BY <1>13 DEF Lookup
<1>14. ASSUME NEW s \in Stream, Send(s) PROVE TypeOK'
  <2>1. PICK t \in Transfer : t = target[s] /\ s \notin QueuedIn(t)
    BY <1>14 DEF Send, OneOwner, HandedOpen
  <2>2. queue' \in [Transfer -> Seq(Stream)] /\ \A u \in Transfer : Len(queue'[u]) <= MaxDataConns
    BY <1>14, <2>1, Sent DEF Send, OneOwner
  <2> QED
    BY <1>14, <2>2 DEF Send
<1>15. ASSUME NEW s \in Stream, Refuse(s) PROVE TypeOK'
  BY <1>15 DEF Refuse
<1>16. CASE Quiet \/ UNCHANGED vars
  BY <1>16 DEF Quiet, vars
<1> QED
  BY <1>1, <1>2, <1>3, <1>4, <1>5, <1>6, <1>7, <1>8, <1>9, <1>10, <1>11, <1>12, <1>13,
     <1>14, <1>15, <1>16 DEF Next

\* Ownership moves with a send, a receive and the end of a refused stream.
LEMMA OneOwnerStep ==
  ASSUME TypeOK, OneOwner, HandedOpen, [Next]_vars
  PROVE  OneOwner'
<1> USE DEF TypeOK, OneOwner, HandedOpen
<1>1. ASSUME NEW t \in Transfer, Create(t) PROVE OneOwner'
  BY <1>1, Same DEF Create, Move
<1>2. ASSUME NEW t \in Transfer, Offer(t) PROVE OneOwner'
  BY <1>2, Same DEF Offer, Move
<1>3. ASSUME NEW t \in Transfer, OfferFails(t) PROVE OneOwner'
  BY <1>3, Same DEF OfferFails, Move
<1>4. ASSUME NEW t \in Transfer, Gather(t) PROVE OneOwner'
  <2>1. /\ Head(queue[t]) \in QueuedIn(t)
        /\ QueuedIn(t)' = QueuedIn(t) \ {Head(queue[t])}
        /\ \A u \in Transfer : u # t => QueuedIn(u)' = QueuedIn(u)
        /\ NoneTwice'
    BY <1>4, Received DEF Gather
  <2>2. \A u \in Transfer : QueuedIn(u)' \subseteq QueuedIn(u)
    BY <2>1
  <2>5. (NoneTwice)'
    BY <1>4, <2>1, <2>2, QueuedStreams DEF Gather
  <2>6. (\A u \in Transfer : QueuedIn(u) \cap gathered[u] = {})'
    BY <1>4, <2>1, <2>2, QueuedStreams DEF Gather
  <2>7. (\A u \in Transfer : \A x \in QueuedIn(u) \cup gathered[u] : target[x] = u /\ spc[x] = "handed")'
    BY <1>4, <2>1, <2>2, QueuedStreams DEF Gather
  <2>8. (\A x \in open : spc[x] = "handed" => x \in QueuedIn(target[x]) \cup gathered[target[x]])'
    BY <1>4, <2>1, <2>2, QueuedStreams DEF Gather
  <2> QED
    BY <2>5, <2>6, <2>7, <2>8 DEF OneOwner
<1>5. ASSUME NEW t \in Transfer, GatherAll(t) PROVE OneOwner'
  BY <1>5, Same DEF GatherAll, Move
<1>6. ASSUME NEW t \in Transfer, Deadline(t) PROVE OneOwner'
  BY <1>6, Same DEF Deadline, Move
<1>7. ASSUME NEW t \in Transfer, Finish(t) PROVE OneOwner'
  BY <1>7, Same DEF Finish, Move
<1>8. ASSUME NEW t \in Transfer, Unregister(t) PROVE OneOwner'
  BY <1>8, Same DEF Unregister, Move
<1>9. ASSUME NEW t \in Transfer, Drain(t) PROVE OneOwner'
  <2>1. /\ Head(queue[t]) \in QueuedIn(t)
        /\ QueuedIn(t)' = QueuedIn(t) \ {Head(queue[t])}
        /\ \A u \in Transfer : u # t => QueuedIn(u)' = QueuedIn(u)
        /\ NoneTwice'
    BY <1>9, Received DEF Drain
  <2>2. \A u \in Transfer : QueuedIn(u)' \subseteq QueuedIn(u)
    BY <2>1
  <2>5. (NoneTwice)'
    BY <1>9, <2>1, <2>2, QueuedStreams DEF Drain
  <2>6. (\A u \in Transfer : QueuedIn(u) \cap gathered[u] = {})'
    BY <1>9, <2>1, <2>2, QueuedStreams DEF Drain
  <2>7. (\A u \in Transfer : \A x \in QueuedIn(u) \cup gathered[u] : target[x] = u /\ spc[x] = "handed")'
    BY <1>9, <2>1, <2>2, QueuedStreams DEF Drain
  <2>8. (\A x \in open : spc[x] = "handed" => x \in QueuedIn(target[x]) \cup gathered[target[x]])'
    BY <1>9, <2>1, <2>2, QueuedStreams DEF Drain
  <2> QED
    BY <2>5, <2>6, <2>7, <2>8 DEF OneOwner
<1>10. ASSUME NEW t \in Transfer, DrainEnds(t) PROVE OneOwner'
  BY <1>10, Same DEF DrainEnds, Move
<1>11. ASSUME NEW t \in Transfer, CloseGathered(t) PROVE OneOwner'
  BY <1>11, Same DEF CloseGathered, Move
<1>12. ASSUME NEW s \in Stream, Arrive(s) PROVE OneOwner'
  BY <1>12, Same DEF Arrive
<1>13. ASSUME NEW s \in Stream, Lookup(s) PROVE OneOwner'
  BY <1>13, Same DEF Lookup
<1>14. ASSUME NEW s \in Stream, Send(s) PROVE OneOwner'
  <2>1. PICK t \in Transfer : /\ t = target[s] /\ s \notin QueuedIn(t)
                             /\ s \in open /\ spc[s] = "send"
    BY <1>14 DEF Send, HandedOpen
  <2>2. /\ QueuedIn(t)' = QueuedIn(t) \cup {s}
        /\ \A u \in Transfer : u # t => QueuedIn(u)' = QueuedIn(u)
        /\ NoneTwice'
    BY <1>14, <2>1, Sent DEF Send
  <2>3. \A u \in Transfer : QueuedIn(u)' \subseteq QueuedIn(u) \cup {s}
    <3>1. ASSUME NEW u \in Transfer PROVE QueuedIn(u)' \subseteq QueuedIn(u) \cup {s}
      <4>1. CASE u = t
        BY <2>2, <4>1
      <4>2. CASE u # t
        BY <2>2, <4>2
      <4> QED
        BY <4>1, <4>2
    <3> QED
      BY <3>1
  <2>4. /\ target' = target /\ gathered' = gathered /\ open' = open /\ tpc' = tpc
        /\ spc'[s] = "handed" /\ \A x \in Stream : x # s => spc'[x] = spc[x]
        /\ overtaken \subseteq overtaken' /\ (tpc[t] \in {"closing", "done"} => s \in overtaken')
    BY <1>14, <2>1 DEF Send
  <2>5. (NoneTwice)'
    BY <2>1, <2>2, <2>3, <2>4, QueuedStreams
  <2>6. (\A u \in Transfer : QueuedIn(u) \cap gathered[u] = {})'
    BY <2>1, <2>2, <2>3, <2>4, QueuedStreams
  <2>7. (\A u \in Transfer : \A x \in QueuedIn(u) \cup gathered[u] : target[x] = u /\ spc[x] = "handed")'
    BY <2>1, <2>2, <2>3, <2>4, QueuedStreams
  <2>8. (\A x \in open : spc[x] = "handed" => x \in QueuedIn(target[x]) \cup gathered[target[x]])'
    BY <2>1, <2>2, <2>3, <2>4, QueuedStreams
  <2> QED
    BY <2>5, <2>6, <2>7, <2>8 DEF OneOwner
<1>15. ASSUME NEW s \in Stream, Refuse(s) PROVE OneOwner'
  BY <1>15, Same DEF Refuse
<1>16. CASE Quiet \/ UNCHANGED vars
  BY <1>16, Same DEF Quiet, vars
<1> QED
  BY <1>1, <1>2, <1>3, <1>4, <1>5, <1>6, <1>7, <1>8, <1>9, <1>10, <1>11, <1>12, <1>13,
     <1>14, <1>15, <1>16 DEF Next

\* Only drop and release close what was handed over, and only of their transfer.
LEMMA HandedOpenStep ==
  ASSUME TypeOK, OneOwner, HandedOpen, [Next]_vars
  PROVE  HandedOpen'
<1> USE DEF TypeOK, OneOwner, HandedOpen
<1>1. ASSUME NEW t \in Transfer, Create(t) PROVE HandedOpen'
  BY <1>1, Same DEF Create, Move
<1>2. ASSUME NEW t \in Transfer, Offer(t) PROVE HandedOpen'
  BY <1>2, Same DEF Offer, Move
<1>3. ASSUME NEW t \in Transfer, OfferFails(t) PROVE HandedOpen'
  BY <1>3, Same DEF OfferFails, Move
<1>4. ASSUME NEW t \in Transfer, Gather(t) PROVE HandedOpen'
  <2>1. /\ Head(queue[t]) \in QueuedIn(t)
        /\ QueuedIn(t)' = QueuedIn(t) \ {Head(queue[t])}
        /\ \A u \in Transfer : u # t => QueuedIn(u)' = QueuedIn(u)
        /\ NoneTwice'
    BY <1>4, Received DEF Gather
  <2>2. \A u \in Transfer : QueuedIn(u)' \subseteq QueuedIn(u)
    BY <2>1
  <2>5. (\A x \in Stream : spc[x] \in {"none", "lookup", "send"} => x \in open)'
    BY <1>4, <2>1, <2>2 DEF Gather
  <2>6. (\A x \in Stream : spc[x] \in {"send", "handed"} => target[x] \in Transfer)'
    BY <1>4, <2>1, <2>2 DEF Gather
  <2>7. (\A u \in Transfer : tpc[u] \notin {"draining", "closing", "done"} =>
           QueuedIn(u) \cup gathered[u] \subseteq open)'
    BY <1>4, <2>1, <2>2 DEF Gather
  <2>8. (\A u \in Transfer : tpc[u] = "closing" => QueuedIn(u) \subseteq overtaken)'
    BY <1>4, <2>1, <2>2 DEF Gather
  <2> QED
    BY <2>5, <2>6, <2>7, <2>8 DEF HandedOpen
<1>5. ASSUME NEW t \in Transfer, GatherAll(t) PROVE HandedOpen'
  BY <1>5, Same DEF GatherAll, Move
<1>6. ASSUME NEW t \in Transfer, Deadline(t) PROVE HandedOpen'
  BY <1>6, Same DEF Deadline, Move
<1>7. ASSUME NEW t \in Transfer, Finish(t) PROVE HandedOpen'
  BY <1>7, Same DEF Finish, Move
<1>8. ASSUME NEW t \in Transfer, Unregister(t) PROVE HandedOpen'
  BY <1>8, Same DEF Unregister, Move
<1>9. ASSUME NEW t \in Transfer, Drain(t) PROVE HandedOpen'
  <2>1. /\ Head(queue[t]) \in QueuedIn(t)
        /\ QueuedIn(t)' = QueuedIn(t) \ {Head(queue[t])}
        /\ \A u \in Transfer : u # t => QueuedIn(u)' = QueuedIn(u)
        /\ NoneTwice'
    BY <1>9, Received DEF Drain
  <2>2. \A u \in Transfer : QueuedIn(u)' \subseteq QueuedIn(u)
    BY <2>1
  <2>5. (\A x \in Stream : spc[x] \in {"none", "lookup", "send"} => x \in open)'
    BY <1>9, <2>1, <2>2 DEF Drain
  <2>6. (\A x \in Stream : spc[x] \in {"send", "handed"} => target[x] \in Transfer)'
    BY <1>9, <2>1, <2>2 DEF Drain
  <2>7. (\A u \in Transfer : tpc[u] \notin {"draining", "closing", "done"} =>
           QueuedIn(u) \cup gathered[u] \subseteq open)'
    BY <1>9, <2>1, <2>2 DEF Drain
  <2>8. (\A u \in Transfer : tpc[u] = "closing" => QueuedIn(u) \subseteq overtaken)'
    BY <1>9, <2>1, <2>2 DEF Drain
  <2> QED
    BY <2>5, <2>6, <2>7, <2>8 DEF HandedOpen
<1>10. ASSUME NEW t \in Transfer, DrainEnds(t) PROVE HandedOpen'
  BY <1>10, Same DEF DrainEnds, Move, QueuedIn
<1>11. ASSUME NEW t \in Transfer, CloseGathered(t) PROVE HandedOpen'
  BY <1>11, Same DEF CloseGathered, Move
<1>12. ASSUME NEW s \in Stream, Arrive(s) PROVE HandedOpen'
  BY <1>12, Same DEF Arrive
<1>13. ASSUME NEW s \in Stream, Lookup(s) PROVE HandedOpen'
  BY <1>13, Same DEF Lookup
<1>14. ASSUME NEW s \in Stream, Send(s) PROVE HandedOpen'
  <2>1. PICK t \in Transfer : /\ t = target[s] /\ s \notin QueuedIn(t)
                             /\ s \in open /\ spc[s] = "send"
    BY <1>14 DEF Send, HandedOpen
  <2>2. /\ QueuedIn(t)' = QueuedIn(t) \cup {s}
        /\ \A u \in Transfer : u # t => QueuedIn(u)' = QueuedIn(u)
        /\ NoneTwice'
    BY <1>14, <2>1, Sent DEF Send
  <2>3. \A u \in Transfer : QueuedIn(u)' \subseteq QueuedIn(u) \cup {s}
    <3>1. ASSUME NEW u \in Transfer PROVE QueuedIn(u)' \subseteq QueuedIn(u) \cup {s}
      <4>1. CASE u = t
        BY <2>2, <4>1
      <4>2. CASE u # t
        BY <2>2, <4>2
      <4> QED
        BY <4>1, <4>2
    <3> QED
      BY <3>1
  <2>4. /\ target' = target /\ gathered' = gathered /\ open' = open /\ tpc' = tpc
        /\ spc'[s] = "handed" /\ \A x \in Stream : x # s => spc'[x] = spc[x]
        /\ overtaken \subseteq overtaken' /\ (tpc[t] \in {"closing", "done"} => s \in overtaken')
    BY <1>14, <2>1 DEF Send
  <2>5. (\A x \in Stream : spc[x] \in {"none", "lookup", "send"} => x \in open)'
    BY <2>1, <2>2, <2>3, <2>4
  <2>6. (\A x \in Stream : spc[x] \in {"send", "handed"} => target[x] \in Transfer)'
    BY <2>1, <2>2, <2>3, <2>4
  <2>7. (\A u \in Transfer : tpc[u] \notin {"draining", "closing", "done"} =>
           QueuedIn(u) \cup gathered[u] \subseteq open)'
    BY <2>1, <2>2, <2>3, <2>4
  <2>8. (\A u \in Transfer : tpc[u] = "closing" => QueuedIn(u) \subseteq overtaken)'
    BY <2>1, <2>2, <2>3, <2>4
  <2> QED
    BY <2>5, <2>6, <2>7, <2>8 DEF HandedOpen
<1>15. ASSUME NEW s \in Stream, Refuse(s) PROVE HandedOpen'
  BY <1>15, Same DEF Refuse
<1>16. CASE Quiet \/ UNCHANGED vars
  BY <1>16, Same DEF Quiet, vars
<1> QED
  BY <1>1, <1>2, <1>3, <1>4, <1>5, <1>6, <1>7, <1>8, <1>9, <1>10, <1>11, <1>12, <1>13,
     <1>14, <1>15, <1>16 DEF Next

\* What is in a drained channel was sent after the drain.
LEMMA LeftStep ==
  ASSUME TypeOK, OneOwner, HandedOpen, OnlyOvertakenLeft, [Next]_vars
  PROVE  OnlyOvertakenLeft'
<1> USE DEF TypeOK, OneOwner, HandedOpen, OnlyOvertakenLeft
<1>1. ASSUME NEW t \in Transfer, Create(t) PROVE OnlyOvertakenLeft'
  BY <1>1, Same DEF Create, Move
<1>2. ASSUME NEW t \in Transfer, Offer(t) PROVE OnlyOvertakenLeft'
  BY <1>2, Same DEF Offer, Move
<1>3. ASSUME NEW t \in Transfer, OfferFails(t) PROVE OnlyOvertakenLeft'
  BY <1>3, Same DEF OfferFails, Move
<1>4. ASSUME NEW t \in Transfer, Gather(t) PROVE OnlyOvertakenLeft'
  <2>1. /\ Head(queue[t]) \in QueuedIn(t)
        /\ QueuedIn(t)' = QueuedIn(t) \ {Head(queue[t])}
        /\ \A u \in Transfer : u # t => QueuedIn(u)' = QueuedIn(u)
        /\ NoneTwice'
    BY <1>4, Received DEF Gather
  <2>2. \A u \in Transfer : QueuedIn(u)' \subseteq QueuedIn(u)
    BY <2>1
  <2> QED
    BY <1>4, <2>2 DEF Gather
<1>5. ASSUME NEW t \in Transfer, GatherAll(t) PROVE OnlyOvertakenLeft'
  BY <1>5, Same DEF GatherAll, Move
<1>6. ASSUME NEW t \in Transfer, Deadline(t) PROVE OnlyOvertakenLeft'
  BY <1>6, Same DEF Deadline, Move
<1>7. ASSUME NEW t \in Transfer, Finish(t) PROVE OnlyOvertakenLeft'
  BY <1>7, Same DEF Finish, Move
<1>8. ASSUME NEW t \in Transfer, Unregister(t) PROVE OnlyOvertakenLeft'
  BY <1>8, Same DEF Unregister, Move
<1>9. ASSUME NEW t \in Transfer, Drain(t) PROVE OnlyOvertakenLeft'
  <2>1. /\ Head(queue[t]) \in QueuedIn(t)
        /\ QueuedIn(t)' = QueuedIn(t) \ {Head(queue[t])}
        /\ \A u \in Transfer : u # t => QueuedIn(u)' = QueuedIn(u)
        /\ NoneTwice'
    BY <1>9, Received DEF Drain
  <2>2. \A u \in Transfer : QueuedIn(u)' \subseteq QueuedIn(u)
    BY <2>1
  <2> QED
    BY <1>9, <2>2 DEF Drain
<1>10. ASSUME NEW t \in Transfer, DrainEnds(t) PROVE OnlyOvertakenLeft'
  BY <1>10, Same DEF DrainEnds, Move
<1>11. ASSUME NEW t \in Transfer, CloseGathered(t) PROVE OnlyOvertakenLeft'
  BY <1>11, Same DEF CloseGathered, Move
<1>12. ASSUME NEW s \in Stream, Arrive(s) PROVE OnlyOvertakenLeft'
  BY <1>12, Same DEF Arrive
<1>13. ASSUME NEW s \in Stream, Lookup(s) PROVE OnlyOvertakenLeft'
  BY <1>13, Same DEF Lookup
<1>14. ASSUME NEW s \in Stream, Send(s) PROVE OnlyOvertakenLeft'
  <2>1. PICK t \in Transfer : /\ t = target[s] /\ s \notin QueuedIn(t)
                             /\ s \in open /\ spc[s] = "send"
    BY <1>14 DEF Send, HandedOpen
  <2>2. /\ QueuedIn(t)' = QueuedIn(t) \cup {s}
        /\ \A u \in Transfer : u # t => QueuedIn(u)' = QueuedIn(u)
        /\ NoneTwice'
    BY <1>14, <2>1, Sent DEF Send
  <2>3. \A u \in Transfer : QueuedIn(u)' \subseteq QueuedIn(u) \cup {s}
    <3>1. ASSUME NEW u \in Transfer PROVE QueuedIn(u)' \subseteq QueuedIn(u) \cup {s}
      <4>1. CASE u = t
        BY <2>2, <4>1
      <4>2. CASE u # t
        BY <2>2, <4>2
      <4> QED
        BY <4>1, <4>2
    <3> QED
      BY <3>1
  <2>4. /\ target' = target /\ gathered' = gathered /\ open' = open /\ tpc' = tpc
        /\ spc'[s] = "handed" /\ \A x \in Stream : x # s => spc'[x] = spc[x]
        /\ overtaken \subseteq overtaken' /\ (tpc[t] \in {"closing", "done"} => s \in overtaken')
    BY <1>14, <2>1 DEF Send
  <2>5. (\A u \in Transfer : tpc[u] = "done" => gathered[u] \cap open = {})'
    BY <2>1, <2>2, <2>3, <2>4, QueuedStreams
  <2>6. (\A u \in Transfer : tpc[u] = "done" => QueuedIn(u) \subseteq overtaken)'
    <3>1. ASSUME NEW u \in Transfer, tpc[u] = "done" PROVE QueuedIn(u)' \subseteq overtaken'
      <4>1. QueuedIn(u) \subseteq overtaken
        BY <3>1
      <4>2. CASE u = t
        BY <2>2, <2>4, <3>1, <4>1, <4>2
      <4>3. CASE u # t
        BY <2>2, <2>4, <4>1, <4>3
      <4> QED
        BY <4>2, <4>3
    <3> QED
      BY <2>4, <3>1
  <2> QED
    BY <2>5, <2>6 DEF OnlyOvertakenLeft
<1>15. ASSUME NEW s \in Stream, Refuse(s) PROVE OnlyOvertakenLeft'
  BY <1>15, Same DEF Refuse
<1>16. CASE Quiet \/ UNCHANGED vars
  BY <1>16, Same DEF Quiet, vars
<1> QED
  BY <1>1, <1>2, <1>3, <1>4, <1>5, <1>6, <1>7, <1>8, <1>9, <1>10, <1>11, <1>12, <1>13,
     <1>14, <1>15, <1>16 DEF Next

\* The registry starts empty.
LEMMA InitIInv == Init => IInv
<1> SUFFICES ASSUME Init PROVE IInv
  OBVIOUS
<1>1. TypeOK
  <2>1. IsFiniteSet({}) /\ Cardinality({}) = 0
    BY FS_EmptySet
  <2>2. <<>> \in Seq(Stream) /\ Len(<<>>) = 0
    OBVIOUS
  <2> QED
    BY <2>1, <2>2, RegistryAssumption DEF Init, TypeOK, TransferSteps, StreamSteps
<1>2. \A t \in Transfer : QueuedIn(t) = {}
  BY DEF Init, QueuedIn
<1>3. NoneTwice
  BY DEF Init, NoneTwice
<1> QED
  BY <1>1, <1>2, <1>3
     DEF Init, IInv, OneOwner, HandedOpen, UsableWhileRunning, OnlyOvertakenLeft

\* The invariant of the registry, however the steps of attach, gather and drop
\* interleave.
THEOREM Inductive == Spec => []IInv
<1>1. IInv /\ [Next]_vars => TypeOK' /\ OneOwner' /\ HandedOpen' /\ OnlyOvertakenLeft'
  BY TypeStep, OneOwnerStep, HandedOpenStep, LeftStep DEF IInv
<1>2. HandedOpen' => UsableWhileRunning'
  BY DEF HandedOpen, UsableWhileRunning
<1>3. IInv /\ [Next]_vars => IInv'
  BY <1>1, <1>2 DEF IInv
<1> QED
  BY InitIInv, <1>3, PTL DEF Spec

\* A transfer never runs over a stream the server has closed.
THEOREM Usable == Spec => []UsableWhileRunning
<1>1. IInv => UsableWhileRunning
  BY DEF IInv
<1> QED
  BY Inductive, <1>1, PTL

\* What a finished transfer leaves open was sent to its channel after the drain:
\* the one gap between attach and drop.
THEOREM OneGap == Spec => []OnlyOvertakenLeft
<1>1. IInv => OnlyOvertakenLeft
  BY DEF IInv
<1> QED
  BY Inductive, <1>1, PTL
=============================================================================
