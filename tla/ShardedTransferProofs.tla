------------------------- MODULE ShardedTransferProofs -------------------------
(* The safety of a sharded transfer for any number of connections, rounds    *)
(* and faults.                                                               *)
EXTENDS ShardedTransfer, FiniteSetTheorems, TLAPS

\* Connections are numbered from 1; the control stream is none of them.
LEMMA Numbering ==
  /\ Cardinality(Extra) \in Nat
  /\ Extra = 1..Cardinality(Extra)
  /\ Ctrl \notin Extra
<1>1. Cardinality(Extra) \in Nat
  BY ShardAssumption, FS_CardinalityType
<1> QED
  BY <1>1, ShardAssumption DEF Ctrl

\* Every step keeps every variable in its range.
LEMMA TypeStep ==
  ASSUME TypeOK, [Next]_vars
  PROVE  TypeOK'
<1> USE Numbering, ShardAssumption DEF TypeOK, Stream
<1>1. CASE AttachNext
  BY <1>1 DEF AttachNext
<1>2. CASE AttachFails
  BY <1>2 DEF AttachFails
<1>3. CASE GatherOver
  BY <1>3 DEF GatherOver
<1>4. CASE StartReceiver
  BY <1>4 DEF StartReceiver
<1>5. CASE StartSenders
  BY <1>5 DEF StartSenders
<1>6. CASE AskRound
  BY <1>6 DEF AskRound, Gathered, ClientChannels, ServerChannels, ReceiverChannels, SenderChannels
<1>7. CASE RoundOver
  BY <1>7 DEF RoundOver
<1>8. CASE LastRound
  BY <1>8 DEF LastRound
<1>9. CASE Commit
  <2>1. published' \in BOOLEAN
    BY <1>9 DEF Commit
  <2>2. answer' \in {"none", "TOK", "TErr", "lost"} /\ faults' \in 0..MaxFaults
    BY <1>9 DEF Commit
  <2> QED
    BY <1>9, <2>1, <2>2 DEF Commit
<1>10. CASE ReceiverFails
  BY <1>10 DEF ReceiverFails
<1>11. CASE Release
  BY <1>11 DEF Release
<1>12. CASE PushResult
  BY <1>12 DEF PushResult
<1>13. CASE PullResult
  BY <1>13 DEF PullResult
<1>14. ASSUME NEW i \in Extra, AttachArrives(i) PROVE TypeOK'
  BY <1>14 DEF AttachArrives
<1>15. ASSUME NEW i \in Extra, GatherOne(i) PROVE TypeOK'
  BY <1>15 DEF GatherOne
<1>16. ASSUME NEW i \in Stream, AnswerRound(i) PROVE TypeOK'
  BY <1>16 DEF AnswerRound
<1>17. ASSUME NEW i \in Stream, SenderDone(i) PROVE TypeOK'
  BY <1>17 DEF SenderDone
<1>18. ASSUME NEW i \in Stream, SenderFails(i) PROVE TypeOK'
  BY <1>18 DEF SenderFails
<1>19. CASE Quiet \/ UNCHANGED vars
  BY <1>19 DEF Quiet, vars
<1>20. CASE Reply
  BY <1>20 DEF Reply
<1> QED
  BY <1>1, <1>2, <1>3, <1>4, <1>5, <1>6, <1>7, <1>8, <1>9, <1>10, <1>11, <1>12, <1>13,
     <1>14, <1>15, <1>16, <1>17, <1>18, <1>19, <1>20 DEF Next

\* gather is over only when every attach has come; nothing is attached after.
LEMMA SameStreamsStep ==
  ASSUME TypeOK, ServerOrder, SameStreams, [Next]_vars
  PROVE  SameStreams'
<1> USE Numbering, ShardAssumption DEF TypeOK, SameStreams, ClientReady
<1>1. CASE AttachNext
  BY <1>1 DEF AttachNext
<1>2. CASE AttachFails
  BY <1>2 DEF AttachFails
<1>3. CASE GatherOver
  <2>1. \A i \in attached : server[i] \in {"gathered", "closed"} \/ ~mode.punctual
    BY <1>3 DEF GatherOver, ServerOrder
  <2> QED
    BY <1>3, <2>1 DEF GatherOver
<1>4. CASE StartReceiver
  BY <1>4 DEF StartReceiver
<1>5. CASE StartSenders
  BY <1>5 DEF StartSenders
<1>6. CASE AskRound
  BY <1>6 DEF AskRound
<1>7. CASE RoundOver
  BY <1>7 DEF RoundOver
<1>8. CASE LastRound
  BY <1>8 DEF LastRound
<1>9. CASE Commit
  BY <1>9 DEF Commit
<1>10. CASE ReceiverFails
  BY <1>10 DEF ReceiverFails
<1>11. CASE Release
  BY <1>11 DEF Release
<1>12. CASE PushResult
  BY <1>12 DEF PushResult
<1>13. CASE PullResult
  BY <1>13 DEF PullResult
<1>14. ASSUME NEW i \in Extra, AttachArrives(i) PROVE SameStreams'
  BY <1>14 DEF AttachArrives
<1>15. ASSUME NEW i \in Extra, GatherOne(i) PROVE SameStreams'
  BY <1>15 DEF GatherOne
<1>16. ASSUME NEW i \in Stream, AnswerRound(i) PROVE SameStreams'
  BY <1>16 DEF AnswerRound
<1>17. ASSUME NEW i \in Stream, SenderDone(i) PROVE SameStreams'
  BY <1>17 DEF SenderDone
<1>18. ASSUME NEW i \in Stream, SenderFails(i) PROVE SameStreams'
  BY <1>18 DEF SenderFails
<1>19. CASE Quiet \/ UNCHANGED vars
  BY <1>19 DEF Quiet, vars
<1>20. CASE Reply
  BY <1>20 DEF Reply
<1> QED
  BY <1>1, <1>2, <1>3, <1>4, <1>5, <1>6, <1>7, <1>8, <1>9, <1>10, <1>11, <1>12, <1>13,
     <1>14, <1>15, <1>16, <1>17, <1>18, <1>19, <1>20 DEF Next

\* The server answers after Receive and closes after the answer.
LEMMA ServerOrderStep ==
  ASSUME TypeOK, ServerOrder, [Next]_vars
  PROVE  ServerOrder'
<1> USE Numbering, ShardAssumption DEF TypeOK, ServerOrder
<1>1. CASE AttachNext
  BY <1>1 DEF AttachNext
<1>2. CASE AttachFails
  BY <1>2 DEF AttachFails
<1>3. CASE GatherOver
  BY <1>3 DEF GatherOver
<1>4. CASE StartReceiver
  BY <1>4 DEF StartReceiver, ServerReady
<1>5. CASE StartSenders
  BY <1>5 DEF StartSenders
<1>6. CASE AskRound
  BY <1>6 DEF AskRound
<1>7. CASE RoundOver
  BY <1>7 DEF RoundOver
<1>8. CASE LastRound
  BY <1>8 DEF LastRound
<1>9. CASE Commit
  BY <1>9 DEF Commit
<1>10. CASE ReceiverFails
  BY <1>10 DEF ReceiverFails
<1>11. CASE Release
  BY <1>11 DEF Release, HandlerDone
<1>12. CASE PushResult
  BY <1>12 DEF PushResult
<1>13. CASE PullResult
  BY <1>13 DEF PullResult
<1>14. ASSUME NEW i \in Extra, AttachArrives(i) PROVE ServerOrder'
  BY <1>14 DEF AttachArrives
<1>15. ASSUME NEW i \in Extra, GatherOne(i) PROVE ServerOrder'
  BY <1>15 DEF GatherOne
<1>16. ASSUME NEW i \in Stream, AnswerRound(i) PROVE ServerOrder'
  BY <1>16 DEF AnswerRound
<1>17. ASSUME NEW i \in Stream, SenderDone(i) PROVE ServerOrder'
  BY <1>17 DEF SenderDone
<1>18. ASSUME NEW i \in Stream, SenderFails(i) PROVE ServerOrder'
  BY <1>18 DEF SenderFails
<1>19. CASE Quiet \/ UNCHANGED vars
  BY <1>19 DEF Quiet, vars
<1>20. CASE Reply
  BY <1>20 DEF Reply
<1> QED
  BY <1>1, <1>2, <1>3, <1>4, <1>5, <1>6, <1>7, <1>8, <1>9, <1>10, <1>11, <1>12, <1>13,
     <1>14, <1>15, <1>16, <1>17, <1>18, <1>19, <1>20 DEF Next

\* Frames go to gathered streams only, which stay gathered until the end.
LEMMA SendsMatchStep ==
  ASSUME TypeOK, SendsMatch, [Next]_vars
  PROVE  SendsMatch'
<1> USE Numbering, ShardAssumption DEF TypeOK, SendsMatch, Received, Stream, ClientReady
<1>1. CASE AttachNext
  BY <1>1 DEF AttachNext
<1>2. CASE AttachFails
  BY <1>2 DEF AttachFails
<1>3. CASE GatherOver
  BY <1>3 DEF GatherOver
<1>4. CASE StartReceiver
  BY <1>4 DEF StartReceiver
<1>5. CASE StartSenders
  BY <1>5 DEF StartSenders, Gathered, ClientChannels, ServerChannels, ReceiverChannels, SenderChannels
<1>6. CASE AskRound
  BY <1>6 DEF AskRound, Gathered, ClientChannels, ServerChannels, ReceiverChannels, SenderChannels
<1>7. CASE RoundOver
  BY <1>7 DEF RoundOver
<1>8. CASE LastRound
  BY <1>8 DEF LastRound, Gathered, ClientChannels, ServerChannels, ReceiverChannels, SenderChannels
<1>9. CASE Commit
  BY <1>9 DEF Commit
<1>10. CASE ReceiverFails
  BY <1>10 DEF ReceiverFails
<1>11. CASE Release
  BY <1>11 DEF Release
<1>12. CASE PushResult
  BY <1>12 DEF PushResult
<1>13. CASE PullResult
  BY <1>13 DEF PullResult
<1>14. ASSUME NEW i \in Extra, AttachArrives(i) PROVE SendsMatch'
  BY <1>14 DEF AttachArrives
<1>15. ASSUME NEW i \in Extra, GatherOne(i) PROVE SendsMatch'
  BY <1>15 DEF GatherOne
<1>16. ASSUME NEW i \in Stream, AnswerRound(i) PROVE SendsMatch'
  BY <1>16 DEF AnswerRound
<1>17. ASSUME NEW i \in Stream, SenderDone(i) PROVE SendsMatch'
  BY <1>17 DEF SenderDone
<1>18. ASSUME NEW i \in Stream, SenderFails(i) PROVE SendsMatch'
  BY <1>18 DEF SenderFails
<1>19. CASE Quiet \/ UNCHANGED vars
  BY <1>19 DEF Quiet, vars
<1>20. CASE Reply
  BY <1>20 DEF Reply
<1> QED
  BY <1>1, <1>2, <1>3, <1>4, <1>5, <1>6, <1>7, <1>8, <1>9, <1>10, <1>11, <1>12, <1>13,
     <1>14, <1>15, <1>16, <1>17, <1>18, <1>19, <1>20 DEF Next

\* The final TWants goes to every stream the client counts.
LEMMA SendersServedStep ==
  ASSUME TypeOK, SameStreams, ServerOrder, SendersServed, [Next]_vars
  PROVE  SendersServed'
<1> USE Numbering, ShardAssumption DEF TypeOK, SameStreams, ServerOrder, SendersServed, Stream, ClientChannels, ClientReady
<1>1. CASE AttachNext
  BY <1>1 DEF AttachNext
<1>2. CASE AttachFails
  BY <1>2 DEF AttachFails
<1>3. CASE GatherOver
  BY <1>3 DEF GatherOver
<1>4. CASE StartReceiver
  BY <1>4 DEF StartReceiver
<1>5. CASE StartSenders
  BY <1>5 DEF StartSenders, Gathered, ServerChannels, ReceiverChannels, SenderChannels
<1>6. CASE AskRound
  BY <1>6 DEF AskRound, Gathered, ServerChannels, ReceiverChannels, SenderChannels
<1>7. CASE RoundOver
  BY <1>7 DEF RoundOver
<1>8. CASE LastRound
  BY <1>8 DEF LastRound, Gathered, ServerChannels, ReceiverChannels, SenderChannels
<1>9. CASE Commit
  BY <1>9 DEF Commit
<1>10. CASE ReceiverFails
  BY <1>10 DEF ReceiverFails
<1>11. CASE Release
  BY <1>11 DEF Release
<1>12. CASE PushResult
  BY <1>12 DEF PushResult
<1>13. CASE PullResult
  BY <1>13 DEF PullResult
<1>14. ASSUME NEW i \in Extra, AttachArrives(i) PROVE SendersServed'
  BY <1>14 DEF AttachArrives
<1>15. ASSUME NEW i \in Extra, GatherOne(i) PROVE SendersServed'
  BY <1>15 DEF GatherOne
<1>16. ASSUME NEW i \in Stream, AnswerRound(i) PROVE SendersServed'
  BY <1>16 DEF AnswerRound
<1>17. ASSUME NEW i \in Stream, SenderDone(i) PROVE SendersServed'
  BY <1>17 DEF SenderDone
<1>18. ASSUME NEW i \in Stream, SenderFails(i) PROVE SendersServed'
  <2> SUFFICES ASSUME mode.push, mode.punctual PROVE SendersServed'
    BY <1>18 DEF SenderFails
  <2>1. receiver = "failed" \/ answer = "lost"
    <3>1. i \in ClientChannels
      BY <1>18 DEF SenderFails
    <3>2. receiver = "done" => frame[i] = "final"
      BY <1>18, <3>1 DEF SenderFails
    <3>3. answer = "lost" \/ (frame[i] = "none" /\ answer # "none")
      BY <1>18 DEF SenderFails
    <3> QED
      BY <3>2, <3>3
  <2>2. /\ UNCHANGED <<mode, receiver, answer, frame, attached>>
        /\ sender' = [sender EXCEPT ![i] = "failed"] /\ sender[i] = "reading"
    BY <1>18 DEF SenderFails
  <2> QED
    BY <2>1, <2>2
<1>19. CASE Quiet \/ UNCHANGED vars
  BY <1>19 DEF Quiet, vars
<1>20. CASE Reply
  BY <1>20 DEF Reply
<1> QED
  BY <1>1, <1>2, <1>3, <1>4, <1>5, <1>6, <1>7, <1>8, <1>9, <1>10, <1>11, <1>12, <1>13,
     <1>14, <1>15, <1>16, <1>17, <1>18, <1>19, <1>20 DEF Next

\* Success means every Send ended with its final TWants, which only a stream in
\* hand of the server gets.
LEMMA AgreedStep ==
  ASSUME TypeOK, ServerOrder, SendsMatch, OkIsAgreed, [Next]_vars
  PROVE  OkIsAgreed'
<1> USE Numbering DEF TypeOK, ServerOrder, SendsMatch, OkIsAgreed, Received, ClientReady, Stream
<1>1. CASE AttachNext
  BY <1>1 DEF AttachNext
<1>2. CASE AttachFails
  BY <1>2 DEF AttachFails
<1>3. CASE GatherOver
  BY <1>3 DEF GatherOver
<1>4. CASE StartReceiver
  BY <1>4 DEF StartReceiver
<1>5. CASE StartSenders
  BY <1>5 DEF StartSenders
<1>6. CASE AskRound
  BY <1>6 DEF AskRound
<1>7. CASE RoundOver
  BY <1>7 DEF RoundOver
<1>8. CASE LastRound
  BY <1>8 DEF LastRound
<1>9. CASE Commit
  BY <1>9 DEF Commit
<1>10. CASE ReceiverFails
  BY <1>10 DEF ReceiverFails
<1>11. CASE Release
  BY <1>11 DEF Release
<1>12. CASE PushResult
  BY <1>12 DEF PushResult, SendersEnded
<1>13. CASE PullResult
  BY <1>13 DEF PullResult
<1>14. ASSUME NEW i \in Extra, AttachArrives(i) PROVE OkIsAgreed'
  BY <1>14 DEF AttachArrives
<1>15. ASSUME NEW i \in Extra, GatherOne(i) PROVE OkIsAgreed'
  BY <1>15 DEF GatherOne
<1>16. ASSUME NEW i \in Stream, AnswerRound(i) PROVE OkIsAgreed'
  BY <1>16 DEF AnswerRound
<1>17. ASSUME NEW i \in Stream, SenderDone(i) PROVE OkIsAgreed'
  BY <1>17 DEF SenderDone
<1>18. ASSUME NEW i \in Stream, SenderFails(i) PROVE OkIsAgreed'
  BY <1>18 DEF SenderFails
<1>19. CASE Quiet \/ UNCHANGED vars
  BY <1>19 DEF Quiet, vars
<1>20. CASE Reply
  BY <1>20 DEF Reply
<1> QED
  BY <1>1, <1>2, <1>3, <1>4, <1>5, <1>6, <1>7, <1>8, <1>9, <1>10, <1>11, <1>12, <1>13,
     <1>14, <1>15, <1>16, <1>17, <1>18, <1>19, <1>20 DEF Next

\* A client that fails was told so, or a Send failed with Receive.
LEMMA LenientStep ==
  ASSUME TypeOK, ServerOrder, SendersServed, LenientWhenPunctual, [Next]_vars
  PROVE  LenientWhenPunctual'
<1> USE DEF TypeOK, ServerOrder, SendersServed, LenientWhenPunctual
<1>1. CASE AttachNext
  BY <1>1 DEF AttachNext
<1>2. CASE AttachFails
  BY <1>2 DEF AttachFails
<1>3. CASE GatherOver
  BY <1>3 DEF GatherOver
<1>4. CASE StartReceiver
  BY <1>4 DEF StartReceiver
<1>5. CASE StartSenders
  BY <1>5 DEF StartSenders
<1>6. CASE AskRound
  BY <1>6 DEF AskRound
<1>7. CASE RoundOver
  BY <1>7 DEF RoundOver
<1>8. CASE LastRound
  BY <1>8 DEF LastRound
<1>9. CASE Commit
  BY <1>9 DEF Commit
<1>10. CASE ReceiverFails
  BY <1>10 DEF ReceiverFails
<1>11. CASE Release
  BY <1>11 DEF Release
<1>12. CASE PushResult
  BY <1>12 DEF PushResult
<1>13. CASE PullResult
  BY <1>13 DEF PullResult
<1>14. ASSUME NEW i \in Extra, AttachArrives(i) PROVE LenientWhenPunctual'
  BY <1>14 DEF AttachArrives
<1>15. ASSUME NEW i \in Extra, GatherOne(i) PROVE LenientWhenPunctual'
  BY <1>15 DEF GatherOne
<1>16. ASSUME NEW i \in Stream, AnswerRound(i) PROVE LenientWhenPunctual'
  BY <1>16 DEF AnswerRound
<1>17. ASSUME NEW i \in Stream, SenderDone(i) PROVE LenientWhenPunctual'
  BY <1>17 DEF SenderDone
<1>18. ASSUME NEW i \in Stream, SenderFails(i) PROVE LenientWhenPunctual'
  BY <1>18 DEF SenderFails
<1>19. CASE Quiet \/ UNCHANGED vars
  BY <1>19 DEF Quiet, vars
<1>20. CASE Reply
  BY <1>20 DEF Reply
<1> QED
  BY <1>1, <1>2, <1>3, <1>4, <1>5, <1>6, <1>7, <1>8, <1>9, <1>10, <1>11, <1>12, <1>13,
     <1>14, <1>15, <1>16, <1>17, <1>18, <1>19, <1>20 DEF Next

\* A transfer starts with no stream attached.
LEMMA InitIInv == Init => IInv
<1> SUFFICES ASSUME Init PROVE IInv
  OBVIOUS
<1>1. TypeOK
  <2>1. opening \in 1..(Cardinality(Extra) + 1)
    BY Numbering DEF Init
  <2>2. published \in BOOLEAN
    BY DEF Init
  <2> QED
    BY <2>1, <2>2, ShardAssumption DEF Init, TypeOK
<1>2. SameStreams /\ ServerOrder /\ SendsMatch /\ SendersServed
  BY Numbering DEF Init, SameStreams, ServerOrder, SendsMatch, SendersServed, Stream
<1>3. OkIsAgreed /\ LenientWhenPunctual
  BY DEF Init, OkIsAgreed, LenientWhenPunctual
<1> QED
  BY <1>1, <1>2, <1>3 DEF IInv

\* The invariant of both ends of a sharded transfer, whatever connections fail
\* and however late they attach.
THEOREM Inductive == Spec => []IInv
<1>1. IInv /\ [Next]_vars => IInv'
  BY TypeStep, SameStreamsStep, ServerOrderStep, SendsMatchStep, SendersServedStep,
     AgreedStep, LenientStep
     DEF IInv
<1> QED
  BY InitIInv, <1>1, PTL DEF Spec

\* A push is reported as done only when the ref is published and the server
\* received over every stream the client attached: attaches that came too late
\* never pass unnoticed, though the client hears nothing of them.
THEOREM Agreed == Spec => []OkIsAgreed
<1>1. IInv => OkIsAgreed
  BY DEF IInv
<1> QED
  BY Inductive, <1>1, PTL

\* Connections that cannot be opened make no transfer fail, as long as those
\* that are attached are attached in time: only Receive, the commit and the loss of
\* the control connection do.
THEOREM Lenient == Spec => []LenientWhenPunctual
<1>1. IInv => LenientWhenPunctual
  BY DEF IInv
<1> QED
  BY Inductive, <1>1, PTL
=============================================================================
