--------------------------- MODULE RefServiceProofs ---------------------------
(* The safety of the request handlers for any number of handlers, names and  *)
(* trees, with and without a collector.                                      *)
EXTENDS RefService, TLAPS

\* Every step keeps every variable in its range.
LEMMA TypeStep ==
  ASSUME TypeOK, [Next]_vars
  PROVE  TypeOK'
<1> USE ServiceAssumption DEF TypeOK, Answers, Barrier, Steps, Held, Waiting, Reading, Serving, Goto, Answer
<1>1. CASE Crash
  <2>1. crashes' \in 0..MaxCrashes
    BY <1>1 DEF Crash
  <2>2. pc' \in [Handler -> Steps]
    BY <1>1 DEF Crash
  <2>3. resp' \in [Handler -> Answers]
    BY <1>1 DEF Crash
  <2>4. guard' \in [Handler -> Barrier]
    BY <1>1 DEF Crash
  <2>5. lockOf' \in [Name -> Handler \cup {NoHandler}] /\ owner' \in [Handler -> Handler \cup {NoHandler}]
    BY <1>1 DEF Crash
  <2> QED
    BY <1>1, <2>1, <2>2, <2>3, <2>4, <2>5 DEF Crash, readVars
<1>2. CASE Collect
  BY <1>2 DEF Collect, pushVars, lockVars, readVars
<1>3. CASE Done \/ UNCHANGED vars
  BY <1>3 DEF Done, vars, pushVars, lockVars, readVars
<1>4. ASSUME NEW h \in Handler, Start(h) PROVE TypeOK'
  BY <1>4 DEF Start, pushVars, lockVars, readVars
<1>5. ASSUME NEW h \in Handler, EarlyCheck(h) PROVE TypeOK'
  BY <1>5 DEF EarlyCheck, End, pushVars, lockVars, readVars
<1>6. ASSUME NEW h \in Handler, Transfer(h) PROVE TypeOK'
  <2>1. pc' \in [Handler -> Steps] /\ resp' \in [Handler -> Answers]
    BY <1>6 DEF Transfer, End
  <2>2. req[h].root \in Tree
    OBVIOUS
  <2>3. stored' \subseteq Tree
    BY <1>6, <2>2 DEF Transfer
  <2> QED
    BY <1>6, <2>1, <2>3 DEF Transfer, pushVars, lockVars, readVars
<1>7. ASSUME NEW h \in Handler, LookupLock(h) PROVE TypeOK'
  <2>1. req[h].name \in Name
    OBVIOUS
  <2>2. pc' \in [Handler -> Steps]
    BY <1>7 DEF LookupLock
  <2>3. /\ lockOf' \in [Name -> Handler \cup {NoHandler}]
        /\ mutex' \in [Handler -> Handler \cup {NoHandler}]
    BY <1>7, <2>1 DEF LookupLock
  <2> QED
    BY <1>7, <2>2, <2>3 DEF LookupLock, pushVars, readVars
<1>8. ASSUME NEW h \in Handler, Acquire(h) PROVE TypeOK'
  BY <1>8 DEF Acquire, pushVars, readVars
<1>9. ASSUME NEW h \in Handler, Recheck(h) PROVE TypeOK'
  BY <1>9 DEF Recheck, pushVars, lockVars, readVars
<1>10. ASSUME NEW h \in Handler, Prepare(h) PROVE TypeOK'
  BY <1>10 DEF Prepare, lockVars, readVars
<1>11. ASSUME NEW h \in Handler, PutOk(h) PROVE TypeOK'
  BY <1>11 DEF PutOk, lockVars, readVars
<1>12. ASSUME NEW h \in Handler, PutFails(h) PROVE TypeOK'
  BY <1>12 DEF PutFails, lockVars, readVars
<1>13. ASSUME NEW h \in Handler, CommitGuard(h) PROVE TypeOK'
  BY <1>13 DEF CommitGuard, lockVars, readVars
<1>14. ASSUME NEW h \in Handler, Access(h) PROVE TypeOK'
  BY <1>14 DEF Access, pushVars, lockVars, readVars
<1>15. ASSUME NEW h \in Handler, Reply(h) PROVE TypeOK'
  BY <1>15 DEF Reply, pushVars, lockVars, readVars
<1>16. ASSUME NEW h \in Handler, Unlock(h) PROVE TypeOK'
  BY <1>16 DEF Unlock, pushVars, readVars
<1>17. ASSUME NEW h \in Handler, Resolve(h) PROVE TypeOK'
  <2>1. pc' \in [Handler -> Steps] /\ resp' \in [Handler -> Answers]
    BY <1>17 DEF Resolve, End
  <2>2. req[h].name \in Name /\ value[req[h].name] \in Tree \cup {NoTree}
    OBVIOUS
  <2>3. got' \in [Handler -> Tree \cup {NoTree}] /\ accessed' \subseteq Name
    BY <1>17, <2>2 DEF Resolve
  <2> QED
    BY <1>17, <2>1, <2>3 DEF Resolve, pushVars, lockVars
<1>18. ASSUME NEW h \in Handler, Serve(h) PROVE TypeOK'
  <2>1. pc' \in [Handler -> Steps]
    <3>1. pc' = [pc EXCEPT ![h] = "answered"]
      BY <1>18 DEF Serve, End
    <3> QED
      BY <3>1
  <2>2. resp' \in [Handler -> Answers]
    BY <1>18 DEF Serve, End
  <2> QED
    BY <1>18, <2>1, <2>2 DEF Serve, pushVars, lockVars, readVars
<1>19. ASSUME NEW h \in Handler, StartPin(h) PROVE TypeOK'
  <2>1. req[h].names \in SUBSET Name
    OBVIOUS
  <2>2. left' \in [Handler -> SUBSET Name] /\ existed' \in [Handler -> SUBSET Name]
    BY <1>19, <2>1 DEF StartPin
  <2> QED
    BY <1>19, <2>2 DEF StartPin, pushVars, lockVars
<1>20. ASSUME NEW h \in Handler, PinNext(h) PROVE TypeOK'
  <2>1. pc' \in [Handler -> Steps] /\ resp' \in [Handler -> Answers]
    BY <1>20 DEF PinNext, End
  <2>2. left' \in [Handler -> SUBSET Name]
    <3>1. left' = left \/ \E n \in Name : left' = [left EXCEPT ![h] = left[h] \ {n}]
      BY <1>20 DEF PinNext
    <3>2. left \in [Handler -> SUBSET Name] /\ left[h] \in SUBSET Name
      OBVIOUS
    <3> HIDE DEF TypeOK
    <3>3. ASSUME NEW n \in Name, left' = [left EXCEPT ![h] = left[h] \ {n}]
          PROVE  left' \in [Handler -> SUBSET Name]
      <4>1. left[h] \ {n} \in SUBSET Name
        BY <3>2
      <4> QED
        BY <3>2, <3>3, <4>1
    <3> QED
      BY <3>1, <3>2, <3>3
  <2>3. pinned' \subseteq Name
    BY <1>20 DEF PinNext
  <2> QED
    BY <1>20, <2>1, <2>2, <2>3 DEF PinNext, pushVars, lockVars
<1>21. ASSUME NEW h \in Handler, PinDone(h) PROVE TypeOK'
  BY <1>21 DEF PinDone, End, pushVars, lockVars, readVars
<1>22. ASSUME NEW h \in Handler, List(h) PROVE TypeOK'
  BY <1>22 DEF List, End, pushVars, lockVars, readVars
<1>23. ASSUME NEW h \in Handler, Misses(h) PROVE TypeOK'
  BY <1>23 DEF Misses, pushVars, lockVars, readVars
<1> QED
  BY <1>1, <1>2, <1>3, <1>4, <1>5, <1>6, <1>7, <1>8, <1>9, <1>10, <1>11,
     <1>12, <1>13, <1>14, <1>15, <1>16, <1>17, <1>18, <1>19, <1>20, <1>21,
     <1>22, <1>23 DEF Next, Begin, Step, OwnStep, PeerStep

\* What answering and going on do to the handlers.
LEMMA Answering ==
  ASSUME TypeOK, NEW h \in Handler, NEW what, Answer(h, what)
  PROVE  resp'[h] = what /\ \A g \in Handler \ {h} : resp'[g] = resp[g]
BY DEF TypeOK, Answer

\* Goto moves one handler.
LEMMA Going ==
  ASSUME TypeOK, NEW h \in Handler, NEW step, Goto(h, step)
  PROVE  pc'[h] = step /\ \A g \in Handler \ {h} : pc'[g] = pc[g]
BY DEF TypeOK, Goto

\* What a Put does to the ref and to its handler.
LEMMA Publishing ==
  ASSUME TypeOK, NEW h \in Handler, PutOk(h)
  PROVE  /\ req[h].name \in Name /\ req[h].root # NoTree
         /\ value'[req[h].name] = req[h].root
         /\ \A n \in Name \ {req[h].name} : value'[n] = value[n]
         /\ took'[h]
         /\ \A g \in Handler \ {h} : took'[g] = took[g]
<1>1. req[h].name \in Name /\ req[h].root # NoTree
  BY ServiceAssumption DEF TypeOK
<1> QED
  BY <1>1 DEF TypeOK, PutOk

\* A step of one handler leaves what the others answered, published and read.
LEMMA OthersStay ==
  ASSUME TypeOK, NEW h \in Handler, Begin(h) \/ Step(h), NEW g \in Handler \ {h}
  PROVE  /\ req' = req /\ pc'[g] = pc[g] /\ resp'[g] = resp[g]
         /\ took'[g] = took[g] /\ got'[g] = got[g]
<1>1. req' = req
  BY DEF Begin, Step, OwnStep, PeerStep, Start, EarlyCheck, Transfer, LookupLock, Acquire, Recheck, Prepare, PutOk,
         PutFails, CommitGuard, Access, Reply, Unlock, Resolve, Misses, Serve, StartPin, PinNext, PinDone,
         List
<1>2. took'[g] = took[g]
  <2>1. CASE PutOk(h)
    BY <2>1, Publishing
  <2>2. CASE ~PutOk(h)
    BY <2>2
    DEF Begin, Step, OwnStep, PeerStep, Start, EarlyCheck, Transfer, LookupLock, Acquire, Recheck, Prepare, PutFails,
        CommitGuard, Access, Reply, Unlock, Resolve, Misses, Serve, StartPin, PinNext, PinDone, List,
        pushVars
  <2> QED
    BY <2>1, <2>2
<1>3. got'[g] = got[g]
  <2>1. CASE Resolve(h)
    BY <2>1 DEF Resolve, TypeOK
  <2>2. CASE ~Resolve(h)
    BY <2>2
    DEF Begin, Step, OwnStep, PeerStep, Start, EarlyCheck, Transfer, LookupLock, Acquire, Recheck, Prepare, PutOk,
        PutFails, CommitGuard, Access, Reply, Unlock, Misses, Serve, StartPin, PinNext, PinDone, List,
        readVars
  <2> QED
    BY <2>1, <2>2
<1>4. pc'[g] = pc[g]
  BY Going
  DEF Begin, Step, OwnStep, PeerStep, Start, EarlyCheck, Transfer, LookupLock, Acquire, Recheck, Prepare, PutOk,
      PutFails, CommitGuard, Access, Reply, Unlock, Resolve, Misses, Serve, StartPin, PinNext, PinDone,
      List, End
<1>5. resp'[g] = resp[g]
  BY Answering
  DEF Begin, Step, OwnStep, PeerStep, Start, EarlyCheck, Transfer, LookupLock, Acquire, Recheck, Prepare, PutOk,
      PutFails, CommitGuard, Access, Reply, Unlock, Resolve, Misses, Serve, StartPin, PinNext, PinDone,
      List, End
<1> QED
  BY <1>1, <1>2, <1>3, <1>4, <1>5

-----------------------------------------------------------------------------
(* The conjuncts of the invariant, one lemma each, one step per action       *)

\* The map never loses a mutex in use, so the handlers of a name share one.
LEMMA OneMutexStep ==
  ASSUME IInv, TypeOK', [Next]_vars
  PROVE  OneMutex'
<1> USE ServiceAssumption DEF IInv, TypeOK, OneMutex, Steps, Held, Waiting, Reading, Serving, Goto, Answer
<1>1. CASE Crash
  BY <1>1 DEF Crash, readVars
<1>2. CASE Collect
  BY <1>2 DEF Collect, pushVars, lockVars, readVars
<1>3. CASE Done \/ UNCHANGED vars
  BY <1>3 DEF Done, vars, pushVars, lockVars, readVars
<1>4. ASSUME NEW h \in Handler, Start(h) PROVE OneMutex'
  BY <1>4 DEF Start, pushVars, lockVars, readVars
<1>5. ASSUME NEW h \in Handler, EarlyCheck(h) PROVE OneMutex'
  BY <1>5 DEF EarlyCheck, End, pushVars, lockVars, readVars
<1>6. ASSUME NEW h \in Handler, Transfer(h) PROVE OneMutex'
  BY <1>6 DEF Transfer, End, pushVars, lockVars, readVars
<1>7. ASSUME NEW h \in Handler, LookupLock(h) PROVE OneMutex'
  BY <1>7 DEF LookupLock, pushVars, readVars
<1>8. ASSUME NEW h \in Handler, Acquire(h) PROVE OneMutex'
  BY <1>8 DEF Acquire, pushVars, readVars
<1>9. ASSUME NEW h \in Handler, Recheck(h) PROVE OneMutex'
  BY <1>9 DEF Recheck, pushVars, lockVars, readVars
<1>10. ASSUME NEW h \in Handler, Prepare(h) PROVE OneMutex'
  BY <1>10 DEF Prepare, lockVars, readVars
<1>11. ASSUME NEW h \in Handler, PutOk(h) PROVE OneMutex'
  BY <1>11 DEF PutOk, lockVars, readVars
<1>12. ASSUME NEW h \in Handler, PutFails(h) PROVE OneMutex'
  BY <1>12 DEF PutFails, lockVars, readVars
<1>13. ASSUME NEW h \in Handler, CommitGuard(h) PROVE OneMutex'
  BY <1>13 DEF CommitGuard, lockVars, readVars
<1>14. ASSUME NEW h \in Handler, Access(h) PROVE OneMutex'
  BY <1>14 DEF Access, pushVars, lockVars, readVars
<1>15. ASSUME NEW h \in Handler, Reply(h) PROVE OneMutex'
  BY <1>15 DEF Reply, pushVars, lockVars, readVars
<1>16. ASSUME NEW h \in Handler, Unlock(h) PROVE OneMutex'
  BY <1>16 DEF Unlock, pushVars, readVars
<1>17. ASSUME NEW h \in Handler, Resolve(h) PROVE OneMutex'
  BY <1>17 DEF Resolve, End, pushVars, lockVars
<1>18. ASSUME NEW h \in Handler, Serve(h) PROVE OneMutex'
  BY <1>18 DEF Serve, End, pushVars, lockVars, readVars
<1>19. ASSUME NEW h \in Handler, StartPin(h) PROVE OneMutex'
  BY <1>19 DEF StartPin, pushVars, lockVars
<1>20. ASSUME NEW h \in Handler, PinNext(h) PROVE OneMutex'
  BY <1>20 DEF PinNext, End, pushVars, lockVars
<1>21. ASSUME NEW h \in Handler, PinDone(h) PROVE OneMutex'
  BY <1>21 DEF PinDone, End, pushVars, lockVars, readVars
<1>22. ASSUME NEW h \in Handler, List(h) PROVE OneMutex'
  BY <1>22 DEF List, End, pushVars, lockVars, readVars
<1>23. ASSUME NEW h \in Handler, Misses(h) PROVE OneMutex'
  BY <1>23 DEF Misses, pushVars, lockVars, readVars
<1> QED
  BY <1>1, <1>2, <1>3, <1>4, <1>5, <1>6, <1>7, <1>8, <1>9, <1>10, <1>11,
     <1>12, <1>13, <1>14, <1>15, <1>16, <1>17, <1>18, <1>19, <1>20, <1>21,
     <1>22, <1>23 DEF Next, Begin, Step, OwnStep, PeerStep

\* A handler in the critical section holds its mutex.
LEMMA HolderOwnsStep ==
  ASSUME IInv, TypeOK', [Next]_vars
  PROVE  HolderOwns'
<1> USE ServiceAssumption DEF IInv, TypeOK, HolderOwns, OneMutex, Steps, Held, Waiting, Reading, Serving, Goto, Answer
<1>1. CASE Crash
  BY <1>1 DEF Crash, readVars
<1>2. CASE Collect
  BY <1>2 DEF Collect, pushVars, lockVars, readVars
<1>3. CASE Done \/ UNCHANGED vars
  BY <1>3 DEF Done, vars, pushVars, lockVars, readVars
<1>4. ASSUME NEW h \in Handler, Start(h) PROVE HolderOwns'
  BY <1>4 DEF Start, pushVars, lockVars, readVars
<1>5. ASSUME NEW h \in Handler, EarlyCheck(h) PROVE HolderOwns'
  BY <1>5 DEF EarlyCheck, End, pushVars, lockVars, readVars
<1>6. ASSUME NEW h \in Handler, Transfer(h) PROVE HolderOwns'
  BY <1>6 DEF Transfer, End, pushVars, lockVars, readVars
<1>7. ASSUME NEW h \in Handler, LookupLock(h) PROVE HolderOwns'
  BY <1>7 DEF LookupLock, pushVars, readVars
<1>8. ASSUME NEW h \in Handler, Acquire(h) PROVE HolderOwns'
  BY <1>8 DEF Acquire, pushVars, readVars
<1>9. ASSUME NEW h \in Handler, Recheck(h) PROVE HolderOwns'
  BY <1>9 DEF Recheck, pushVars, lockVars, readVars
<1>10. ASSUME NEW h \in Handler, Prepare(h) PROVE HolderOwns'
  BY <1>10 DEF Prepare, lockVars, readVars
<1>11. ASSUME NEW h \in Handler, PutOk(h) PROVE HolderOwns'
  BY <1>11 DEF PutOk, lockVars, readVars
<1>12. ASSUME NEW h \in Handler, PutFails(h) PROVE HolderOwns'
  BY <1>12 DEF PutFails, lockVars, readVars
<1>13. ASSUME NEW h \in Handler, CommitGuard(h) PROVE HolderOwns'
  BY <1>13 DEF CommitGuard, lockVars, readVars
<1>14. ASSUME NEW h \in Handler, Access(h) PROVE HolderOwns'
  BY <1>14 DEF Access, pushVars, lockVars, readVars
<1>15. ASSUME NEW h \in Handler, Reply(h) PROVE HolderOwns'
  BY <1>15 DEF Reply, pushVars, lockVars, readVars
<1>16. ASSUME NEW h \in Handler, Unlock(h) PROVE HolderOwns'
  BY <1>16 DEF Unlock, pushVars, readVars
<1>17. ASSUME NEW h \in Handler, Resolve(h) PROVE HolderOwns'
  BY <1>17 DEF Resolve, End, pushVars, lockVars
<1>18. ASSUME NEW h \in Handler, Serve(h) PROVE HolderOwns'
  BY <1>18 DEF Serve, End, pushVars, lockVars, readVars
<1>19. ASSUME NEW h \in Handler, StartPin(h) PROVE HolderOwns'
  BY <1>19 DEF StartPin, pushVars, lockVars
<1>20. ASSUME NEW h \in Handler, PinNext(h) PROVE HolderOwns'
  BY <1>20 DEF PinNext, End, pushVars, lockVars
<1>21. ASSUME NEW h \in Handler, PinDone(h) PROVE HolderOwns'
  BY <1>21 DEF PinDone, End, pushVars, lockVars, readVars
<1>22. ASSUME NEW h \in Handler, List(h) PROVE HolderOwns'
  BY <1>22 DEF List, End, pushVars, lockVars, readVars
<1>23. ASSUME NEW h \in Handler, Misses(h) PROVE HolderOwns'
  BY <1>23 DEF Misses, pushVars, lockVars, readVars
<1> QED
  BY <1>1, <1>2, <1>3, <1>4, <1>5, <1>6, <1>7, <1>8, <1>9, <1>10, <1>11,
     <1>12, <1>13, <1>14, <1>15, <1>16, <1>17, <1>18, <1>19, <1>20, <1>21,
     <1>22, <1>23 DEF Next, Begin, Step, OwnStep, PeerStep

\* Nobody else publishes the name between the re-check and the Put.
LEMMA CheckStandsStep ==
  ASSUME IInv, TypeOK', [Next]_vars
  PROVE  CheckStands'
<1>0. TypeOK /\ CheckStands /\ MutualExclusion
  BY DEF IInv
<1> DEFINE Checked == {"prepare", "put"}
<1>a. ASSUME UNCHANGED <<value, req>>,
             \A g \in Handler : pc'[g] \in Checked => pc[g] \in Checked \/ CasHolds(g)
      PROVE  CheckStands'
  BY <1>0, <1>a DEF CheckStands, CasHolds
<1>1. CASE Crash
  BY <1>0, <1>1, <1>a DEF Crash, readVars, TypeOK
<1>2. CASE Collect \/ Done \/ UNCHANGED vars
  BY <1>0, <1>2, <1>a DEF Collect, Done, vars, pushVars
<1>3. ASSUME NEW h \in Handler, Begin(h) PROVE CheckStands'
  <2>1. UNCHANGED <<value, req>>
    BY <1>3 DEF Begin, Start, Resolve, StartPin, List, pushVars
  <2>2. \A g \in Handler : pc'[g] \in Checked => pc[g] \in Checked
    BY <1>0, <1>3, Going DEF Begin, Start, Resolve, StartPin, List, End
  <2> QED
    BY <2>1, <2>2, <1>a
<1>4. ASSUME NEW h \in Handler, PeerStep(h) \/ PinNext(h) \/ PinDone(h) PROVE CheckStands'
  <2>1. UNCHANGED <<value, req>>
    BY <1>4 DEF PeerStep, Transfer, Misses, Serve, PinNext, PinDone, pushVars
  <2>2. \A g \in Handler : pc'[g] \in Checked => pc[g] \in Checked
    BY <1>0, <1>4, Going DEF PeerStep, Transfer, Misses, Serve, PinNext, PinDone, End
  <2> QED
    BY <2>1, <2>2, <1>a
<1>5. ASSUME NEW h \in Handler, EarlyCheck(h) \/ LookupLock(h) \/ Acquire(h) PROVE CheckStands'
  <2>1. UNCHANGED <<value, req>>
    BY <1>5 DEF EarlyCheck, LookupLock, Acquire, pushVars
  <2>2. \A g \in Handler : pc'[g] \in Checked => pc[g] \in Checked
    BY <1>0, <1>5, Going DEF EarlyCheck, LookupLock, Acquire, End
  <2> QED
    BY <2>1, <2>2, <1>a
<1>6. ASSUME NEW h \in Handler, Recheck(h) PROVE CheckStands'
  <2>1. UNCHANGED <<value, req>>
    BY <1>6 DEF Recheck, pushVars
  <2>2. \A g \in Handler : pc'[g] \in Checked => pc[g] \in Checked \/ CasHolds(g)
    BY <1>0, <1>6, Going DEF Recheck
  <2> QED
    BY <2>1, <2>2, <1>a
<1>7. ASSUME NEW h \in Handler, Prepare(h) \/ PutFails(h) \/ CommitGuard(h) PROVE CheckStands'
  <2>1. UNCHANGED <<value, req>>
    BY <1>7 DEF Prepare, PutFails, CommitGuard
  <2>2. \A g \in Handler : pc'[g] \in Checked => pc[g] \in Checked
    BY <1>0, <1>7, Going DEF Prepare, PutFails, CommitGuard
  <2> QED
    BY <2>1, <2>2, <1>a
<1>8. ASSUME NEW h \in Handler, PutOk(h) PROVE CheckStands'
  <2> SUFFICES ASSUME NEW g \in Handler, pc'[g] \in Checked PROVE CasHolds(g)'
    BY DEF CheckStands
  <2>1. g # h /\ pc[g] \in Checked /\ req' = req
    BY <1>0, <1>8, Going DEF PutOk
  <2>2. req[g].name # req[h].name
    BY <1>0, <1>8, <2>1 DEF PutOk, MutualExclusion, Held
  <2>3. req[g].name \in Name
    BY <1>0, ServiceAssumption DEF TypeOK
  <2>4. value'[req[g].name] = value[req[g].name]
    BY <1>0, <1>8, <2>2, <2>3, Publishing
  <2> QED
    BY <1>0, <2>1, <2>4 DEF CheckStands, CasHolds
<1>9. ASSUME NEW h \in Handler, Access(h) \/ Reply(h) \/ Unlock(h) PROVE CheckStands'
  <2>1. UNCHANGED <<value, req>>
    BY <1>9 DEF Access, Reply, Unlock, pushVars
  <2>2. \A g \in Handler : pc'[g] \in Checked => pc[g] \in Checked
    BY <1>0, <1>9, Going DEF Access, Reply, Unlock
  <2> QED
    BY <2>1, <2>2, <1>a
<1> QED
  BY <1>1, <1>2, <1>3, <1>4, <1>5, <1>6, <1>7, <1>8, <1>9 DEF Next, Step, OwnStep

\* A tree behind the barrier, or without a collector one that was transferred, stays stored.
LEMMA TransferredStep ==
  ASSUME IInv, TypeOK', [Next]_vars
  PROVE  Transferred'
<1> USE ServiceAssumption DEF IInv, TypeOK, Transferred, Steps, Held, Waiting, Reading, Serving, Goto, Answer
<1>1. CASE Crash
  BY <1>1 DEF Crash, readVars
<1>2. CASE Collect
  BY <1>2 DEF Collect, pushVars, lockVars, readVars
<1>3. CASE Done \/ UNCHANGED vars
  BY <1>3 DEF Done, vars, pushVars, lockVars, readVars
<1>4. ASSUME NEW h \in Handler, Start(h) PROVE Transferred'
  BY <1>4 DEF Start, pushVars, lockVars, readVars
<1>5. ASSUME NEW h \in Handler, EarlyCheck(h) PROVE Transferred'
  BY <1>5 DEF EarlyCheck, End, pushVars, lockVars, readVars
<1>6. ASSUME NEW h \in Handler, Transfer(h) PROVE Transferred'
  BY <1>6 DEF Transfer, End, pushVars, lockVars, readVars
<1>7. ASSUME NEW h \in Handler, LookupLock(h) PROVE Transferred'
  BY <1>7 DEF LookupLock, pushVars, readVars
<1>8. ASSUME NEW h \in Handler, Acquire(h) PROVE Transferred'
  BY <1>8 DEF Acquire, pushVars, readVars
<1>9. ASSUME NEW h \in Handler, Recheck(h) PROVE Transferred'
  BY <1>9 DEF Recheck, pushVars, lockVars, readVars
<1>10. ASSUME NEW h \in Handler, Prepare(h) PROVE Transferred'
  BY <1>10 DEF Prepare, lockVars, readVars
<1>11. ASSUME NEW h \in Handler, PutOk(h) PROVE Transferred'
  BY <1>11 DEF PutOk, lockVars, readVars
<1>12. ASSUME NEW h \in Handler, PutFails(h) PROVE Transferred'
  BY <1>12 DEF PutFails, lockVars, readVars
<1>13. ASSUME NEW h \in Handler, CommitGuard(h) PROVE Transferred'
  BY <1>13 DEF CommitGuard, lockVars, readVars
<1>14. ASSUME NEW h \in Handler, Access(h) PROVE Transferred'
  BY <1>14 DEF Access, pushVars, lockVars, readVars
<1>15. ASSUME NEW h \in Handler, Reply(h) PROVE Transferred'
  BY <1>15 DEF Reply, pushVars, lockVars, readVars
<1>16. ASSUME NEW h \in Handler, Unlock(h) PROVE Transferred'
  BY <1>16 DEF Unlock, pushVars, readVars
<1>17. ASSUME NEW h \in Handler, Resolve(h) PROVE Transferred'
  BY <1>17 DEF Resolve, End, pushVars, lockVars
<1>18. ASSUME NEW h \in Handler, Serve(h) PROVE Transferred'
  BY <1>18 DEF Serve, End, pushVars, lockVars, readVars
<1>19. ASSUME NEW h \in Handler, StartPin(h) PROVE Transferred'
  BY <1>19 DEF StartPin, pushVars, lockVars
<1>20. ASSUME NEW h \in Handler, PinNext(h) PROVE Transferred'
  BY <1>20 DEF PinNext, End, pushVars, lockVars
<1>21. ASSUME NEW h \in Handler, PinDone(h) PROVE Transferred'
  BY <1>21 DEF PinDone, End, pushVars, lockVars, readVars
<1>22. ASSUME NEW h \in Handler, List(h) PROVE Transferred'
  BY <1>22 DEF List, End, pushVars, lockVars, readVars
<1>23. ASSUME NEW h \in Handler, Misses(h) PROVE Transferred'
  BY <1>23 DEF Misses, pushVars, lockVars, readVars
<1> QED
  BY <1>1, <1>2, <1>3, <1>4, <1>5, <1>6, <1>7, <1>8, <1>9, <1>10, <1>11,
     <1>12, <1>13, <1>14, <1>15, <1>16, <1>17, <1>18, <1>19, <1>20, <1>21,
     <1>22, <1>23 DEF Next, Begin, Step, OwnStep, PeerStep

\* Every published tree is stored.
LEMMA RefsCompleteStep ==
  ASSUME IInv, TypeOK', [Next]_vars
  PROVE  RefsComplete'
<1> USE ServiceAssumption DEF IInv, TypeOK, RefsComplete, Transferred, GuardBrackets, Steps, Held, Waiting, Reading, Serving, Goto, Answer
<1>1. CASE Crash
  BY <1>1 DEF Crash, readVars
<1>2. CASE Collect
  BY <1>2 DEF Collect, pushVars, lockVars, readVars
<1>3. CASE Done \/ UNCHANGED vars
  BY <1>3 DEF Done, vars, pushVars, lockVars, readVars
<1>4. ASSUME NEW h \in Handler, Start(h) PROVE RefsComplete'
  BY <1>4 DEF Start, pushVars, lockVars, readVars
<1>5. ASSUME NEW h \in Handler, EarlyCheck(h) PROVE RefsComplete'
  BY <1>5 DEF EarlyCheck, End, pushVars, lockVars, readVars
<1>6. ASSUME NEW h \in Handler, Transfer(h) PROVE RefsComplete'
  BY <1>6 DEF Transfer, End, pushVars, lockVars, readVars
<1>7. ASSUME NEW h \in Handler, LookupLock(h) PROVE RefsComplete'
  BY <1>7 DEF LookupLock, pushVars, readVars
<1>8. ASSUME NEW h \in Handler, Acquire(h) PROVE RefsComplete'
  BY <1>8 DEF Acquire, pushVars, readVars
<1>9. ASSUME NEW h \in Handler, Recheck(h) PROVE RefsComplete'
  BY <1>9 DEF Recheck, pushVars, lockVars, readVars
<1>10. ASSUME NEW h \in Handler, Prepare(h) PROVE RefsComplete'
  BY <1>10 DEF Prepare, lockVars, readVars
<1>11. ASSUME NEW h \in Handler, PutOk(h) PROVE RefsComplete'
  BY <1>11 DEF PutOk, lockVars, readVars
<1>12. ASSUME NEW h \in Handler, PutFails(h) PROVE RefsComplete'
  BY <1>12 DEF PutFails, lockVars, readVars
<1>13. ASSUME NEW h \in Handler, CommitGuard(h) PROVE RefsComplete'
  BY <1>13 DEF CommitGuard, lockVars, readVars
<1>14. ASSUME NEW h \in Handler, Access(h) PROVE RefsComplete'
  BY <1>14 DEF Access, pushVars, lockVars, readVars
<1>15. ASSUME NEW h \in Handler, Reply(h) PROVE RefsComplete'
  BY <1>15 DEF Reply, pushVars, lockVars, readVars
<1>16. ASSUME NEW h \in Handler, Unlock(h) PROVE RefsComplete'
  BY <1>16 DEF Unlock, pushVars, readVars
<1>17. ASSUME NEW h \in Handler, Resolve(h) PROVE RefsComplete'
  BY <1>17 DEF Resolve, End, pushVars, lockVars
<1>18. ASSUME NEW h \in Handler, Serve(h) PROVE RefsComplete'
  BY <1>18 DEF Serve, End, pushVars, lockVars, readVars
<1>19. ASSUME NEW h \in Handler, StartPin(h) PROVE RefsComplete'
  BY <1>19 DEF StartPin, pushVars, lockVars
<1>20. ASSUME NEW h \in Handler, PinNext(h) PROVE RefsComplete'
  BY <1>20 DEF PinNext, End, pushVars, lockVars
<1>21. ASSUME NEW h \in Handler, PinDone(h) PROVE RefsComplete'
  BY <1>21 DEF PinDone, End, pushVars, lockVars, readVars
<1>22. ASSUME NEW h \in Handler, List(h) PROVE RefsComplete'
  BY <1>22 DEF List, End, pushVars, lockVars, readVars
<1>23. ASSUME NEW h \in Handler, Misses(h) PROVE RefsComplete'
  BY <1>23 DEF Misses, pushVars, lockVars, readVars
<1> QED
  BY <1>1, <1>2, <1>3, <1>4, <1>5, <1>6, <1>7, <1>8, <1>9, <1>10, <1>11,
     <1>12, <1>13, <1>14, <1>15, <1>16, <1>17, <1>18, <1>19, <1>20, <1>21,
     <1>22, <1>23 DEF Next, Begin, Step, OwnStep, PeerStep

\* What has been answered, published, guarded and read so far, by program counter.
LEMMA ProgressStep ==
  ASSUME IInv, TypeOK', [Next]_vars
  PROVE  Progress'
<1> USE DEF Reading, Serving
<1>0. TypeOK /\ Progress
  BY DEF IInv
<1>1. CASE Crash
  BY <1>0, <1>1 DEF Crash, readVars, Progress, TypeOK
<1>2. CASE Collect
  BY <1>0, <1>2 DEF Collect, pushVars, lockVars, readVars, Progress, TypeOK
<1>3. CASE Done \/ UNCHANGED vars
  BY <1>0, <1>3 DEF Done, vars, pushVars, lockVars, readVars, Progress, TypeOK
<1>4. ASSUME NEW h \in Handler, Start(h) PROVE Progress'
  BY <1>0, <1>4, Answering, Going DEF Start, pushVars, lockVars, readVars, Progress, TypeOK
<1>5. ASSUME NEW h \in Handler, EarlyCheck(h) PROVE Progress'
  BY <1>0, <1>5, Answering, Going DEF EarlyCheck, End, pushVars, lockVars, readVars, Progress, TypeOK
<1>6. ASSUME NEW h \in Handler, Transfer(h) PROVE Progress'
  BY <1>0, <1>6, Answering, Going DEF Transfer, End, pushVars, lockVars, readVars, Progress, TypeOK
<1>7. ASSUME NEW h \in Handler, LookupLock(h) PROVE Progress'
  BY <1>0, <1>7, Answering, Going DEF LookupLock, pushVars, readVars, Progress, TypeOK
<1>8. ASSUME NEW h \in Handler, Acquire(h) PROVE Progress'
  BY <1>0, <1>8, Answering, Going DEF Acquire, pushVars, readVars, Progress, TypeOK
<1>9. ASSUME NEW h \in Handler, Recheck(h) PROVE Progress'
  BY <1>0, <1>9, Answering, Going DEF Recheck, pushVars, lockVars, readVars, Progress, TypeOK
<1>10. ASSUME NEW h \in Handler, Prepare(h) PROVE Progress'
  BY <1>0, <1>10, Answering, Going DEF Prepare, lockVars, readVars, Progress, TypeOK
<1>11. ASSUME NEW h \in Handler, PutOk(h) PROVE Progress'
  <2>1. pc[h] = "put" /\ UNCHANGED <<req, resp, got, left, existed, accessed, pinned>>
    BY <1>11 DEF PutOk, readVars
  <2>2. pc'[h] \in {"commit", "access"} /\ \A g \in Handler \ {h} : pc'[g] = pc[g]
    BY <1>0, <1>11, Going DEF PutOk
  <2>3. \A n \in Name : value[n] # NoTree => value'[n] # NoTree
    BY <1>0, <1>11, Publishing
  <2>4. /\ value'[req[h].name] # NoTree /\ took'[h]
        /\ \A g \in Handler \ {h} : took'[g] = took[g]
    BY <1>0, <1>11, Publishing
  <2>5. \A g \in Handler : req[g].name \in Name /\ existed[g] \subseteq Name
    BY <1>0, ServiceAssumption DEF TypeOK
  <2>6. accessed \cup pinned \subseteq Name
    BY <1>0 DEF TypeOK
  <2> QED
    BY <1>0, <2>1, <2>2, <2>3, <2>4, <2>5, <2>6 DEF Progress
<1>12. ASSUME NEW h \in Handler, PutFails(h) PROVE Progress'
  BY <1>0, <1>12, Answering, Going DEF PutFails, lockVars, readVars, Progress, TypeOK
<1>13. ASSUME NEW h \in Handler, CommitGuard(h) PROVE Progress'
  BY <1>0, <1>13, Answering, Going DEF CommitGuard, lockVars, readVars, Progress, TypeOK
<1>14. ASSUME NEW h \in Handler, Access(h) PROVE Progress'
  BY <1>0, <1>14, Answering, Going DEF Access, pushVars, lockVars, readVars, Progress, TypeOK
<1>15. ASSUME NEW h \in Handler, Reply(h) PROVE Progress'
  BY <1>0, <1>15, Answering, Going DEF Reply, pushVars, lockVars, readVars, Progress, TypeOK
<1>16. ASSUME NEW h \in Handler, Unlock(h) PROVE Progress'
  BY <1>0, <1>16, Answering, Going DEF Unlock, pushVars, readVars, Progress, TypeOK
<1>17. ASSUME NEW h \in Handler, Resolve(h) PROVE Progress'
  BY <1>0, <1>17, Answering, Going DEF Resolve, End, pushVars, lockVars, Progress, TypeOK
<1>18. ASSUME NEW h \in Handler, Serve(h) PROVE Progress'
  BY <1>0, <1>18, Answering, Going DEF Serve, End, pushVars, lockVars, readVars, Progress, TypeOK
<1>19. ASSUME NEW h \in Handler, StartPin(h) PROVE Progress'
  BY <1>0, <1>19, Answering, Going DEF StartPin, pushVars, lockVars, Progress, TypeOK
<1>20. ASSUME NEW h \in Handler, PinNext(h) PROVE Progress'
  BY <1>0, <1>20, Answering, Going DEF PinNext, End, pushVars, lockVars, Progress, TypeOK
<1>21. ASSUME NEW h \in Handler, PinDone(h) PROVE Progress'
  BY <1>0, <1>21, Answering, Going DEF PinDone, End, pushVars, lockVars, readVars, Progress, TypeOK
<1>22. ASSUME NEW h \in Handler, List(h) PROVE Progress'
  BY <1>0, <1>22, Answering, Going DEF List, End, pushVars, lockVars, readVars, Progress, TypeOK
<1>23. ASSUME NEW h \in Handler, Misses(h) PROVE Progress'
  BY <1>0, <1>23, Answering, Going DEF Misses, pushVars, lockVars, readVars, Progress, TypeOK
<1> QED
  BY <1>1, <1>2, <1>3, <1>4, <1>5, <1>6, <1>7, <1>8, <1>9, <1>10, <1>11,
     <1>12, <1>13, <1>14, <1>15, <1>16, <1>17, <1>18, <1>19, <1>20, <1>21,
     <1>22, <1>23 DEF Next, Begin, Step, OwnStep, PeerStep

\* Readers answer only what they saw, and what they saw stays.
LEMMA ReadsStep ==
  ASSUME IInv, TypeOK', [Next]_vars
  PROVE  Reads'
<1> USE DEF Reading, Serving
<1>0. TypeOK /\ Reads /\ Progress
  BY DEF IInv
<1>1. CASE Crash
  BY <1>0, <1>1 DEF Crash, readVars, Reads, Progress, TypeOK
<1>2. CASE Collect
  BY <1>0, <1>2 DEF Collect, pushVars, lockVars, readVars, Reads, Progress, TypeOK
<1>3. CASE Done \/ UNCHANGED vars
  BY <1>0, <1>3 DEF Done, vars, pushVars, lockVars, readVars, Reads, Progress, TypeOK
<1>4. ASSUME NEW h \in Handler, Start(h) PROVE Reads'
  BY <1>0, <1>4, Answering, Going DEF Start, pushVars, lockVars, readVars, Reads, Progress, TypeOK
<1>5. ASSUME NEW h \in Handler, EarlyCheck(h) PROVE Reads'
  BY <1>0, <1>5, Answering, Going DEF EarlyCheck, End, pushVars, lockVars, readVars, Reads, Progress, TypeOK
<1>6. ASSUME NEW h \in Handler, Transfer(h) PROVE Reads'
  BY <1>0, <1>6, Answering, Going DEF Transfer, End, pushVars, lockVars, readVars, Reads, Progress, TypeOK
<1>7. ASSUME NEW h \in Handler, LookupLock(h) PROVE Reads'
  BY <1>0, <1>7, Answering, Going DEF LookupLock, pushVars, readVars, Reads, Progress, TypeOK
<1>8. ASSUME NEW h \in Handler, Acquire(h) PROVE Reads'
  BY <1>0, <1>8, Answering, Going DEF Acquire, pushVars, readVars, Reads, Progress, TypeOK
<1>9. ASSUME NEW h \in Handler, Recheck(h) PROVE Reads'
  BY <1>0, <1>9, Answering, Going DEF Recheck, pushVars, lockVars, readVars, Reads, Progress, TypeOK
<1>10. ASSUME NEW h \in Handler, Prepare(h) PROVE Reads'
  BY <1>0, <1>10, Answering, Going DEF Prepare, lockVars, readVars, Reads, Progress, TypeOK
<1>11. ASSUME NEW h \in Handler, PutOk(h) PROVE Reads'
  <2>1. pc[h] = "put" /\ UNCHANGED <<req, resp, got, left, existed, accessed, pinned>>
    BY <1>11 DEF PutOk, readVars
  <2>2. pc'[h] \in {"commit", "access"} /\ \A g \in Handler \ {h} : pc'[g] = pc[g]
    BY <1>0, <1>11, Going DEF PutOk
  <2>3. \A n \in Name : value[n] # NoTree => value'[n] # NoTree
    BY <1>0, <1>11, Publishing
  <2>4. /\ value'[req[h].name] # NoTree /\ took'[h]
        /\ \A g \in Handler \ {h} : took'[g] = took[g]
    BY <1>0, <1>11, Publishing
  <2>5. \A g \in Handler : req[g].name \in Name /\ existed[g] \subseteq Name
    BY <1>0, ServiceAssumption DEF TypeOK
  <2>6. accessed \cup pinned \subseteq Name
    BY <1>0 DEF TypeOK
  <2> QED
    BY <1>0, <2>1, <2>2, <2>3, <2>4, <2>5, <2>6 DEF Reads, Progress
<1>12. ASSUME NEW h \in Handler, PutFails(h) PROVE Reads'
  BY <1>0, <1>12, Answering, Going DEF PutFails, lockVars, readVars, Reads, Progress, TypeOK
<1>13. ASSUME NEW h \in Handler, CommitGuard(h) PROVE Reads'
  BY <1>0, <1>13, Answering, Going DEF CommitGuard, lockVars, readVars, Reads, Progress, TypeOK
<1>14. ASSUME NEW h \in Handler, Access(h) PROVE Reads'
  BY <1>0, <1>14, Answering, Going DEF Access, pushVars, lockVars, readVars, Reads, Progress, TypeOK
<1>15. ASSUME NEW h \in Handler, Reply(h) PROVE Reads'
  BY <1>0, <1>15, Answering, Going DEF Reply, pushVars, lockVars, readVars, Reads, Progress, TypeOK
<1>16. ASSUME NEW h \in Handler, Unlock(h) PROVE Reads'
  BY <1>0, <1>16, Answering, Going DEF Unlock, pushVars, readVars, Reads, Progress, TypeOK
<1>17. ASSUME NEW h \in Handler, Resolve(h) PROVE Reads'
  BY <1>0, <1>17, Answering, Going DEF Resolve, End, pushVars, lockVars, Reads, Progress, TypeOK
<1>18. ASSUME NEW h \in Handler, Serve(h) PROVE Reads'
  BY <1>0, <1>18, Answering, Going DEF Serve, End, pushVars, lockVars, readVars, Reads, Progress, TypeOK
<1>19. ASSUME NEW h \in Handler, StartPin(h) PROVE Reads'
  BY <1>0, <1>19, Answering, Going DEF StartPin, pushVars, lockVars, Reads, Progress, TypeOK
<1>20. ASSUME NEW h \in Handler, PinNext(h) PROVE Reads'
  BY <1>0, <1>20, Answering, Going DEF PinNext, End, pushVars, lockVars, Reads, Progress, TypeOK
<1>21. ASSUME NEW h \in Handler, PinDone(h) PROVE Reads'
  BY <1>0, <1>21, Answering, Going DEF PinDone, End, pushVars, lockVars, readVars, Reads, Progress, TypeOK
<1>22. ASSUME NEW h \in Handler, List(h) PROVE Reads'
  BY <1>0, <1>22, Answering, Going DEF List, End, pushVars, lockVars, readVars, Reads, Progress, TypeOK
<1>23. ASSUME NEW h \in Handler, Misses(h) PROVE Reads'
  BY <1>0, <1>23, Answering, Going DEF Misses, pushVars, lockVars, readVars, Reads, Progress, TypeOK
<1> QED
  BY <1>1, <1>2, <1>3, <1>4, <1>5, <1>6, <1>7, <1>8, <1>9, <1>10, <1>11,
     <1>12, <1>13, <1>14, <1>15, <1>16, <1>17, <1>18, <1>19, <1>20, <1>21,
     <1>22, <1>23 DEF Next, Begin, Step, OwnStep, PeerStep

\* Answers agree with effects.
LEMMA AnswersTrueStep ==
  ASSUME IInv, TypeOK', [Next]_vars
  PROVE  AnswersTrue'
<1> USE DEF Reading, Serving
<1>0. TypeOK /\ AnswersTrue /\ Progress /\ Reads
  BY DEF IInv
<1>1. CASE Crash
  BY <1>0, <1>1 DEF Crash, readVars, AnswersTrue, Progress, TypeOK
<1>2. CASE Collect
  BY <1>0, <1>2 DEF Collect, pushVars, lockVars, readVars, AnswersTrue, Progress, TypeOK
<1>3. CASE Done \/ UNCHANGED vars
  BY <1>0, <1>3 DEF Done, vars, pushVars, lockVars, readVars, AnswersTrue, Progress, TypeOK
<1>4. ASSUME NEW h \in Handler, Start(h) PROVE AnswersTrue'
  BY <1>0, <1>4, Answering, Going DEF Start, pushVars, lockVars, readVars, AnswersTrue, Progress, TypeOK
<1>5. ASSUME NEW h \in Handler, EarlyCheck(h) PROVE AnswersTrue'
  BY <1>0, <1>5, Answering, Going DEF EarlyCheck, End, pushVars, lockVars, readVars, AnswersTrue, Progress, TypeOK
<1>6. ASSUME NEW h \in Handler, Transfer(h) PROVE AnswersTrue'
  BY <1>0, <1>6, Answering, Going DEF Transfer, End, pushVars, lockVars, readVars, AnswersTrue, Progress, TypeOK
<1>7. ASSUME NEW h \in Handler, LookupLock(h) PROVE AnswersTrue'
  BY <1>0, <1>7, Answering, Going DEF LookupLock, pushVars, readVars, AnswersTrue, Progress, TypeOK
<1>8. ASSUME NEW h \in Handler, Acquire(h) PROVE AnswersTrue'
  BY <1>0, <1>8, Answering, Going DEF Acquire, pushVars, readVars, AnswersTrue, Progress, TypeOK
<1>9. ASSUME NEW h \in Handler, Recheck(h) PROVE AnswersTrue'
  BY <1>0, <1>9, Answering, Going DEF Recheck, pushVars, lockVars, readVars, AnswersTrue, Progress, TypeOK
<1>10. ASSUME NEW h \in Handler, Prepare(h) PROVE AnswersTrue'
  BY <1>0, <1>10, Answering, Going DEF Prepare, lockVars, readVars, AnswersTrue, Progress, TypeOK
<1>11. ASSUME NEW h \in Handler, PutOk(h) PROVE AnswersTrue'
  BY <1>0, <1>11, Answering, Going DEF PutOk, lockVars, readVars, AnswersTrue, Progress, TypeOK
<1>12. ASSUME NEW h \in Handler, PutFails(h) PROVE AnswersTrue'
  BY <1>0, <1>12, Answering, Going DEF PutFails, lockVars, readVars, AnswersTrue, Progress, TypeOK
<1>13. ASSUME NEW h \in Handler, CommitGuard(h) PROVE AnswersTrue'
  BY <1>0, <1>13, Answering, Going DEF CommitGuard, lockVars, readVars, AnswersTrue, Progress, TypeOK
<1>14. ASSUME NEW h \in Handler, Access(h) PROVE AnswersTrue'
  BY <1>0, <1>14, Answering, Going DEF Access, pushVars, lockVars, readVars, AnswersTrue, Progress, TypeOK
<1>15. ASSUME NEW h \in Handler, Reply(h) PROVE AnswersTrue'
  BY <1>0, <1>15, Answering, Going DEF Reply, pushVars, lockVars, readVars, AnswersTrue, Progress, TypeOK
<1>16. ASSUME NEW h \in Handler, Unlock(h) PROVE AnswersTrue'
  BY <1>0, <1>16, Answering, Going DEF Unlock, pushVars, readVars, AnswersTrue, Progress, TypeOK
<1>17. ASSUME NEW h \in Handler, Resolve(h) PROVE AnswersTrue'
  BY <1>0, <1>17, Answering, Going DEF Resolve, End, pushVars, lockVars, AnswersTrue, Progress, TypeOK
<1>18. ASSUME NEW h \in Handler, Serve(h) PROVE AnswersTrue'
  <2>1. req[h].op # "push" /\ UNCHANGED <<req, took>>
    BY <1>0, <1>18 DEF Serve, Reads, pushVars
  <2>2. \A g \in Handler \ {h} : resp'[g] = resp[g]
    BY <1>0, <1>18, Answering DEF Serve, End
  <2> QED
    BY <1>0, <2>1, <2>2 DEF AnswersTrue
<1>19. ASSUME NEW h \in Handler, StartPin(h) PROVE AnswersTrue'
  BY <1>0, <1>19, Answering, Going DEF StartPin, pushVars, lockVars, AnswersTrue, Progress, TypeOK
<1>20. ASSUME NEW h \in Handler, PinNext(h) PROVE AnswersTrue'
  BY <1>0, <1>20, Answering, Going DEF PinNext, End, pushVars, lockVars, AnswersTrue, Progress, TypeOK
<1>21. ASSUME NEW h \in Handler, PinDone(h) PROVE AnswersTrue'
  <2>1. req[h].op # "push" /\ UNCHANGED <<req, took>>
    BY <1>0, <1>21 DEF PinDone, Reads, pushVars
  <2>2. \A g \in Handler \ {h} : resp'[g] = resp[g]
    BY <1>0, <1>21, Answering DEF PinDone, End
  <2> QED
    BY <1>0, <2>1, <2>2 DEF AnswersTrue
<1>22. ASSUME NEW h \in Handler, List(h) PROVE AnswersTrue'
  BY <1>0, <1>22, Answering, Going DEF List, End, pushVars, lockVars, readVars, AnswersTrue, Progress, TypeOK
<1>23. ASSUME NEW h \in Handler, Misses(h) PROVE AnswersTrue'
  BY <1>0, <1>23, Answering, Going DEF Misses, pushVars, lockVars, readVars, AnswersTrue, Progress, TypeOK
<1> QED
  BY <1>1, <1>2, <1>3, <1>4, <1>5, <1>6, <1>7, <1>8, <1>9, <1>10, <1>11,
     <1>12, <1>13, <1>14, <1>15, <1>16, <1>17, <1>18, <1>19, <1>20, <1>21,
     <1>22, <1>23 DEF Next, Begin, Step, OwnStep, PeerStep

\* The barrier is up around a Put and lowered once.
LEMMA GuardBracketsStep ==
  ASSUME IInv, TypeOK', [Next]_vars
  PROVE  GuardBrackets'
<1> USE ServiceAssumption DEF IInv, TypeOK, GuardBrackets, Progress, Goto, Answer
<1>1. CASE Crash
  BY <1>1 DEF Crash, readVars
<1>2. CASE Collect
  BY <1>2 DEF Collect, pushVars, lockVars, readVars
<1>3. CASE Done \/ UNCHANGED vars
  BY <1>3 DEF Done, vars, pushVars, lockVars, readVars
<1>4. ASSUME NEW h \in Handler, Start(h) PROVE GuardBrackets'
  BY <1>4 DEF Start, pushVars, lockVars, readVars
<1>5. ASSUME NEW h \in Handler, EarlyCheck(h) PROVE GuardBrackets'
  BY <1>5 DEF EarlyCheck, End, pushVars, lockVars, readVars
<1>6. ASSUME NEW h \in Handler, Transfer(h) PROVE GuardBrackets'
  BY <1>6 DEF Transfer, End, pushVars, lockVars, readVars
<1>7. ASSUME NEW h \in Handler, LookupLock(h) PROVE GuardBrackets'
  BY <1>7 DEF LookupLock, pushVars, readVars
<1>8. ASSUME NEW h \in Handler, Acquire(h) PROVE GuardBrackets'
  BY <1>8 DEF Acquire, pushVars, readVars
<1>9. ASSUME NEW h \in Handler, Recheck(h) PROVE GuardBrackets'
  BY <1>9 DEF Recheck, pushVars, lockVars, readVars
<1>10. ASSUME NEW h \in Handler, Prepare(h) PROVE GuardBrackets'
  BY <1>10 DEF Prepare, lockVars, readVars
<1>11. ASSUME NEW h \in Handler, PutOk(h) PROVE GuardBrackets'
  BY <1>11 DEF PutOk, lockVars, readVars
<1>12. ASSUME NEW h \in Handler, PutFails(h) PROVE GuardBrackets'
  <2>1. UNCHANGED <<req, took>> /\ pc[h] = "put" /\ ~took[h]
    BY <1>12 DEF PutFails
  <2>2. pc'[h] = "unlock" /\ \A g \in Handler \ {h} : pc'[g] = pc[g] /\ guard'[g] = guard[g]
    BY <1>12 DEF PutFails
  <2>3. guard'[h] = IF Guarded THEN "aborted" ELSE guard[h]
    BY <1>12 DEF PutFails
  <2> QED
    BY <2>1, <2>2, <2>3
<1>13. ASSUME NEW h \in Handler, CommitGuard(h) PROVE GuardBrackets'
  BY <1>13 DEF CommitGuard, lockVars, readVars
<1>14. ASSUME NEW h \in Handler, Access(h) PROVE GuardBrackets'
  BY <1>14 DEF Access, pushVars, lockVars, readVars
<1>15. ASSUME NEW h \in Handler, Reply(h) PROVE GuardBrackets'
  BY <1>15 DEF Reply, pushVars, lockVars, readVars
<1>16. ASSUME NEW h \in Handler, Unlock(h) PROVE GuardBrackets'
  BY <1>16 DEF Unlock, pushVars, readVars
<1>17. ASSUME NEW h \in Handler, Resolve(h) PROVE GuardBrackets'
  BY <1>17 DEF Resolve, End, pushVars, lockVars
<1>18. ASSUME NEW h \in Handler, Serve(h) PROVE GuardBrackets'
  BY <1>18 DEF Serve, End, pushVars, lockVars, readVars
<1>19. ASSUME NEW h \in Handler, StartPin(h) PROVE GuardBrackets'
  BY <1>19 DEF StartPin, pushVars, lockVars
<1>20. ASSUME NEW h \in Handler, PinNext(h) PROVE GuardBrackets'
  BY <1>20 DEF PinNext, End, pushVars, lockVars
<1>21. ASSUME NEW h \in Handler, PinDone(h) PROVE GuardBrackets'
  BY <1>21 DEF PinDone, End, pushVars, lockVars, readVars
<1>22. ASSUME NEW h \in Handler, List(h) PROVE GuardBrackets'
  BY <1>22 DEF List, End, pushVars, lockVars, readVars
<1>23. ASSUME NEW h \in Handler, Misses(h) PROVE GuardBrackets'
  BY <1>23 DEF Misses, pushVars, lockVars, readVars
<1> QED
  BY <1>1, <1>2, <1>3, <1>4, <1>5, <1>6, <1>7, <1>8, <1>9, <1>10, <1>11,
     <1>12, <1>13, <1>14, <1>15, <1>16, <1>17, <1>18, <1>19, <1>20, <1>21,
     <1>22, <1>23 DEF Next, Begin, Step, OwnStep, PeerStep

\* The hooks hear of existing refs, and of all that were asked about.
LEMMA HooksTrueStep ==
  ASSUME IInv, TypeOK', [Next]_vars
  PROVE  HooksTrue'
<1> USE DEF Reading, Serving
<1>0. TypeOK /\ HooksTrue /\ Progress /\ Reads
  BY DEF IInv
<1>1. CASE Crash
  BY <1>0, <1>1 DEF Crash, readVars, HooksTrue, Progress, Reads, TypeOK
<1>2. CASE Collect
  BY <1>0, <1>2 DEF Collect, pushVars, lockVars, readVars, HooksTrue, Progress, Reads, TypeOK
<1>3. CASE Done \/ UNCHANGED vars
  BY <1>0, <1>3 DEF Done, vars, pushVars, lockVars, readVars, HooksTrue, Progress, Reads, TypeOK
<1>4. ASSUME NEW h \in Handler, Start(h) PROVE HooksTrue'
  BY <1>0, <1>4, Answering, Going DEF Start, pushVars, lockVars, readVars, HooksTrue, Progress, Reads, TypeOK
<1>5. ASSUME NEW h \in Handler, EarlyCheck(h) PROVE HooksTrue'
  BY <1>0, <1>5, Answering, Going DEF EarlyCheck, End, pushVars, lockVars, readVars, HooksTrue, Progress, Reads, TypeOK
<1>6. ASSUME NEW h \in Handler, Transfer(h) PROVE HooksTrue'
  BY <1>0, <1>6, Answering, Going DEF Transfer, End, pushVars, lockVars, readVars, HooksTrue, Progress, Reads, TypeOK
<1>7. ASSUME NEW h \in Handler, LookupLock(h) PROVE HooksTrue'
  BY <1>0, <1>7, Answering, Going DEF LookupLock, pushVars, readVars, HooksTrue, Progress, Reads, TypeOK
<1>8. ASSUME NEW h \in Handler, Acquire(h) PROVE HooksTrue'
  BY <1>0, <1>8, Answering, Going DEF Acquire, pushVars, readVars, HooksTrue, Progress, Reads, TypeOK
<1>9. ASSUME NEW h \in Handler, Recheck(h) PROVE HooksTrue'
  BY <1>0, <1>9, Answering, Going DEF Recheck, pushVars, lockVars, readVars, HooksTrue, Progress, Reads, TypeOK
<1>10. ASSUME NEW h \in Handler, Prepare(h) PROVE HooksTrue'
  BY <1>0, <1>10, Answering, Going DEF Prepare, lockVars, readVars, HooksTrue, Progress, Reads, TypeOK
<1>11. ASSUME NEW h \in Handler, PutOk(h) PROVE HooksTrue'
  <2>1. pc[h] = "put" /\ UNCHANGED <<req, resp, got, left, existed, accessed, pinned>>
    BY <1>11 DEF PutOk, readVars
  <2>2. pc'[h] \in {"commit", "access"} /\ \A g \in Handler \ {h} : pc'[g] = pc[g]
    BY <1>0, <1>11, Going DEF PutOk
  <2>3. \A n \in Name : value[n] # NoTree => value'[n] # NoTree
    BY <1>0, <1>11, Publishing
  <2>4. /\ value'[req[h].name] # NoTree /\ took'[h]
        /\ \A g \in Handler \ {h} : took'[g] = took[g]
    BY <1>0, <1>11, Publishing
  <2>5. \A g \in Handler : req[g].name \in Name /\ existed[g] \subseteq Name
    BY <1>0, ServiceAssumption DEF TypeOK
  <2>6. accessed \cup pinned \subseteq Name
    BY <1>0 DEF TypeOK
  <2> QED
    BY <1>0, <2>1, <2>2, <2>3, <2>4, <2>5, <2>6 DEF HooksTrue, Progress
<1>12. ASSUME NEW h \in Handler, PutFails(h) PROVE HooksTrue'
  BY <1>0, <1>12, Answering, Going DEF PutFails, lockVars, readVars, HooksTrue, Progress, Reads, TypeOK
<1>13. ASSUME NEW h \in Handler, CommitGuard(h) PROVE HooksTrue'
  BY <1>0, <1>13, Answering, Going DEF CommitGuard, lockVars, readVars, HooksTrue, Progress, Reads, TypeOK
<1>14. ASSUME NEW h \in Handler, Access(h) PROVE HooksTrue'
  BY <1>0, <1>14, Answering, Going DEF Access, pushVars, lockVars, readVars, HooksTrue, Progress, Reads, TypeOK
<1>15. ASSUME NEW h \in Handler, Reply(h) PROVE HooksTrue'
  BY <1>0, <1>15, Answering, Going DEF Reply, pushVars, lockVars, readVars, HooksTrue, Progress, Reads, TypeOK
<1>16. ASSUME NEW h \in Handler, Unlock(h) PROVE HooksTrue'
  BY <1>0, <1>16, Answering, Going DEF Unlock, pushVars, readVars, HooksTrue, Progress, Reads, TypeOK
<1>17. ASSUME NEW h \in Handler, Resolve(h) PROVE HooksTrue'
  BY <1>0, <1>17, Answering, Going DEF Resolve, End, pushVars, lockVars, HooksTrue, Progress, Reads, TypeOK
<1>18. ASSUME NEW h \in Handler, Serve(h) PROVE HooksTrue'
  BY <1>0, <1>18, Answering, Going DEF Serve, End, pushVars, lockVars, readVars, HooksTrue, Progress, Reads, TypeOK
<1>19. ASSUME NEW h \in Handler, StartPin(h) PROVE HooksTrue'
  BY <1>0, <1>19, Answering, Going DEF StartPin, pushVars, lockVars, HooksTrue, Progress, Reads, TypeOK
<1>20. ASSUME NEW h \in Handler, PinNext(h) PROVE HooksTrue'
  BY <1>0, <1>20, Answering, Going DEF PinNext, End, pushVars, lockVars, HooksTrue, Progress, Reads, TypeOK
<1>21. ASSUME NEW h \in Handler, PinDone(h) PROVE HooksTrue'
  BY <1>0, <1>21, Answering, Going DEF PinDone, End, pushVars, lockVars, readVars, HooksTrue, Progress, Reads, TypeOK
<1>22. ASSUME NEW h \in Handler, List(h) PROVE HooksTrue'
  BY <1>0, <1>22, Answering, Going DEF List, End, pushVars, lockVars, readVars, HooksTrue, Progress, Reads, TypeOK
<1>23. ASSUME NEW h \in Handler, Misses(h) PROVE HooksTrue'
  BY <1>0, <1>23, Answering, Going DEF Misses, pushVars, lockVars, readVars, HooksTrue, Progress, Reads, TypeOK
<1> QED
  BY <1>1, <1>2, <1>3, <1>4, <1>5, <1>6, <1>7, <1>8, <1>9, <1>10, <1>11,
     <1>12, <1>13, <1>14, <1>15, <1>16, <1>17, <1>18, <1>19, <1>20, <1>21,
     <1>22, <1>23 DEF Next, Begin, Step, OwnStep, PeerStep

\* The server starts with stored trees only, and no handler at work.
LEMMA InitIInv == Init => IInv
<1> SUFFICES ASSUME Init PROVE IInv
  OBVIOUS
<1> USE ServiceAssumption DEF Init, Held, Waiting, Reading, Serving, Steps
<1>1. TypeOK
  BY DEF TypeOK, Answers, Barrier
<1>2. OneMutex /\ HolderOwns /\ MutualExclusion /\ CheckStands /\ Transferred
  BY DEF OneMutex, HolderOwns, MutualExclusion, CheckStands, Transferred
<1>3. RefsComplete /\ Progress /\ AnswersTrue /\ GuardBrackets
  BY DEF RefsComplete, Progress, AnswersTrue, GuardBrackets
<1>4. Reads /\ HooksTrue
  BY DEF Reads, HooksTrue
<1> QED
  BY <1>1, <1>2, <1>3, <1>4 DEF IInv

\* Every step keeps the invariant.
LEMMA IInvStep ==
  ASSUME IInv, [Next]_vars
  PROVE  IInv'
<1>1. TypeOK'
  BY TypeStep DEF IInv
<1>2. OneMutex' /\ HolderOwns'
  BY <1>1, OneMutexStep, HolderOwnsStep
<1>3. MutualExclusion'
  <2>1. ASSUME NEW g \in Handler, NEW h \in Handler, g # h, pc'[g] \in Held, pc'[h] \in Held
        PROVE  req'[g].name # req'[h].name
    <3>1. mutex'[g] = lockOf'[req'[g].name] /\ mutex'[h] = lockOf'[req'[h].name]
      BY <1>2, <2>1 DEF OneMutex
    <3>2. owner'[mutex'[g]] = g /\ owner'[mutex'[h]] = h
      BY <1>2, <2>1 DEF HolderOwns
    <3> QED
      BY <2>1, <3>1, <3>2
  <2> QED
    BY <2>1 DEF MutualExclusion, Held
<1>4. CheckStands' /\ Transferred' /\ RefsComplete'
  BY <1>1, CheckStandsStep, TransferredStep, RefsCompleteStep
<1>5. Progress' /\ Reads' /\ AnswersTrue' /\ GuardBrackets' /\ HooksTrue'
  BY <1>1, ProgressStep, ReadsStep, AnswersTrueStep, GuardBracketsStep, HooksTrueStep
<1> QED
  BY <1>1, <1>2, <1>3, <1>4, <1>5 DEF IInv

-----------------------------------------------------------------------------
(* The theorems                                                              *)

\* The invariant is inductive.
THEOREM Inductive == Spec => []IInv
  BY InitIInv, IInvStep, PTL DEF Spec

\* Two pushes of one ref are never both between the lock and its release, in
\* spite of a lock map filled on demand, crashes and forced pushes.
THEOREM Exclusion == Spec => []MutualExclusion
<1>1. IInv => MutualExclusion
  BY DEF IInv
<1> QED
  BY <1>1, Inductive, PTL

\* No ref ever names a tree the object store does not hold completely, not even
\* with a collector at work.
THEOREM CommittedComplete == Spec => []RefsComplete
<1>1. IInv => RefsComplete
  BY DEF IInv
<1> QED
  BY <1>1, Inductive, PTL

\* What pushing clients are told agrees with what happened to the ref.
THEOREM Truthful == Spec => []AnswersTrue
<1>1. IInv => AnswersTrue
  BY DEF IInv
<1> QED
  BY <1>1, Inductive, PTL

\* The collector's barrier brackets every publication.
THEOREM Guards == Spec => []GuardBrackets
<1>1. IInv => GuardBrackets
  BY DEF IInv
<1> QED
  BY <1>1, Inductive, PTL

\* The hooks hear of existing refs only, and a pin answered with TOK has pinned
\* all that existed when it was read.
THEOREM Hooks == Spec => []HooksTrue
<1>1. IInv => HooksTrue
  BY DEF IInv
<1> QED
  BY <1>1, Inductive, PTL

\* A pull misses an object only while its ref names another tree than the one it
\* resolved: a ref keeps its tree from the collector.
THEOREM Stable == Spec => PullStable
<1> DEFINE A == \A h \in Handler :
                  (pc[h] = "serve" /\ pc'[h] = "missed") => value[req[h].name] # got[h]
<1>1. ASSUME IInv, [Next]_vars PROVE A
  <2> SUFFICES ASSUME NEW h \in Handler, pc[h] = "serve", pc'[h] = "missed"
               PROVE  value[req[h].name] # got[h]
    OBVIOUS
  <2>1. got[h] # NoTree /\ req[h].name \in Name
    BY <1>1, ServiceAssumption DEF IInv, Reads, Serving, TypeOK
  <2>2. TypeOK /\ RefsComplete
    BY <1>1 DEF IInv
  <2>4. CASE Crash
    BY <2>2, <2>4 DEF Crash, TypeOK
  <2>5. CASE Collect \/ Done \/ UNCHANGED vars
    BY <2>5 DEF Collect, Done, vars
  <2>6. ASSUME NEW g \in Handler, Begin(g) \/ Step(g) PROVE value[req[h].name] # got[h]
    <3>1. g = h
      BY <2>2, <2>6, OthersStay
    <3>2. Misses(h)
      BY <2>2, <2>6, <3>1, Going
      DEF Begin, Step, OwnStep, PeerStep, Start, EarlyCheck, Transfer, LookupLock, Acquire, Recheck,
          Prepare, PutOk, PutFails, CommitGuard, Access, Reply, Unlock, Resolve, Serve, End, StartPin,
          PinNext, PinDone, List
    <3> QED
      BY <2>1, <2>2, <3>2 DEF Misses, RefsComplete
  <2> QED
    BY <1>1, <2>4, <2>5, <2>6 DEF Next
<1> QED
  BY <1>1, Inductive, PTL DEF Spec, PullStable

-----------------------------------------------------------------------------
(* Linearizability                                                           *)

\* The register starts with any values and no outcomes.
LEMMA InitRefines == Init => Register!Init
<1> SUFFICES ASSUME Init PROVE Register!Init
  OBVIOUS
<1>1. \A h \in Handler : OutcomeOf(h) = "none"
  BY DEF Init, OutcomeOf, PushOutcome, PullOutcome
<1>2. value \in [Name -> Tree \cup {NoTree}] /\ req \in [Handler -> Request]
  BY ServiceAssumption DEF Init
<1> QED
  BY <1>1, <1>2 DEF Init, Register!Init, Outcome

\* What the outcome of a request depends on.
LEMMA SameOutcome ==
  ASSUME NEW g \in Handler, req' = req, took'[g] = took[g], resp'[g] = resp[g],
         got'[g] = got[g], pc'[g] = "idle" <=> pc[g] = "idle"
  PROVE  OutcomeOf(g)' = OutcomeOf(g)
BY DEF OutcomeOf, PushOutcome, PullOutcome

\* A step that changes neither a ref nor an outcome is invisible.
LEMMA Invisible ==
  ASSUME value' = value, req' = req, got' = got,
         \A g \in Handler : OutcomeOf(g)' = OutcomeOf(g)
  PROVE  UNCHANGED Register!vars
<1>1. /\ Outcome = [g \in Handler |-> OutcomeOf(g)]
      /\ Outcome' = [g \in Handler |-> OutcomeOf(g)']
  BY DEF Outcome
<1>2. Outcome' = Outcome
  BY <1>1
<1> QED
  BY <1>2 DEF Register!vars

\* A step of one handler leaves the outcomes of the others alone.
LEMMA OutcomeChange ==
  ASSUME IInv, NEW h \in Handler, Begin(h) \/ Step(h), NEW o, OutcomeOf(h)' = o
  PROVE  Outcome[h] = OutcomeOf(h) /\ Outcome' = [Outcome EXCEPT ![h] = o]
<1>1. /\ Outcome = [g \in Handler |-> OutcomeOf(g)]
      /\ Outcome' = [g \in Handler |-> OutcomeOf(g)']
  BY DEF Outcome
<1>2. ASSUME NEW g \in Handler \ {h} PROVE OutcomeOf(g)' = OutcomeOf(g)
  <2>1. TypeOK
    BY DEF IInv
  <2> QED
    BY <2>1, OthersStay, SameOutcome
<1> QED
  BY <1>1, <1>2

\* The steps of a handler that a client can tell apart: the call, the failing
\* check, the Put, the error and the read of a ref.
LEMMA HandlerRefines ==
  ASSUME IInv, NEW h \in Handler, Begin(h) \/ Step(h)
  PROVE  [Register!Next]_(Register!vars)
<1> USE DEF Reading, Serving
<1>0. TypeOK /\ Progress /\ Reads /\ CheckStands
  BY DEF IInv
<1> DEFINE Quiet == /\ value' = value /\ req' = req /\ got' = got
                    /\ OutcomeOf(h)' = OutcomeOf(h)
           Fails == /\ value' = value /\ req' = req /\ got' = got
                    /\ OutcomeOf(h) = "pending" /\ OutcomeOf(h)' = "failed"
<1>a. ASSUME Quiet PROVE UNCHANGED Register!vars
  <2>1. ASSUME NEW g \in Handler PROVE OutcomeOf(g)' = OutcomeOf(g)
    BY <1>0, <1>a, OthersStay, SameOutcome
  <2> QED
    BY <1>a, <2>1, Invisible
<1>b. ASSUME Fails PROVE Register!Next
  <2>1. Outcome[h] = "pending" /\ Outcome' = [Outcome EXCEPT ![h] = "failed"]
    BY <1>b, OutcomeChange
  <2>2. Outcome' = [g \in Handler |-> IF g \in {h} THEN "failed" ELSE Outcome[g]]
    BY <2>1 DEF Outcome
  <2>3. {h} \in SUBSET Handler /\ \A g \in {h} : Outcome[g] = "pending"
    BY <2>1
  <2>4. UNCHANGED <<value, req, got>>
    BY <1>b
  <2> HIDE DEF Outcome
  <2>5. Register!Fail
    BY <2>2, <2>3, <2>4 DEF Register!Fail
  <2> QED
    BY <2>5 DEF Register!Next
<1>1. CASE Start(h)
  <2>1. req[h].op = "push" /\ UNCHANGED <<value, req, got>>
    BY <1>1 DEF Start, pushVars, readVars
  <2>2. OutcomeOf(h) = "none" /\ OutcomeOf(h)' = "pending"
    <3>1. ~took[h] /\ resp[h] = "none" /\ took' = took /\ resp' = resp /\ pc[h] = "idle"
      BY <1>0, <1>1 DEF Start, Progress, pushVars
    <3>2. pc'[h] # "idle"
      BY <1>0, <1>1, Going DEF Start
    <3> QED
      BY <2>1, <3>1, <3>2 DEF OutcomeOf, PushOutcome
  <2>3. Outcome[h] = "none" /\ Outcome' = [Outcome EXCEPT ![h] = "pending"]
    BY <2>2, OutcomeChange
  <2> QED
    BY <2>1, <2>3 DEF Register!Next, Register!Call
<1>2. CASE EarlyCheck(h) \/ Recheck(h)
  <2>1. /\ req[h].op = "push" /\ UNCHANGED <<value, req, got, took>>
        /\ pc[h] # "idle" /\ resp[h] = "none" /\ ~took[h]
    BY <1>0, <1>2 DEF EarlyCheck, Recheck, Progress, pushVars, readVars
  <2>2. /\ pc'[h] # "idle"
        /\ \/ resp' = resp
           \/ resp'[h] = "mismatch" /\ ~CasHolds(h)
           \/ resp'[h] = "error"
    BY <1>0, <1>2, Answering, Going DEF EarlyCheck, Recheck, End
  <2>3. CASE resp' = resp
    <3>1. OutcomeOf(h)' = OutcomeOf(h)
      BY <2>1, <2>2, <2>3, SameOutcome
    <3> QED
      BY <1>a, <2>1, <3>1
  <2>4. CASE resp'[h] = "mismatch" /\ ~CasHolds(h)
    <3>1. OutcomeOf(h) = "pending" /\ OutcomeOf(h)' = "rejected"
      BY <2>1, <2>4 DEF OutcomeOf, PushOutcome
    <3>2. Outcome[h] = "pending" /\ Outcome' = [Outcome EXCEPT ![h] = "rejected"]
      BY <3>1, OutcomeChange
    <3> QED
      BY <2>1, <2>4, <3>2 DEF CasHolds, Register!Next, Register!Reject
  <2>5. CASE resp'[h] = "error"
    <3>1. OutcomeOf(h) = "pending" /\ OutcomeOf(h)' = "failed"
      BY <2>1, <2>5 DEF OutcomeOf, PushOutcome
    <3> QED
      BY <1>b, <2>1, <3>1
  <2> QED
    BY <2>2, <2>3, <2>4, <2>5
<1>3. CASE Transfer(h) \/ Prepare(h) \/ PutFails(h)
  <2>1. /\ req[h].op = "push" /\ UNCHANGED <<value, req, got, took>>
        /\ pc[h] # "idle" /\ resp[h] = "none" /\ ~took[h]
    BY <1>0, <1>3 DEF Transfer, Prepare, PutFails, Progress, pushVars, readVars
  <2>2. pc'[h] # "idle" /\ (resp' = resp \/ resp'[h] = "error")
    BY <1>0, <1>3, Answering, Going DEF Transfer, Prepare, PutFails, End
  <2>3. CASE resp' = resp
    <3>1. OutcomeOf(h)' = OutcomeOf(h)
      BY <2>1, <2>2, <2>3, SameOutcome
    <3> QED
      BY <1>a, <2>1, <3>1
  <2>4. CASE resp'[h] = "error"
    <3>1. OutcomeOf(h) = "pending" /\ OutcomeOf(h)' = "failed"
      BY <2>1, <2>4 DEF OutcomeOf, PushOutcome
    <3> QED
      BY <1>b, <2>1, <3>1
  <2> QED
    BY <2>2, <2>3, <2>4
<1>4. CASE LookupLock(h) \/ Acquire(h) \/ CommitGuard(h) \/ Access(h) \/ Unlock(h) \/ Misses(h)
  <2>1. pc[h] # "idle" /\ UNCHANGED <<value, req, got, took, resp>>
    BY <1>4 DEF LookupLock, Acquire, CommitGuard, Access, Unlock, Misses, pushVars, readVars
  <2>2. pc'[h] # "idle"
    BY <1>0, <1>4, Going DEF LookupLock, Acquire, CommitGuard, Access, Unlock, Misses
  <2>3. OutcomeOf(h)' = OutcomeOf(h)
    BY <2>1, <2>2, SameOutcome
  <2> QED
    BY <1>a, <2>1, <2>3
<1>5. CASE Reply(h)
  <2>1. req[h].op = "push" /\ took[h] /\ UNCHANGED <<value, req, got, took>>
    BY <1>0, <1>5 DEF Reply, Progress, pushVars, readVars
  <2>2. OutcomeOf(h)' = OutcomeOf(h)
    BY <2>1 DEF OutcomeOf, PushOutcome
  <2> QED
    BY <1>a, <2>1, <2>2
<1>6. CASE PutOk(h)
  <2>1. /\ req[h].op = "push" /\ UNCHANGED <<req, got, resp>>
        /\ pc[h] = "put" /\ resp[h] = "none" /\ ~took[h]
    BY <1>0, <1>6 DEF PutOk, Progress, readVars
  <2>2. took'[h]
    BY <1>0, <1>6, Publishing
  <2>3. OutcomeOf(h) = "pending" /\ OutcomeOf(h)' = "applied"
    BY <2>1, <2>2 DEF OutcomeOf, PushOutcome
  <2>4. Outcome[h] = "pending" /\ Outcome' = [Outcome EXCEPT ![h] = "applied"]
    BY <2>3, OutcomeChange
  <2>5. CasHolds(h)
    BY <1>0, <2>1 DEF CheckStands
  <2>6. value' = [value EXCEPT ![req[h].name] = req[h].root]
    BY <1>6 DEF PutOk
  <2> QED
    BY <2>1, <2>4, <2>5, <2>6 DEF CasHolds, Register!Next, Register!Apply
<1>7. CASE Resolve(h)
  <2>1. /\ req[h].op = "pull" /\ UNCHANGED <<value, req>>
        /\ pc[h] = "idle" /\ resp[h] = "none" /\ got[h] = NoTree
    BY <1>0, <1>7 DEF Resolve, Progress, Reads, pushVars
  <2>2. OutcomeOf(h) = "none"
    BY <2>1 DEF OutcomeOf, PullOutcome
  <2>3. CASE /\ got' = [got EXCEPT ![h] = value[req[h].name]]
             /\ value[req[h].name] = NoTree => resp'[h] = "unknown"
    <3>1. got'[h] = value[req[h].name]
      BY <1>0, <2>3 DEF TypeOK
    <3>2. OutcomeOf(h)' = "read"
      BY <2>1, <2>3, <3>1 DEF OutcomeOf, PullOutcome
    <3>3. Outcome[h] = "none" /\ Outcome' = [Outcome EXCEPT ![h] = "read"]
      BY <2>2, <3>2, OutcomeChange
    <3> QED
      BY <2>1, <2>3, <3>3 DEF Register!Next, Register!Read
  <2>4. CASE got' = got /\ resp'[h] = "error"
    <3>1. OutcomeOf(h)' = OutcomeOf(h)
      BY <2>1, <2>4 DEF OutcomeOf, PullOutcome
    <3> QED
      BY <1>a, <2>1, <2>4, <3>1
  <2>5. CASE /\ value[req[h].name] = NoTree
             /\ Answer(h, "unknown") /\ got' = got
    <3>1. got = [got EXCEPT ![h] = value[req[h].name]]
      BY <1>0, <2>1, <2>5 DEF TypeOK
    <3>2. resp'[h] = "unknown"
      BY <1>0, <2>5, Answering
    <3> QED
      BY <2>3, <2>5, <3>1, <3>2
  <2> QED
    BY <1>0, <1>7, <2>3, <2>4, <2>5, Answering DEF Resolve, End
<1>8. CASE Serve(h)
  <2>1. /\ req[h].op = "pull" /\ got[h] # NoTree /\ UNCHANGED <<value, req, got>>
    BY <1>0, <1>8 DEF Serve, Reads, pushVars, readVars
  <2>2. OutcomeOf(h)' = OutcomeOf(h)
    BY <2>1 DEF OutcomeOf, PullOutcome
  <2> QED
    BY <1>a, <2>1, <2>2
<1>9. CASE StartPin(h) \/ PinNext(h) \/ PinDone(h) \/ List(h)
  <2>1. req[h].op \in {"pin", "list"} /\ UNCHANGED <<value, req, got>>
    BY <1>0, <1>9 DEF StartPin, PinNext, PinDone, List, Reads, pushVars, readVars
  <2>2. OutcomeOf(h)' = OutcomeOf(h)
    BY <2>1 DEF OutcomeOf
  <2> QED
    BY <1>a, <2>1, <2>2
<1> HIDE DEF Quiet, Fails
<1> QED
  BY <1>1, <1>2, <1>3, <1>4, <1>5, <1>6, <1>7, <1>8, <1>9 DEF Begin, Step, OwnStep, PeerStep

\* A crash fails every push under way at once, the collector is invisible.
LEMMA StepRefines ==
  ASSUME IInv, [Next]_vars
  PROVE  [Register!Next]_(Register!vars)
<1>0. TypeOK /\ Progress /\ Reads
  BY DEF IInv
<1>1. CASE Crash
  <2> DEFINE hs == {h \in Handler : OutcomeOf(h) = "pending"}
  <2>1. UNCHANGED <<value, req, got, took>>
    BY <1>1 DEF Crash, readVars
  <2>2. ASSUME NEW h \in Handler
        PROVE  OutcomeOf(h)' = IF h \in hs THEN "failed" ELSE OutcomeOf(h)
    <3>1. pc'[h] = "idle" <=> pc[h] = "idle"
      BY <1>0, <1>1 DEF Crash
    <3>2. resp'[h] = IF pc[h] \notin {"idle", "answered"} /\ resp[h] = "none" THEN "lost"
                     ELSE resp[h]
      BY <1>0, <1>1 DEF Crash
    <3>3. CASE req[h].op = "push"
      <4>1. (pc[h] = "answered" => resp[h] # "none") /\ (pc[h] = "idle" => ~took[h])
        BY <1>0 DEF Progress
      <4> QED
        BY <2>1, <3>1, <3>2, <3>3, <4>1 DEF OutcomeOf, PushOutcome
    <3>4. CASE req[h].op # "push"
      BY <2>1, <3>2, <3>4 DEF OutcomeOf, PullOutcome
    <3> QED
      BY <3>3, <3>4
  <2>3. /\ Outcome = [g \in Handler |-> OutcomeOf(g)]
        /\ Outcome' = [g \in Handler |-> OutcomeOf(g)']
    BY DEF Outcome
  <2>4. Outcome' = [h \in Handler |-> IF h \in hs THEN "failed" ELSE Outcome[h]]
    BY <2>2, <2>3
  <2>5. hs \in SUBSET Handler /\ \A h \in hs : Outcome[h] = "pending"
    BY <2>3
  <2> HIDE DEF hs
  <2>6. Register!Fail
    BY <2>1, <2>4, <2>5 DEF Register!Fail
  <2> QED
    BY <2>6 DEF Register!Next
<1>2. CASE Collect \/ Done \/ UNCHANGED vars
  <2>1. UNCHANGED <<value, req, got, took, resp, pc>>
    BY <1>2 DEF Collect, Done, vars, pushVars, readVars
  <2>2. \A g \in Handler : OutcomeOf(g)' = OutcomeOf(g)
    BY <2>1, SameOutcome
  <2> QED
    BY <2>1, <2>2, Invisible
<1>3. ASSUME NEW h \in Handler, Begin(h) \/ Step(h) PROVE [Register!Next]_(Register!vars)
  BY <1>3, HandlerRefines
<1> QED
  BY <1>1, <1>2, <1>3 DEF Next

\* Concurrent pushes and pulls, with crashes and a collector, are atomic
\* compare-and-swaps and reads of a register per ref.
THEOREM Refinement == Spec => Linearizable
<1>1. IInv /\ [Next]_vars => [Register!Next]_(Register!vars)
  BY StepRefines
<1> QED
  BY <1>1, InitRefines, Inductive, PTL DEF Spec, Linearizable, Register!Spec
=============================================================================
