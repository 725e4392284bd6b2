-------------------------- MODULE ClientCommandProofs --------------------------
(* Proofs about ClientCommand, for any candidate addresses and any number of *)
(* extra connections: nothing a command opened is left behind, whichever     *)
(* step failed and however its races end.                                    *)
EXTENDS ClientCommand, FiniteSetTheorems, TLAPS

-----------------------------------------------------------------------------
(* The order of the steps                                                    *)

\* In a program whose steps differ, After is the next one.
LEMMA Following ==
  ASSUME \A i, j \in DOMAIN Program[cmd] : Program[cmd][i] = Program[cmd][j] => i = j,
         NEW k \in DOMAIN Program[cmd]
  PROVE  After(Program[cmd][k]) = Program[cmd][k + 1]
<1>1. (CHOOSE j \in DOMAIN Program[cmd] : Program[cmd][j] = Program[cmd][k]) = k
  OBVIOUS
<1> QED
  BY <1>1 DEF After

\* The steps of a push, one after the other.
LEMMA PushOrder ==
  ASSUME cmd = "push"
  PROVE  /\ After("store") = "resolve" /\ After("resolve") = "bind" /\ After("bind") = "race"
         /\ After("race") = "stream" /\ After("stream") = "bar" /\ After("bar") = "request"
         /\ After("request") = "extras" /\ After("extras") = "transfer" /\ After("transfer") = "join"
         /\ After("join") = "streams" /\ After("streams") = "record" /\ After("record") = "cancel"
         /\ After("cancel") = "wait" /\ After("wait") = "print"
<1> DEFINE P == <<"store", "resolve", "bind", "race", "stream", "bar", "request",
                  "extras", "transfer", "join", "streams", "record", "cancel", "wait",
                  "print">>
<1>1. Program[cmd] = P
  BY DEF Program
<1>2. DOMAIN P = 1..15
  OBVIOUS
<1>3. \A i, j \in 1..15 : P[i] = P[j] => i = j
  OBVIOUS
<1>4. \A k \in 1..15 : After(P[k]) = P[k + 1]
  <2> HIDE DEF P
  <2> QED BY <1>1, <1>2, <1>3, Following
<1> QED
  BY <1>4

\* The steps of a pull.
LEMMA PullOrder ==
  ASSUME cmd = "pull"
  PROVE  /\ After("store") = "bind" /\ After("bind") = "race" /\ After("race") = "stream"
         /\ After("stream") = "request" /\ After("request") = "bar" /\ After("bar") = "extras"
         /\ After("extras") = "transfer" /\ After("transfer") = "join" /\ After("join") = "record"
         /\ After("record") = "cancel" /\ After("cancel") = "wait" /\ After("wait") = "print"
<1> DEFINE P == <<"store", "bind", "race", "stream", "request", "bar", "extras",
                  "transfer", "join", "record", "cancel", "wait", "print">>
<1>1. Program[cmd] = P
  BY DEF Program
<1>2. DOMAIN P = 1..13
  OBVIOUS
<1>3. \A i, j \in 1..13 : P[i] = P[j] => i = j
  OBVIOUS
<1>4. \A k \in 1..13 : After(P[k]) = P[k + 1]
  <2> HIDE DEF P
  <2> QED BY <1>1, <1>2, <1>3, Following
<1> QED
  BY <1>4

\* The steps of refs, which has no store and no bar.
LEMMA RefsOrder ==
  ASSUME cmd = "refs"
  PROVE  /\ After("bind") = "race" /\ After("race") = "stream" /\ After("stream") = "request"
         /\ After("request") = "print"
<1> DEFINE P == <<"bind", "race", "stream", "request", "print">>
<1>1. Program[cmd] = P
  BY DEF Program
<1>2. DOMAIN P = 1..5
  OBVIOUS
<1>3. \A i, j \in 1..5 : P[i] = P[j] => i = j
  OBVIOUS
<1>4. \A k \in 1..5 : After(P[k]) = P[k + 1]
  <2> HIDE DEF P
  <2> QED BY <1>1, <1>2, <1>3, Following
<1> QED
  BY <1>4

\* The steps of an import, which closes its store itself.
LEMMA ImportOrder ==
  ASSUME cmd = "import"
  PROVE  /\ After("bar") = "store" /\ After("store") = "transfer" /\ After("transfer") = "join"
         /\ After("join") = "record" /\ After("record") = "close" /\ After("close") = "cancel"
         /\ After("cancel") = "wait" /\ After("wait") = "print"
<1> DEFINE P == <<"bar", "store", "transfer", "join", "record", "close", "cancel",
                  "wait", "print">>
<1>1. Program[cmd] = P
  BY DEF Program
<1>2. DOMAIN P = 1..9
  OBVIOUS
<1>3. \A i, j \in 1..9 : P[i] = P[j] => i = j
  OBVIOUS
<1>4. \A k \in 1..9 : After(P[k]) = P[k + 1]
  <2> HIDE DEF P
  <2> QED BY <1>1, <1>2, <1>3, Following
<1> QED
  BY <1>4

\* The steps of a restore, which does not connect.
LEMMA RestoreOrder ==
  ASSUME cmd = "restore"
  PROVE  /\ After("store") = "resolve" /\ After("resolve") = "export" /\ After("export") = "extract"
<1> DEFINE P == <<"store", "resolve", "export", "extract">>
<1>1. Program[cmd] = P
  BY DEF Program
<1>2. DOMAIN P = 1..4
  OBVIOUS
<1>3. \A i, j \in 1..4 : P[i] = P[j] => i = j
  OBVIOUS
<1>4. \A k \in 1..4 : After(P[k]) = P[k + 1]
  <2> HIDE DEF P
  <2> QED BY <1>1, <1>2, <1>3, Following
<1> QED
  BY <1>4

-----------------------------------------------------------------------------
(* Where each command may be                                                 *)

\* The set of steps of a push.
LEMMA PushSteps ==
  StepsOf("push") =
    {"store", "resolve", "bind", "race", "stream", "bar", "request", "extras",
     "transfer", "join", "streams", "record", "cancel", "wait", "print"}
<1> DEFINE P == <<"store", "resolve", "bind", "race", "stream", "bar", "request", "extras",
                "transfer", "join", "streams", "record", "cancel", "wait", "print">>
<1>1. Program["push"] = P
  BY DEF Program
<1>2. DOMAIN P = 1..15
  OBVIOUS
<1>3. {P[i] : i \in 1..15} =
        {"store", "resolve", "bind", "race", "stream", "bar", "request", "extras",
         "transfer", "join", "streams", "record", "cancel", "wait", "print"}
  <2>1. ASSUME NEW i \in 1..15
        PROVE  i \in {1, 2, 3, 4, 5, 6, 7, 8, 9, 10, 11, 12, 13, 14, 15}
    OBVIOUS
  <2> QED BY <2>1
<1> QED
  BY <1>1, <1>2, <1>3 DEF StepsOf
\* The set of steps of a pull.
LEMMA PullSteps ==
  StepsOf("pull") =
    {"store", "bind", "race", "stream", "request", "bar", "extras", "transfer",
     "join", "record", "cancel", "wait", "print"}
<1> DEFINE P == <<"store", "bind", "race", "stream", "request", "bar", "extras", "transfer",
                "join", "record", "cancel", "wait", "print">>
<1>1. Program["pull"] = P
  BY DEF Program
<1>2. DOMAIN P = 1..13
  OBVIOUS
<1>3. {P[i] : i \in 1..13} =
        {"store", "bind", "race", "stream", "request", "bar", "extras", "transfer",
         "join", "record", "cancel", "wait", "print"}
  <2>1. ASSUME NEW i \in 1..13
        PROVE  i \in {1, 2, 3, 4, 5, 6, 7, 8, 9, 10, 11, 12, 13}
    OBVIOUS
  <2> QED BY <2>1
<1> QED
  BY <1>1, <1>2, <1>3 DEF StepsOf
\* The set of steps of refs.
LEMMA RefsSteps ==
  StepsOf("refs") =
    {"bind", "race", "stream", "request", "print"}
<1> DEFINE P == <<"bind", "race", "stream", "request", "print">>
<1>1. Program["refs"] = P
  BY DEF Program
<1>2. DOMAIN P = 1..5
  OBVIOUS
<1>3. {P[i] : i \in 1..5} =
        {"bind", "race", "stream", "request", "print"}
  <2>1. ASSUME NEW i \in 1..5
        PROVE  i \in {1, 2, 3, 4, 5}
    OBVIOUS
  <2> QED BY <2>1
<1> QED
  BY <1>1, <1>2, <1>3 DEF StepsOf
\* The set of steps of an import.
LEMMA ImportSteps ==
  StepsOf("import") =
    {"bar", "store", "transfer", "join", "record", "close", "cancel", "wait",
     "print"}
<1> DEFINE P == <<"bar", "store", "transfer", "join", "record", "close", "cancel", "wait",
                "print">>
<1>1. Program["import"] = P
  BY DEF Program
<1>2. DOMAIN P = 1..9
  OBVIOUS
<1>3. {P[i] : i \in 1..9} =
        {"bar", "store", "transfer", "join", "record", "close", "cancel", "wait",
         "print"}
  <2>1. ASSUME NEW i \in 1..9
        PROVE  i \in {1, 2, 3, 4, 5, 6, 7, 8, 9}
    OBVIOUS
  <2> QED BY <2>1
<1> QED
  BY <1>1, <1>2, <1>3 DEF StepsOf
\* The set of steps of a restore.
LEMMA RestoreSteps ==
  StepsOf("restore") =
    {"store", "resolve", "export", "extract"}
<1> DEFINE P == <<"store", "resolve", "export", "extract">>
<1>1. Program["restore"] = P
  BY DEF Program
<1>2. DOMAIN P = 1..4
  OBVIOUS
<1>3. {P[i] : i \in 1..4} =
        {"store", "resolve", "export", "extract"}
  <2>1. ASSUME NEW i \in 1..4
        PROVE  i \in {1, 2, 3, 4}
    OBVIOUS
  <2> QED BY <2>1
<1> QED
  BY <1>1, <1>2, <1>3 DEF StepsOf

\* What a step of a command leads to.
Ordered ==
  /\ pc = "store" =>
       \/ (cmd \in {"push", "restore"} /\ pc' = "resolve")
       \/ (cmd = "pull" /\ pc' = "bind")
       \/ (cmd = "import" /\ pc' = "transfer")
  /\ pc = "resolve" =>
       \/ (cmd = "push" /\ pc' = "bind")
       \/ (cmd = "restore" /\ pc' = "export")
  /\ pc = "bind" => cmd \in {"push", "pull", "refs"} /\ pc' = "race"
  /\ pc = "race" => cmd \in {"push", "pull", "refs"} /\ pc' = "stream"
  /\ pc = "stream" =>
       \/ (cmd = "push" /\ pc' = "bar")
       \/ (cmd \in {"pull", "refs"} /\ pc' = "request")
  /\ pc = "bar" =>
       \/ (cmd = "push" /\ pc' = "request")
       \/ (cmd = "pull" /\ pc' = "extras")
       \/ (cmd = "import" /\ pc' = "store")
  /\ pc = "request" =>
       \/ (cmd = "push" /\ pc' = "extras")
       \/ (cmd = "pull" /\ pc' = "bar")
       \/ (cmd = "refs" /\ pc' = "print")
  /\ pc = "extras" => cmd \in {"push", "pull"} /\ pc' = "transfer"
  /\ pc = "transfer" => cmd \in {"push", "pull", "import"} /\ pc' = "join"
  /\ pc = "join" =>
       \/ (cmd = "push" /\ pc' = "streams")
       \/ (cmd \in {"pull", "import"} /\ pc' = "record")
  /\ pc = "streams" => cmd = "push" /\ pc' = "record"
  /\ pc = "record" =>
       \/ (cmd \in {"push", "pull"} /\ pc' = "cancel")
       \/ (cmd = "import" /\ pc' = "close")
  /\ pc = "cancel" => cmd \in {"push", "pull", "import"} /\ pc' = "wait"
  /\ pc = "wait" => cmd \in {"push", "pull", "import"} /\ pc' = "print"
  /\ pc = "close" => cmd = "import" /\ pc' = "cancel"
  /\ pc = "export" => cmd = "restore" /\ pc' = "extract"

\* What Advance does, whatever the command.
LEMMA Order ==
  ASSUME TypeOK, pc' = After(pc)
  PROVE  Ordered /\ (pc \notin {"extract", "print", "attach", "unwind", "exited"} => pc' \in StepsOf(cmd))
<1>1. pc \in StepsOf(cmd) \cup {"unwind", "exited", "attach"}
  BY DEF TypeOK
<1>2. CASE cmd = "push"
  BY <1>1, <1>2, PushOrder, PushSteps DEF Ordered
<1>3. CASE cmd = "pull"
  BY <1>1, <1>3, PullOrder, PullSteps DEF Ordered
<1>4. CASE cmd = "refs"
  BY <1>1, <1>4, RefsOrder, RefsSteps DEF Ordered
<1>5. CASE cmd = "import"
  BY <1>1, <1>5, ImportOrder, ImportSteps DEF Ordered
<1>6. CASE cmd = "restore"
  BY <1>1, <1>6, RestoreOrder, RestoreSteps DEF Ordered
<1> QED
  BY <1>2, <1>3, <1>4, <1>5, <1>6, CommandAssumption DEF TypeOK

\* Extra connections are a matter of push and pull.
LEMMA Sharding ==
  ASSUME TypeOK
  PROVE  /\ pc \in {"extras", "attach"} => cmd \in {"push", "pull"}
         /\ cmd \in {"push", "pull"} => {"race", "extras"} \subseteq StepsOf(cmd)
<1>1. pc \in StepsOf(cmd) \cup {"unwind", "exited"}
           \cup (IF cmd \in {"push", "pull"} THEN {"attach"} ELSE {})
  BY DEF TypeOK
<1> QED
  BY <1>1, PushSteps, PullSteps, RefsSteps, ImportSteps, RestoreSteps, CommandAssumption DEF TypeOK

-----------------------------------------------------------------------------
(* The deferred calls                                                        *)

\* A call that is put off stays until it is the next to run.
LEMMA Pushed ==
  ASSUME deferred \in Seq(Call), NEW calls \in Seq(Call), Defer(calls), NEW call
  PROVE  /\ deferred' \in Seq(Call)
         /\ On(call) => On(call)'
         /\ \A i \in 1..Len(calls) : deferred'[i] = calls[i]
         /\ \A i \in 1..Len(calls) : calls[i] = call => On(call)'
         /\ \A i \in DOMAIN deferred' :
              deferred'[i] = call => On(call) \/ (i <= Len(calls) /\ calls[i] = call)
<1>1. deferred' = calls \o deferred
  BY DEF Defer
<1>2. /\ deferred' \in Seq(Call) /\ Len(deferred') = Len(calls) + Len(deferred)
      /\ \A i \in 1..Len(calls) : deferred'[i] = calls[i]
      /\ \A i \in 1..Len(deferred) : deferred'[Len(calls) + i] = deferred[i]
  BY <1>1
<1>3. \A i \in Len(calls) + 1..Len(deferred') :
        i - Len(calls) \in 1..Len(deferred) /\ deferred'[i] = deferred[i - Len(calls)]
  BY <1>2
<1>4. DOMAIN deferred = 1..Len(deferred) /\ DOMAIN deferred' = 1..Len(deferred')
  BY <1>2
<1>5. ASSUME On(call)
      PROVE  On(call)'
  <2>1. PICK i \in 1..Len(deferred) : deferred[i] = call
    BY <1>4, <1>5 DEF On
  <2>2. Len(calls) + i \in 1..Len(deferred') /\ deferred'[Len(calls) + i] = call
    BY <1>2, <2>1
  <2> QED BY <1>4, <2>2 DEF On
<1>6. \A i \in 1..Len(calls) : calls[i] = call => On(call)'
  BY <1>2, <1>4 DEF On
<1>7. ASSUME NEW i \in DOMAIN deferred', deferred'[i] = call
      PROVE  On(call) \/ (i <= Len(calls) /\ calls[i] = call)
  <2>1. CASE i <= Len(calls)
    BY <1>2, <1>4, <1>7, <2>1
  <2>2. CASE i > Len(calls)
    <3>1. i - Len(calls) \in DOMAIN deferred /\ deferred[i - Len(calls)] = call
      BY <1>2, <1>3, <1>4, <1>7, <2>2
    <3> QED BY <3>1 DEF On
  <2> QED BY <1>2, <1>4, <2>1, <2>2
<1> QED
  BY <1>2, <1>5, <1>6, <1>7

\* Running the next call leaves the others.
LEMMA Popped ==
  ASSUME deferred \in Seq(Call), NEW c, Deferred(c), NEW call
  PROVE  /\ deferred' \in Seq(Call)
         /\ call # c => (On(call) => On(call)')
         /\ \A i \in DOMAIN deferred' : deferred'[i] = call => i + 1 \in DOMAIN deferred /\ deferred[i + 1] = call
         /\ (\A i \in DOMAIN deferred : deferred[i] = call => i = 1) => ~On(call)'
         /\ pc = "unwind" /\ pc' = pc /\ deferred # <<>> /\ deferred[1] = c /\ 1 \in DOMAIN deferred
<1>1. /\ deferred # <<>> /\ Head(deferred) = c /\ deferred' = Tail(deferred)
      /\ pc = "unwind" /\ pc' = pc
  BY DEF Deferred
<1>2. /\ deferred' \in Seq(Call) /\ Len(deferred') = Len(deferred) - 1
      /\ \A i \in 1..Len(deferred') : deferred'[i] = deferred[i + 1]
      /\ Len(deferred) \in Nat \ {0} /\ deferred[1] = c
  BY <1>1
<1>3. DOMAIN deferred = 1..Len(deferred) /\ DOMAIN deferred' = 1..Len(deferred')
  BY <1>2
<1>4. ASSUME call # c, On(call)
      PROVE  On(call)'
  <2>1. PICK i \in 1..Len(deferred) : deferred[i] = call
    BY <1>3, <1>4 DEF On
  <2>2. i - 1 \in 1..Len(deferred') /\ deferred'[i - 1] = call
    BY <1>2, <1>4, <2>1
  <2> QED BY <1>3, <2>2 DEF On
<1>5. \A i \in DOMAIN deferred' : deferred'[i] = call => i + 1 \in DOMAIN deferred /\ deferred[i + 1] = call
  BY <1>2, <1>3
<1>6. (\A i \in DOMAIN deferred : deferred[i] = call => i = 1) => ~On(call)'
  <2>1. \A i \in DOMAIN deferred' : i + 1 # 1
    BY <1>2, <1>3
  <2> QED BY <1>5, <2>1 DEF On
<1> QED
  BY <1>1, <1>2, <1>3, <1>4, <1>5, <1>6

-----------------------------------------------------------------------------
(* Types                                                                     *)

\* Every step leads to a step of the same command.
Located ==
  /\ cmd \in Command
  /\ pc \in StepsOf(cmd) \cup {"unwind", "exited"}
           \cup (IF cmd \in {"push", "pull"} THEN {"attach"} ELSE {})
  /\ result \in {"none", "ok", "error"}

\* The command stays the same and at a step of its own.
LEMMA LocatedStep ==
  ASSUME TypeOK, Numbered, [Next]_vars
  PROVE  cmd' = cmd /\ Located'
<1>1. CASE OpenStore
  BY <1>1, Order DEF OpenStore, Advance, Defer, TypeOK, Located, Ordered
<1>2. CASE StartBar
  BY <1>2, Order DEF StartBar, Advance, Defer, TypeOK, Located, Ordered
<1>3. CASE Pass
  BY <1>3, Order DEF Pass, Advance, TypeOK, Located, Ordered
<1>4. CASE StartTransfer
  BY <1>4, Order DEF StartTransfer, Advance, TypeOK, Located, Ordered
<1>5. CASE CancelBarNow
  BY <1>5, Order DEF CancelBarNow, Advance, TypeOK, Located, Ordered
<1>6. CASE WaitBarNow
  BY <1>6, Order DEF WaitBarNow, Advance, TypeOK, Located, Ordered
<1>7. CASE StartExport
  BY <1>7, Order DEF StartExport, Advance, TypeOK, Located, Ordered
<1>8. CASE ExtrasOver
  BY <1>8, Order DEF ExtrasOver, Advance, Defer, TypeOK, Located, Ordered
<1>9. CASE Join
  BY <1>9, Order DEF Join, Advance, Return, TypeOK, Located, Ordered
<1>10. CASE CloseStoreNow
  BY <1>10, Order DEF CloseStoreNow, Advance, Return, TypeOK, Located, Ordered
<1>11. CASE SendersReturn
  BY <1>11, Order DEF SendersReturn, Advance, Return, TypeOK, Located, Ordered
<1>12. CASE Abort
  BY <1>12 DEF Abort, Return, TypeOK, Located
<1>13. CASE PrintResult
  BY <1>13 DEF PrintResult, Return, TypeOK, Located
<1>14. CASE Extract
  BY <1>14 DEF Extract, Return, TypeOK, Located
<1>15. CASE Bind
  BY <1>15, Order DEF Bind, Advance, TypeOK, Located, Ordered
<1>16. CASE BindExtra
  BY <1>16, Sharding DEF BindExtra, TypeOK, Located, Numbered, Race, Ep
<1>17. CASE Win
  BY <1>17, Order, Sharding
  DEF Win, Advance, Defer, TypeOK, Located, Ordered, Numbered, Race, Ep
<1>18. CASE GiveUp
  BY <1>18, Sharding DEF GiveUp, Return, TypeOK, Located, Numbered, Race, Ep
<1>19. CASE AttachFails
  BY <1>19, Sharding DEF AttachFails, TypeOK, Located, Numbered, Race, Ep
<1>20. CASE Attach
  BY <1>20, Sharding DEF Attach, TypeOK, Located, Numbered, Race, Ep
<1>21. CASE Exit
  BY <1>21 DEF Exit, TypeOK, Located
<1>22. CASE NoteError \/ FallBack \/ CloseStreams \/ CancelBar \/ WaitBar \/ CloseConn
          \/ CloseStore \/ WorkerEnds \/ BarEnds \/ ExporterReads \/ Exited
          \/ (\E d \in Dial : ConnectReturns(d)) \/ (\E r \in Race : Collect(r))
          \/ UNCHANGED vars
  BY <1>22
  DEF NoteError, FallBack, CloseStreams, CancelBar, WaitBar, CloseConn, CloseStore,
      WorkerEnds, BarEnds, ExporterReads, Exited, ConnectReturns, Collect, vars, netVars,
      localVars, Deferred, TypeOK, Located
<1> QED
  BY <1>1, <1>2, <1>3, <1>4, <1>5, <1>6, <1>7, <1>8, <1>9, <1>10, <1>11, <1>12, <1>13,
     <1>14, <1>15, <1>16, <1>17, <1>18, <1>19, <1>20, <1>21, <1>22
  DEF Next, Main

\* Nothing but the five calls is ever deferred.
LEMMA DeferredStep ==
  ASSUME TypeOK, [Next]_vars
  PROVE  deferred' \in Seq(Call)
<1>1. CASE OpenStore
  <2>1. <<"closeStore">> \in Seq(Call)
    BY DEF Call
  <2>2. CASE Defer(<<"closeStore">>)
    BY <2>1, <2>2, Pushed DEF TypeOK
  <2> QED BY <1>1, <2>2 DEF OpenStore, TypeOK
<1>2. CASE StartBar
  <2>1. <<"cancelBar", "waitBar">> \in Seq(Call)
    BY DEF Call
  <2>2. CASE Defer(<<"cancelBar", "waitBar">>)
    BY <2>1, <2>2, Pushed DEF TypeOK
  <2> QED BY <1>2, <2>2 DEF StartBar, TypeOK
<1>3. CASE Win
  <2>1. <<"closeConn">> \in Seq(Call)
    BY DEF Call
  <2>2. CASE Defer(<<"closeConn">>)
    BY <2>1, <2>2, Pushed DEF TypeOK
  <2> QED BY <1>3, <2>2 DEF Win, TypeOK
<1>4. CASE ExtrasOver
  <2>1. <<"closeStreams">> \in Seq(Call)
    BY DEF Call
  <2>2. CASE Defer(<<"closeStreams">>)
    BY <2>1, <2>2, Pushed DEF TypeOK
  <2> QED BY <1>4, <2>2 DEF ExtrasOver, TypeOK
<1>5. CASE CloseStreams
  BY <1>5, Popped DEF CloseStreams, TypeOK, Call
<1>6. CASE CancelBar
  BY <1>6, Popped DEF CancelBar, TypeOK, Call
<1>7. CASE WaitBar
  BY <1>7, Popped DEF WaitBar, TypeOK, Call
<1>8. CASE CloseConn
  BY <1>8, Popped DEF CloseConn, TypeOK, Call
<1>9. CASE CloseStore
  BY <1>9, Popped DEF CloseStore, TypeOK, Call
<1>10. CASE Pass \/ Abort \/ StartTransfer \/ Join \/ CloseStoreNow \/ CancelBarNow
          \/ WaitBarNow \/ PrintResult \/ StartExport \/ Extract \/ Bind \/ BindExtra
          \/ NoteError \/ FallBack \/ GiveUp \/ AttachFails \/ Attach \/ SendersReturn
          \/ Exit \/ WorkerEnds \/ BarEnds \/ ExporterReads \/ Exited
          \/ (\E d \in Dial : ConnectReturns(d)) \/ (\E r \in Race : Collect(r))
          \/ UNCHANGED vars
  BY <1>10
  DEF Pass, Abort, StartTransfer, Join, CloseStoreNow, CancelBarNow, WaitBarNow,
      PrintResult, StartExport, Extract, Bind, BindExtra, NoteError, FallBack, GiveUp,
      AttachFails, Attach, SendersReturn, Exit, WorkerEnds, BarEnds, ExporterReads, Exited,
      ConnectReturns, Collect, vars, netVars, localVars, TypeOK, Call
<1> QED
  BY <1>1, <1>2, <1>3, <1>4, <1>5, <1>6, <1>7, <1>8, <1>9, <1>10 DEF Next, Main

LocalType ==
  /\ store \in {"none", "open", "closed"} /\ bar \in {"none", "running", "cancelled", "gone"}
  /\ workers \in 0..(Extras + 1) /\ failed \in BOOLEAN
  /\ exporter \in {"none", "reading", "written"} /\ printed \in BOOLEAN

\* There is room for a worker on each attached stream and the first one.
LEMMA FewAttached ==
  ASSUME TypeOK, Numbered
  PROVE  Cardinality(attached) \in 0..Extras
<1>1. attached \subseteq 1..Extras
  BY CommandAssumption DEF TypeOK, Numbered, Ep
<1>2. IsFiniteSet(1..Extras) /\ Cardinality(1..Extras) = Extras
  BY FS_Interval, CommandAssumption
<1>3. IsFiniteSet(attached) /\ Cardinality(attached) <= Extras
  BY <1>1, <1>2, FS_Subset
<1>4. Cardinality(attached) \in Nat
  BY <1>3, FS_CardinalityType
<1> QED
  BY <1>3, <1>4, CommandAssumption

\* Types of what concerns the store, the bar and the workers.
LEMMA LocalStep ==
  ASSUME TypeOK, Numbered, [Next]_vars
  PROVE  LocalType'
<1>1. CASE OpenStore
  BY <1>1 DEF OpenStore, netVars, TypeOK, LocalType
<1>2. CASE StartBar
  BY <1>2 DEF StartBar, netVars, TypeOK, LocalType
<1>3. CASE Abort
  BY <1>3 DEF Abort, netVars, TypeOK, LocalType
<1>4. CASE StartTransfer
  BY <1>4, FewAttached, CommandAssumption DEF StartTransfer, TypeOK, LocalType
<1>5. CASE Join
  BY <1>5 DEF Join, netVars, TypeOK, LocalType
<1>6. CASE CloseStoreNow
  BY <1>6 DEF CloseStoreNow, netVars, TypeOK, LocalType
<1>7. CASE CancelBarNow
  BY <1>7 DEF CancelBarNow, netVars, TypeOK, LocalType
<1>8. CASE PrintResult
  BY <1>8 DEF PrintResult, netVars, TypeOK, LocalType
<1>9. CASE StartExport
  BY <1>9 DEF StartExport, netVars, TypeOK, LocalType
<1>10. CASE CancelBar
  BY <1>10 DEF CancelBar, netVars, TypeOK, LocalType
<1>11. CASE CloseStore
  BY <1>11 DEF CloseStore, netVars, TypeOK, LocalType
<1>12. CASE WorkerEnds
  <2>1. workers' \in 0..(Extras + 1)
    BY <1>12, CommandAssumption DEF WorkerEnds, TypeOK
  <2>2. failed' \in BOOLEAN
    BY <1>12, Zenon DEF WorkerEnds, TypeOK
  <2> QED BY <1>12, <2>1, <2>2 DEF WorkerEnds, TypeOK, LocalType
<1>13. CASE BarEnds
  BY <1>13 DEF BarEnds, netVars, TypeOK, LocalType
<1>14. CASE ExporterReads
  BY <1>14 DEF ExporterReads, netVars, TypeOK, LocalType
<1>15. CASE Pass \/ WaitBarNow \/ Extract \/ Bind \/ BindExtra \/ Win \/ NoteError
          \/ FallBack \/ GiveUp \/ AttachFails \/ Attach \/ ExtrasOver \/ SendersReturn
          \/ CloseStreams \/ WaitBar \/ CloseConn \/ Exit \/ Exited
          \/ (\E d \in Dial : ConnectReturns(d)) \/ (\E r \in Race : Collect(r))
          \/ UNCHANGED vars
  BY <1>15
  DEF Pass, WaitBarNow, Extract, Bind, BindExtra, Win, NoteError, FallBack, GiveUp,
      AttachFails, Attach, ExtrasOver, SendersReturn, CloseStreams, WaitBar, CloseConn,
      Exit, Exited, ConnectReturns, Collect, vars, netVars, localVars, TypeOK, LocalType
<1> QED
  BY <1>1, <1>2, <1>3, <1>4, <1>5, <1>6, <1>7, <1>8, <1>9, <1>10, <1>11, <1>12, <1>13,
     <1>14, <1>15
  DEF Next, Main

NetType ==
  /\ ports \in BOOLEAN /\ extra \in Ep /\ race \in Race
  /\ dial \in [Dial -> {"idle", "dialing", "conn", "err", "won", "lost", "collected"}]
  /\ winner \in [Ep -> Dial \cup {NoDial}] /\ attached \subseteq Ep
  /\ open \subseteq Dial /\ eps \subseteq Ep /\ kept \subseteq Ep

\* Types of what concerns the connections.
LEMMA NetStep ==
  ASSUME TypeOK, Numbered, [Next]_vars
  PROVE  NetType'
<1>1. CASE Bind
  BY <1>1, CommandAssumption DEF Bind, localVars, TypeOK, NetType, Launch, Race, Ep, Dial
<1>2. CASE BindExtra
  BY <1>2, CommandAssumption
  DEF BindExtra, localVars, TypeOK, NetType, Launch, Race, Ep, Dial
<1>3. CASE Win
  <2>1. PICK d \in Dial : dial' = [dial EXCEPT ![d] = "won"] /\ winner' = [winner EXCEPT ![race[1]] = d]
    BY <1>3 DEF Win, Results, Receive
  <2>2. race[1] \in Ep
    BY DEF TypeOK, Race
  <2> QED BY <1>3, <2>1, <2>2 DEF Win, localVars, TypeOK, NetType
<1>4. CASE NoteError
  BY <1>4, CommandAssumption
  DEF NoteError, localVars, TypeOK, NetType, Receive, Results, Race, Ep, Dial
<1>5. CASE FallBack
  BY <1>5, CommandAssumption
  DEF FallBack, localVars, TypeOK, NetType, Launch, Race, Ep, Dial
<1>6. CASE GiveUp
  <2>1. Extras \in Ep
    BY CommandAssumption DEF Ep
  <2>2. extra' \in Ep /\ eps' \subseteq Ep /\ open' \subseteq Dial
    BY <1>6, <2>1 DEF GiveUp, TypeOK
  <2> QED BY <1>6, <2>2 DEF GiveUp, localVars, TypeOK, NetType
<1>7. CASE AttachFails
  BY <1>7, CommandAssumption DEF AttachFails, localVars, TypeOK, NetType, Race, Ep, Dial
<1>8. CASE Attach
  BY <1>8, CommandAssumption DEF Attach, localVars, TypeOK, NetType, Race, Ep, Dial
<1>9. CASE SendersReturn
  BY <1>9, CommandAssumption DEF SendersReturn, localVars, TypeOK, NetType, Race, Ep, Dial
<1>10. CASE CloseStreams
  BY <1>10, CommandAssumption DEF CloseStreams, localVars, TypeOK, NetType, Race, Ep, Dial
<1>11. CASE CloseConn
  BY <1>11, CommandAssumption DEF CloseConn, localVars, TypeOK, NetType, Race, Ep, Dial
<1>12. ASSUME NEW d \in Dial, ConnectReturns(d)
     PROVE  NetType'
  BY <1>12, CommandAssumption DEF ConnectReturns, localVars, TypeOK, NetType, Race, Ep, Dial
<1>13. ASSUME NEW r \in Race, Collect(r)
     PROVE  NetType'
  BY <1>13, CommandAssumption
  DEF Collect, localVars, TypeOK, NetType, Receive, Results, Race, Ep, Dial
<1>14. CASE OpenStore \/ StartBar \/ Pass \/ Abort \/ StartTransfer \/ Join \/ CloseStoreNow
          \/ CancelBarNow \/ WaitBarNow \/ PrintResult \/ StartExport \/ Extract
          \/ ExtrasOver \/ CancelBar \/ WaitBar \/ CloseStore \/ Exit \/ WorkerEnds
          \/ BarEnds \/ ExporterReads \/ Exited \/ UNCHANGED vars
  BY <1>14, CommandAssumption
  DEF OpenStore, StartBar, Pass, Abort, StartTransfer, Join, CloseStoreNow, CancelBarNow,
      WaitBarNow, PrintResult, StartExport, Extract, ExtrasOver, CancelBar, WaitBar,
      CloseStore, Exit, WorkerEnds, BarEnds, ExporterReads, Exited, vars, netVars,
      localVars, TypeOK, NetType, Race, Ep, Dial
<1> QED
  BY <1>1, <1>2, <1>3, <1>4, <1>5, <1>6, <1>7, <1>8, <1>9, <1>10, <1>11, <1>12, <1>13, <1>14
  DEF Next, Main

-----------------------------------------------------------------------------
(* The store, the bar and the deferred calls                                 *)

\* A call that is put off stays until it is its turn.
LEMMA StillOn ==
  ASSUME TypeOK, NEW call \in Call, [Next]_vars
  PROVE  /\ On(call) => On(call)' \/ (pc = "unwind" /\ Head(deferred) = call)
         /\ deferred' = deferred /\ On(call) => On(call)'
<1>1. CASE OpenStore
  <2>1. <<"closeStore">> \in Seq(Call)
    BY DEF Call
  <2>2. CASE Defer(<<"closeStore">>)
    BY <2>1, <2>2, Pushed DEF TypeOK
  <2> QED BY <1>1, <2>2 DEF OpenStore, On
<1>2. CASE StartBar
  <2>1. <<"cancelBar", "waitBar">> \in Seq(Call)
    BY DEF Call
  <2>2. CASE Defer(<<"cancelBar", "waitBar">>)
    BY <2>1, <2>2, Pushed DEF TypeOK
  <2> QED BY <1>2, <2>2 DEF StartBar, On
<1>3. CASE Win
  <2>1. <<"closeConn">> \in Seq(Call)
    BY DEF Call
  <2>2. CASE Defer(<<"closeConn">>)
    BY <2>1, <2>2, Pushed DEF TypeOK
  <2> QED BY <1>3, <2>2 DEF Win, On
<1>4. CASE ExtrasOver
  <2>1. <<"closeStreams">> \in Seq(Call)
    BY DEF Call
  <2>2. CASE Defer(<<"closeStreams">>)
    BY <2>1, <2>2, Pushed DEF TypeOK
  <2> QED BY <1>4, <2>2 DEF ExtrasOver, On
<1>5. CASE CloseStreams
  BY <1>5, Popped DEF CloseStreams, Deferred, TypeOK
<1>6. CASE CancelBar
  BY <1>6, Popped DEF CancelBar, Deferred, TypeOK
<1>7. CASE WaitBar
  BY <1>7, Popped DEF WaitBar, Deferred, TypeOK
<1>8. CASE CloseConn
  BY <1>8, Popped DEF CloseConn, Deferred, TypeOK
<1>9. CASE CloseStore
  BY <1>9, Popped DEF CloseStore, Deferred, TypeOK
<1>10. CASE Pass \/ Abort \/ StartTransfer \/ Join \/ CloseStoreNow \/ CancelBarNow
          \/ WaitBarNow \/ PrintResult \/ StartExport \/ Extract \/ Bind \/ BindExtra
          \/ NoteError \/ FallBack \/ GiveUp \/ AttachFails \/ Attach \/ SendersReturn
          \/ Exit \/ WorkerEnds \/ BarEnds \/ ExporterReads \/ Exited
          \/ (\E d \in Dial : ConnectReturns(d)) \/ (\E r \in Race : Collect(r))
          \/ UNCHANGED vars
  BY <1>10
  DEF Pass, Abort, StartTransfer, Join, CloseStoreNow, CancelBarNow, WaitBarNow,
      PrintResult, StartExport, Extract, Bind, BindExtra, NoteError, FallBack, GiveUp,
      AttachFails, Attach, SendersReturn, Exit, WorkerEnds, BarEnds, ExporterReads, Exited,
      ConnectReturns, Collect, vars, netVars, localVars, On
<1> QED
  BY <1>1, <1>2, <1>3, <1>4, <1>5, <1>6, <1>7, <1>8, <1>9, <1>10 DEF Next, Main

\* A call is on the list once it is deferred.
LEMMA PushedNow ==
  ASSUME TypeOK
  PROVE  /\ Defer(<<"closeStore">>) => On("closeStore")'
         /\ Defer(<<"cancelBar", "waitBar">>) => On("waitBar")'
         /\ Defer(<<"closeConn">>) => On("closeConn")'
         /\ Defer(<<"closeStreams">>) => On("closeStreams")'
<1>1. ASSUME Defer(<<"closeStore">>)
      PROVE  On("closeStore")'
  <2>1. <<"closeStore">> \in Seq(Call) /\ Len(<<"closeStore">>) = 1 /\ <<"closeStore">>[1] = "closeStore"
    BY DEF Call
  <2>2. \A i \in 1..Len(<<"closeStore">>) : <<"closeStore">>[i] = "closeStore" => On("closeStore")'
    BY <1>1, <2>1, Pushed DEF TypeOK
  <2> QED BY <2>1, <2>2
<1>2. ASSUME Defer(<<"cancelBar", "waitBar">>)
      PROVE  On("waitBar")'
  <2>1. <<"cancelBar", "waitBar">> \in Seq(Call) /\ Len(<<"cancelBar", "waitBar">>) = 2 /\ <<"cancelBar", "waitBar">>[2] = "waitBar"
    BY DEF Call
  <2>2. \A i \in 1..Len(<<"cancelBar", "waitBar">>) : <<"cancelBar", "waitBar">>[i] = "waitBar" => On("waitBar")'
    BY <1>2, <2>1, Pushed DEF TypeOK
  <2> QED BY <2>1, <2>2
<1>3. ASSUME Defer(<<"closeConn">>)
      PROVE  On("closeConn")'
  <2>1. <<"closeConn">> \in Seq(Call) /\ Len(<<"closeConn">>) = 1 /\ <<"closeConn">>[1] = "closeConn"
    BY DEF Call
  <2>2. \A i \in 1..Len(<<"closeConn">>) : <<"closeConn">>[i] = "closeConn" => On("closeConn")'
    BY <1>3, <2>1, Pushed DEF TypeOK
  <2> QED BY <2>1, <2>2
<1>4. ASSUME Defer(<<"closeStreams">>)
      PROVE  On("closeStreams")'
  <2>1. <<"closeStreams">> \in Seq(Call) /\ Len(<<"closeStreams">>) = 1 /\ <<"closeStreams">>[1] = "closeStreams"
    BY DEF Call
  <2>2. \A i \in 1..Len(<<"closeStreams">>) : <<"closeStreams">>[i] = "closeStreams" => On("closeStreams")'
    BY <1>4, <2>1, Pushed DEF TypeOK
  <2> QED BY <2>1, <2>2
<1> QED
  BY <1>1, <1>2, <1>3, <1>4

\* The store is closed once, after the goroutines that use it.
LEMMA PlaceStep ==
  ASSUME TypeOK, Numbered, Place, [Next]_vars
  PROVE  Place'
<1>a. /\ On("closeStore") => On("closeStore")' \/ (pc = "unwind" /\ Head(deferred) = "closeStore")
      /\ deferred' = deferred /\ On("closeStore") => On("closeStore")'
  BY StillOn DEF Call
<1>b. cmd' = cmd /\ cmd \in Command
  BY LocatedStep DEF Located
<1>c. pc = "race" => cmd \in {"push", "pull", "refs"}
  BY <1>b, PushSteps, PullSteps, RefsSteps, ImportSteps, RestoreSteps, CommandAssumption
  DEF TypeOK
<1>1. CASE OpenStore
  BY <1>1, <1>a, <1>b, <1>c, Order, PushedNow
  DEF OpenStore, netVars, Advance, Place, Ordered, TypeOK
<1>2. CASE StartBar
  BY <1>2, <1>a, <1>b, <1>c, Order, PushedNow
  DEF StartBar, netVars, Advance, Place, Ordered, TypeOK
<1>3. CASE Pass
  BY <1>3, <1>a, <1>b, <1>c, Order
  DEF Pass, netVars, localVars, Advance, Place, Ordered, TypeOK
<1>4. CASE Abort
  BY <1>4, <1>a, <1>b, <1>c DEF Abort, netVars, Return, Place, TypeOK
<1>5. CASE StartTransfer
  BY <1>5, <1>a, <1>b, <1>c, Order
  DEF StartTransfer, netVars, Advance, Place, Ordered, TypeOK
<1>6. CASE Join
  BY <1>6, <1>a, <1>b, <1>c, Order
  DEF Join, netVars, Advance, Return, Place, Ordered, TypeOK
<1>7. CASE CloseStoreNow
  BY <1>7, <1>a, <1>b, <1>c, Order
  DEF CloseStoreNow, netVars, Advance, Return, Place, Ordered, TypeOK
<1>8. CASE CancelBarNow
  BY <1>8, <1>a, <1>b, <1>c, Order
  DEF CancelBarNow, netVars, Advance, Place, Ordered, TypeOK
<1>9. CASE WaitBarNow
  BY <1>9, <1>a, <1>b, <1>c, Order
  DEF WaitBarNow, netVars, localVars, Advance, Place, Ordered, TypeOK
<1>10. CASE PrintResult
  BY <1>10, <1>a, <1>b, <1>c DEF PrintResult, netVars, Return, Place, TypeOK
<1>11. CASE StartExport
  BY <1>11, <1>a, <1>b, <1>c, Order
  DEF StartExport, netVars, Advance, Place, Ordered, TypeOK
<1>12. CASE Extract
  BY <1>12, <1>a, <1>b, <1>c DEF Extract, netVars, localVars, Return, Place, TypeOK
<1>13. CASE Bind
  BY <1>13, <1>a, <1>b, <1>c, Order DEF Bind, localVars, Advance, Place, Ordered, TypeOK
<1>14. CASE BindExtra
  BY <1>14, <1>a, <1>b, <1>c DEF BindExtra, localVars, Place, TypeOK
<1>15. CASE Win
  BY <1>15, <1>a, <1>b, <1>c, Order, PushedNow
  DEF Win, localVars, Advance, Place, Ordered, TypeOK
<1>16. CASE GiveUp
  BY <1>16, <1>a, <1>b, <1>c DEF GiveUp, localVars, Return, Place, TypeOK
<1>17. CASE AttachFails
  BY <1>17, <1>a, <1>b, <1>c DEF AttachFails, localVars, Place, TypeOK
<1>18. CASE Attach
  BY <1>18, <1>a, <1>b, <1>c DEF Attach, localVars, Place, TypeOK
<1>19. CASE ExtrasOver
  BY <1>19, <1>a, <1>b, <1>c, Order, PushedNow
  DEF ExtrasOver, netVars, localVars, Advance, Place, Ordered, TypeOK
<1>20. CASE SendersReturn
  BY <1>20, <1>a, <1>b, <1>c, Order
  DEF SendersReturn, localVars, Advance, Return, Place, Ordered, TypeOK
<1>21. CASE CloseStreams
  BY <1>21, <1>a, <1>b, <1>c DEF CloseStreams, localVars, Deferred, Place, TypeOK
<1>22. CASE CancelBar
  BY <1>22, <1>a, <1>b, <1>c DEF CancelBar, netVars, Deferred, Place, TypeOK
<1>23. CASE WaitBar
  BY <1>23, <1>a, <1>b, <1>c DEF WaitBar, netVars, localVars, Deferred, Place, TypeOK
<1>24. CASE CloseConn
  BY <1>24, <1>a, <1>b, <1>c DEF CloseConn, localVars, Deferred, Place, TypeOK
<1>25. CASE CloseStore
  BY <1>25, <1>a, <1>b, <1>c DEF CloseStore, netVars, Deferred, Place, TypeOK
<1>26. CASE Exit
  BY <1>26, <1>a, <1>b, <1>c DEF Exit, netVars, localVars, Place, TypeOK
<1>27. CASE WorkerEnds
  BY <1>27, <1>a, <1>b, <1>c DEF WorkerEnds, netVars, Place, TypeOK
<1>28. CASE BarEnds
  BY <1>28, <1>a, <1>b, <1>c DEF BarEnds, netVars, Place, TypeOK
<1>29. CASE ExporterReads
  BY <1>29, <1>a, <1>b, <1>c DEF ExporterReads, netVars, Place, TypeOK
<1>30. CASE NoteError \/ FallBack \/ (\E d \in Dial : ConnectReturns(d))
          \/ (\E r \in Race : Collect(r)) \/ Exited \/ UNCHANGED vars
  BY <1>30, <1>a, <1>b, <1>c
  DEF NoteError, FallBack, ConnectReturns, Collect, Exited, vars, netVars, localVars,
      Place, TypeOK
<1> QED
  BY <1>1, <1>2, <1>3, <1>4, <1>5, <1>6, <1>7, <1>8, <1>9, <1>10, <1>11, <1>12, <1>13,
     <1>14, <1>15, <1>16, <1>17, <1>18, <1>19, <1>20, <1>21, <1>22, <1>23, <1>24, <1>25,
     <1>26, <1>27, <1>28, <1>29, <1>30
  DEF Next, Main

\* The bar is waited for on every path.
LEMMA BarWaitedStep ==
  ASSUME TypeOK, Numbered, BarWaited, [Next]_vars
  PROVE  BarWaited'
<1>a. /\ On("waitBar") => On("waitBar")' \/ (pc = "unwind" /\ Head(deferred) = "waitBar")
      /\ deferred' = deferred /\ On("waitBar") => On("waitBar")'
  BY StillOn DEF Call
<1>b. cmd' = cmd /\ cmd \in Command
  BY LocatedStep DEF Located
<1>c. pc = "race" => cmd \in {"push", "pull", "refs"}
  BY <1>b, PushSteps, PullSteps, RefsSteps, ImportSteps, RestoreSteps, CommandAssumption
  DEF TypeOK
<1>1. CASE OpenStore
  BY <1>1, <1>a, <1>b, <1>c, Order, PushedNow
  DEF OpenStore, netVars, Advance, BarWaited, Ordered, TypeOK
<1>2. CASE StartBar
  BY <1>2, <1>a, <1>b, <1>c, Order, PushedNow
  DEF StartBar, netVars, Advance, BarWaited, Ordered, TypeOK
<1>3. CASE Pass
  BY <1>3, <1>a, <1>b, <1>c, Order
  DEF Pass, netVars, localVars, Advance, BarWaited, Ordered, TypeOK
<1>4. CASE Abort
  BY <1>4, <1>a, <1>b, <1>c DEF Abort, netVars, Return, BarWaited, TypeOK
<1>5. CASE StartTransfer
  BY <1>5, <1>a, <1>b, <1>c, Order
  DEF StartTransfer, netVars, Advance, BarWaited, Ordered, TypeOK
<1>6. CASE Join
  BY <1>6, <1>a, <1>b, <1>c, Order
  DEF Join, netVars, Advance, Return, BarWaited, Ordered, TypeOK
<1>7. CASE CloseStoreNow
  BY <1>7, <1>a, <1>b, <1>c, Order
  DEF CloseStoreNow, netVars, Advance, Return, BarWaited, Ordered, TypeOK
<1>8. CASE CancelBarNow
  BY <1>8, <1>a, <1>b, <1>c, Order
  DEF CancelBarNow, netVars, Advance, BarWaited, Ordered, TypeOK
<1>9. CASE WaitBarNow
  BY <1>9, <1>a, <1>b, <1>c, Order
  DEF WaitBarNow, netVars, localVars, Advance, BarWaited, Ordered, TypeOK
<1>10. CASE PrintResult
  BY <1>10, <1>a, <1>b, <1>c DEF PrintResult, netVars, Return, BarWaited, TypeOK
<1>11. CASE StartExport
  BY <1>11, <1>a, <1>b, <1>c, Order
  DEF StartExport, netVars, Advance, BarWaited, Ordered, TypeOK
<1>12. CASE Extract
  BY <1>12, <1>a, <1>b, <1>c DEF Extract, netVars, localVars, Return, BarWaited, TypeOK
<1>13. CASE Bind
  BY <1>13, <1>a, <1>b, <1>c, Order DEF Bind, localVars, Advance, BarWaited, Ordered, TypeOK
<1>14. CASE BindExtra
  BY <1>14, <1>a, <1>b, <1>c DEF BindExtra, localVars, BarWaited, TypeOK
<1>15. CASE Win
  BY <1>15, <1>a, <1>b, <1>c, Order, PushedNow
  DEF Win, localVars, Advance, BarWaited, Ordered, TypeOK
<1>16. CASE GiveUp
  BY <1>16, <1>a, <1>b, <1>c DEF GiveUp, localVars, Return, BarWaited, TypeOK
<1>17. CASE AttachFails
  BY <1>17, <1>a, <1>b, <1>c DEF AttachFails, localVars, BarWaited, TypeOK
<1>18. CASE Attach
  BY <1>18, <1>a, <1>b, <1>c DEF Attach, localVars, BarWaited, TypeOK
<1>19. CASE ExtrasOver
  BY <1>19, <1>a, <1>b, <1>c, Order, PushedNow
  DEF ExtrasOver, netVars, localVars, Advance, BarWaited, Ordered, TypeOK
<1>20. CASE SendersReturn
  BY <1>20, <1>a, <1>b, <1>c, Order
  DEF SendersReturn, localVars, Advance, Return, BarWaited, Ordered, TypeOK
<1>21. CASE CloseStreams
  BY <1>21, <1>a, <1>b, <1>c DEF CloseStreams, localVars, Deferred, BarWaited, TypeOK
<1>22. CASE CancelBar
  BY <1>22, <1>a, <1>b, <1>c DEF CancelBar, netVars, Deferred, BarWaited, TypeOK
<1>23. CASE WaitBar
  BY <1>23, <1>a, <1>b, <1>c DEF WaitBar, netVars, localVars, Deferred, BarWaited, TypeOK
<1>24. CASE CloseConn
  BY <1>24, <1>a, <1>b, <1>c DEF CloseConn, localVars, Deferred, BarWaited, TypeOK
<1>25. CASE CloseStore
  BY <1>25, <1>a, <1>b, <1>c DEF CloseStore, netVars, Deferred, BarWaited, TypeOK
<1>26. CASE Exit
  BY <1>26, <1>a, <1>b, <1>c DEF Exit, netVars, localVars, BarWaited, TypeOK
<1>27. CASE WorkerEnds
  BY <1>27, <1>a, <1>b, <1>c DEF WorkerEnds, netVars, BarWaited, TypeOK
<1>28. CASE BarEnds
  BY <1>28, <1>a, <1>b, <1>c DEF BarEnds, netVars, BarWaited, TypeOK
<1>29. CASE ExporterReads
  BY <1>29, <1>a, <1>b, <1>c DEF ExporterReads, netVars, BarWaited, TypeOK
<1>30. CASE NoteError \/ FallBack \/ (\E d \in Dial : ConnectReturns(d))
          \/ (\E r \in Race : Collect(r)) \/ Exited \/ UNCHANGED vars
  BY <1>30, <1>a, <1>b, <1>c
  DEF NoteError, FallBack, ConnectReturns, Collect, Exited, vars, netVars, localVars,
      BarWaited, TypeOK
<1> QED
  BY <1>1, <1>2, <1>3, <1>4, <1>5, <1>6, <1>7, <1>8, <1>9, <1>10, <1>11, <1>12, <1>13,
     <1>14, <1>15, <1>16, <1>17, <1>18, <1>19, <1>20, <1>21, <1>22, <1>23, <1>24, <1>25,
     <1>26, <1>27, <1>28, <1>29, <1>30
  DEF Next, Main

\* Deferring another call does not put the closer of the streams behind it.
LEMMA PushedElse ==
  ASSUME TypeOK
  PROVE  /\ \/ Defer(<<"closeStore">>) \/ Defer(<<"cancelBar", "waitBar">>) \/ Defer(<<"closeConn">>)
            => \A i \in DOMAIN deferred' : deferred'[i] = "closeStreams" => On("closeStreams")
         /\ Defer(<<"closeStreams">>) =>
              \A i \in DOMAIN deferred' : deferred'[i] = "closeStreams" => On("closeStreams") \/ i = 1
<1>1. ASSUME Defer(<<"closeStore">>),
             NEW i \in DOMAIN deferred', deferred'[i] = "closeStreams"
      PROVE  On("closeStreams")
  <2>1. <<"closeStore">> \in Seq(Call) /\ Len(<<"closeStore">>) = 1
    BY DEF Call
  <2> DEFINE calls == <<"closeStore">>
  <2>2. deferred' \in Seq(Call) /\ (On("closeStreams") \/ (i <= Len(calls) /\ calls[i] = "closeStreams"))
    <3> HIDE DEF calls
    <3>1. Defer(calls) /\ calls \in Seq(Call)
      BY <1>1, <2>1 DEF calls
    <3> QED BY <1>1, <3>1, Pushed DEF TypeOK
  <2>3. i \in Nat /\ i > 0
    BY <2>2
  <2>4. i <= 1 => i = 1
    BY <2>3
  <2> QED BY <2>2, <2>4
<1>2. ASSUME Defer(<<"cancelBar", "waitBar">>),
             NEW i \in DOMAIN deferred', deferred'[i] = "closeStreams"
      PROVE  On("closeStreams")
  <2>1. <<"cancelBar", "waitBar">> \in Seq(Call) /\ Len(<<"cancelBar", "waitBar">>) = 2
    BY DEF Call
  <2> DEFINE calls == <<"cancelBar", "waitBar">>
  <2>2. deferred' \in Seq(Call) /\ (On("closeStreams") \/ (i <= Len(calls) /\ calls[i] = "closeStreams"))
    <3> HIDE DEF calls
    <3>1. Defer(calls) /\ calls \in Seq(Call)
      BY <1>2, <2>1 DEF calls
    <3> QED BY <1>2, <3>1, Pushed DEF TypeOK
  <2>3. i \in Nat /\ i > 0
    BY <2>2
  <2>4. i <= 2 => i \in {1, 2}
    BY <2>3
  <2> QED BY <2>2, <2>4
<1>3. ASSUME Defer(<<"closeConn">>),
             NEW i \in DOMAIN deferred', deferred'[i] = "closeStreams"
      PROVE  On("closeStreams")
  <2>1. <<"closeConn">> \in Seq(Call) /\ Len(<<"closeConn">>) = 1
    BY DEF Call
  <2> DEFINE calls == <<"closeConn">>
  <2>2. deferred' \in Seq(Call) /\ (On("closeStreams") \/ (i <= Len(calls) /\ calls[i] = "closeStreams"))
    <3> HIDE DEF calls
    <3>1. Defer(calls) /\ calls \in Seq(Call)
      BY <1>3, <2>1 DEF calls
    <3> QED BY <1>3, <3>1, Pushed DEF TypeOK
  <2>3. i \in Nat /\ i > 0
    BY <2>2
  <2>4. i <= 1 => i = 1
    BY <2>3
  <2> QED BY <2>2, <2>4
<1>4. ASSUME Defer(<<"closeStreams">>),
             NEW i \in DOMAIN deferred', deferred'[i] = "closeStreams"
      PROVE  On("closeStreams") \/ i = 1
  <2>1. <<"closeStreams">> \in Seq(Call) /\ Len(<<"closeStreams">>) = 1
    BY DEF Call
  <2> DEFINE calls == <<"closeStreams">>
  <2>2. deferred' \in Seq(Call) /\ (On("closeStreams") \/ (i <= Len(calls) /\ calls[i] = "closeStreams"))
    <3> HIDE DEF calls
    <3>1. Defer(calls) /\ calls \in Seq(Call)
      BY <1>4, <2>1 DEF calls
    <3> QED BY <1>4, <3>1, Pushed DEF TypeOK
  <2>3. i \in Nat /\ i > 0
    BY <2>2
  <2>4. i <= 1 => i = 1
    BY <2>3
  <2> QED BY <2>2, <2>4
<1> QED
  BY <1>1, <1>2, <1>3, <1>4

\* The streams of a pull go before its connections.
LEMMA StreamsFirstStep ==
  ASSUME TypeOK, Numbered, StreamsFirst, [Next]_vars
  PROVE  StreamsFirst'
<1>a. /\ On("closeStreams") => On("closeStreams")' \/ (pc = "unwind" /\ Head(deferred) = "closeStreams")
      /\ deferred' = deferred /\ On("closeStreams") => On("closeStreams")'
  BY StillOn DEF Call
<1>b. cmd' = cmd /\ cmd \in Command
  BY LocatedStep DEF Located
<1>c. pc \in {"extras", "attach"} => cmd \in {"push", "pull"}
  BY Sharding
<1>1. CASE OpenStore
  BY <1>1, <1>a, <1>b, <1>c, Order, PushedNow, PushedElse
  DEF OpenStore, Advance, StreamsFirst, On, Ordered, TypeOK, Numbered, netVars
<1>2. CASE StartBar
  BY <1>2, <1>a, <1>b, <1>c, Order, PushedNow, PushedElse
  DEF StartBar, Advance, StreamsFirst, On, Ordered, TypeOK, Numbered, netVars
<1>3. CASE Pass
  BY <1>3, <1>a, <1>b, <1>c, Order
  DEF Pass, netVars, localVars, Advance, StreamsFirst, On, Ordered, TypeOK, Numbered
<1>4. CASE Abort
  BY <1>4, <1>a, <1>b, <1>c DEF Abort, netVars, Return, StreamsFirst, On, TypeOK, Numbered
<1>5. CASE StartTransfer
  BY <1>5, <1>a, <1>b, <1>c, Order
  DEF StartTransfer, netVars, Advance, StreamsFirst, On, Ordered, TypeOK, Numbered
<1>6. CASE Join
  BY <1>6, <1>a, <1>b, <1>c, Order
  DEF Join, netVars, Advance, Return, StreamsFirst, On, Ordered, TypeOK, Numbered
<1>7. CASE CloseStoreNow
  BY <1>7, <1>a, <1>b, <1>c, Order
  DEF CloseStoreNow, netVars, Advance, Return, StreamsFirst, On, Ordered, TypeOK, Numbered
<1>8. CASE CancelBarNow
  BY <1>8, <1>a, <1>b, <1>c, Order
  DEF CancelBarNow, netVars, Advance, StreamsFirst, On, Ordered, TypeOK, Numbered
<1>9. CASE WaitBarNow
  BY <1>9, <1>a, <1>b, <1>c, Order
  DEF WaitBarNow, netVars, localVars, Advance, StreamsFirst, On, Ordered, TypeOK, Numbered
<1>10. CASE PrintResult
  BY <1>10, <1>a, <1>b, <1>c
  DEF PrintResult, netVars, Return, StreamsFirst, On, TypeOK, Numbered
<1>11. CASE StartExport
  BY <1>11, <1>a, <1>b, <1>c, Order
  DEF StartExport, netVars, Advance, StreamsFirst, On, Ordered, TypeOK, Numbered
<1>12. CASE Extract
  BY <1>12, <1>a, <1>b, <1>c
  DEF Extract, netVars, localVars, Return, StreamsFirst, On, TypeOK, Numbered
<1>13. CASE Bind
  BY <1>13, <1>a, <1>b, <1>c, Order
  DEF Bind, localVars, Advance, StreamsFirst, On, Ordered, TypeOK, Numbered
<1>14. CASE BindExtra
  BY <1>14, <1>a, <1>b, <1>c DEF BindExtra, localVars, StreamsFirst, On, TypeOK, Numbered
<1>15. CASE Win
  <2>1. race[1] = 0 => attached = {}
    BY <1>15 DEF Win, Numbered
  <2> QED BY <1>15, <2>1, <1>a, <1>b, Order, PushedElse
          DEF Win, Advance, StreamsFirst, On, Ordered, TypeOK, localVars
<1>16. CASE NoteError
  BY <1>16, <1>a, <1>b, <1>c DEF NoteError, localVars, StreamsFirst, On, TypeOK, Numbered
<1>17. CASE FallBack
  BY <1>17, <1>a, <1>b, <1>c DEF FallBack, localVars, StreamsFirst, On, TypeOK, Numbered
<1>18. CASE GiveUp
  <2>1. race[1] = 0 => attached = {}
    BY <1>18 DEF GiveUp, Numbered
  <2> QED BY <1>18, <2>1, <1>a, <1>b DEF GiveUp, Return, StreamsFirst, On, localVars
<1>19. CASE AttachFails
  BY <1>19, <1>a, <1>b, <1>c DEF AttachFails, localVars, StreamsFirst, On, TypeOK, Numbered
<1>20. CASE Attach
  BY <1>20, <1>a, <1>b, <1>c DEF Attach, localVars, StreamsFirst, On, TypeOK, Numbered
<1>21. CASE ExtrasOver
  BY <1>21, <1>a, <1>b, <1>c, Order, PushedNow, PushedElse
  DEF ExtrasOver, Advance, StreamsFirst, On, Ordered, TypeOK, Numbered, localVars, netVars
<1>22. CASE SendersReturn
  BY <1>22, <1>a, <1>b, <1>c, Order
  DEF SendersReturn, localVars, Advance, Return, StreamsFirst, On, Ordered, TypeOK, Numbered
<1>23. CASE CloseStreams
  <2>1. /\ \A i \in DOMAIN deferred' : deferred'[i] = "closeStreams" =>
              i + 1 \in DOMAIN deferred /\ deferred[i + 1] = "closeStreams"
        /\ deferred[1] = "closeStreams" /\ pc' = "unwind" /\ pc = "unwind"
    BY <1>23, Popped DEF CloseStreams, TypeOK
  <2>2. \A i \in DOMAIN deferred' : i \in Nat /\ i > 0
    BY DeferredStep
  <2>3. \A i \in DOMAIN deferred' : deferred'[i] # "closeStreams"
    BY <2>1, <2>2 DEF StreamsFirst
  <2>4. On("closeStreams") => deferred[1] = "closeStreams"
    BY DEF StreamsFirst, On
  <2> QED BY <1>23, <1>b, <2>1, <2>3, <2>4 DEF CloseStreams, StreamsFirst, localVars
<1>24. CASE CancelBar
  <2>1. /\ \A i \in DOMAIN deferred' : deferred'[i] = "closeStreams" =>
              i + 1 \in DOMAIN deferred /\ deferred[i + 1] = "closeStreams"
        /\ deferred[1] = "cancelBar" /\ pc' = "unwind" /\ pc = "unwind"
    BY <1>24, Popped DEF CancelBar, TypeOK
  <2>2. \A i \in DOMAIN deferred' : i \in Nat /\ i > 0
    BY DeferredStep
  <2>3. \A i \in DOMAIN deferred' : deferred'[i] # "closeStreams"
    BY <2>1, <2>2 DEF StreamsFirst
  <2>4. On("closeStreams") => deferred[1] = "closeStreams"
    BY DEF StreamsFirst, On
  <2> QED BY <1>24, <1>b, <2>1, <2>3, <2>4 DEF CancelBar, StreamsFirst, netVars
<1>25. CASE WaitBar
  <2>1. /\ \A i \in DOMAIN deferred' : deferred'[i] = "closeStreams" =>
              i + 1 \in DOMAIN deferred /\ deferred[i + 1] = "closeStreams"
        /\ deferred[1] = "waitBar" /\ pc' = "unwind" /\ pc = "unwind"
    BY <1>25, Popped DEF WaitBar, TypeOK
  <2>2. \A i \in DOMAIN deferred' : i \in Nat /\ i > 0
    BY DeferredStep
  <2>3. \A i \in DOMAIN deferred' : deferred'[i] # "closeStreams"
    BY <2>1, <2>2 DEF StreamsFirst
  <2>4. On("closeStreams") => deferred[1] = "closeStreams"
    BY DEF StreamsFirst, On
  <2> QED BY <1>25, <1>b, <2>1, <2>3, <2>4 DEF WaitBar, StreamsFirst, localVars, netVars
<1>26. CASE CloseConn
  <2>1. /\ \A i \in DOMAIN deferred' : deferred'[i] = "closeStreams" =>
              i + 1 \in DOMAIN deferred /\ deferred[i + 1] = "closeStreams"
        /\ deferred[1] = "closeConn" /\ pc' = "unwind" /\ pc = "unwind"
    BY <1>26, Popped DEF CloseConn, TypeOK
  <2>2. \A i \in DOMAIN deferred' : i \in Nat /\ i > 0
    BY DeferredStep
  <2>3. \A i \in DOMAIN deferred' : deferred'[i] # "closeStreams"
    BY <2>1, <2>2 DEF StreamsFirst
  <2>4. On("closeStreams") => deferred[1] = "closeStreams"
    BY DEF StreamsFirst, On
  <2> QED BY <1>26, <1>b, <2>1, <2>3, <2>4 DEF CloseConn, StreamsFirst, localVars
<1>27. CASE CloseStore
  <2>1. /\ \A i \in DOMAIN deferred' : deferred'[i] = "closeStreams" =>
              i + 1 \in DOMAIN deferred /\ deferred[i + 1] = "closeStreams"
        /\ deferred[1] = "closeStore" /\ pc' = "unwind" /\ pc = "unwind"
    BY <1>27, Popped DEF CloseStore, TypeOK
  <2>2. \A i \in DOMAIN deferred' : i \in Nat /\ i > 0
    BY DeferredStep
  <2>3. \A i \in DOMAIN deferred' : deferred'[i] # "closeStreams"
    BY <2>1, <2>2 DEF StreamsFirst
  <2>4. On("closeStreams") => deferred[1] = "closeStreams"
    BY DEF StreamsFirst, On
  <2> QED BY <1>27, <1>b, <2>1, <2>3, <2>4 DEF CloseStore, StreamsFirst, netVars
<1>28. CASE Exit
  BY <1>28, <1>a, <1>b, <1>c
  DEF Exit, netVars, localVars, StreamsFirst, On, TypeOK, Numbered
<1>29. ASSUME NEW d \in Dial, ConnectReturns(d)
     PROVE  StreamsFirst'
  BY <1>29, <1>a, <1>b, <1>c
  DEF ConnectReturns, localVars, StreamsFirst, On, TypeOK, Numbered
<1>30. ASSUME NEW r \in Race, Collect(r)
     PROVE  StreamsFirst'
  BY <1>30, <1>a, <1>b, <1>c DEF Collect, localVars, StreamsFirst, On, TypeOK, Numbered
<1>31. CASE WorkerEnds \/ BarEnds \/ ExporterReads \/ Exited \/ UNCHANGED vars
  <2>1. UNCHANGED <<cmd, pc, deferred, attached>>
    BY <1>31 DEF WorkerEnds, BarEnds, ExporterReads, Exited, vars, netVars, localVars
  <2> QED BY <2>1 DEF StreamsFirst, On
<1> QED
  BY <1>1, <1>2, <1>3, <1>4, <1>5, <1>6, <1>7, <1>8, <1>9, <1>10, <1>11, <1>12, <1>13,
     <1>14, <1>15, <1>16, <1>17, <1>18, <1>19, <1>20, <1>21, <1>22, <1>23, <1>24, <1>25,
     <1>26, <1>27, <1>28, <1>29, <1>30, <1>31
  DEF Next, Main

-----------------------------------------------------------------------------
(* Endpoints and connections                                                 *)

\* Endpoints are numbered as they are bound.
LEMMA NumberedStep ==
  ASSUME TypeOK, Numbered, [Next]_vars
  PROVE  Numbered'
<1>a. cmd' = cmd /\ cmd \in Command
  BY LocatedStep DEF Located
<1>b. pc \in {"extras", "attach"} => cmd \in {"push", "pull"}
  BY Sharding
<1>c. pc \in {"bind", "race"} => cmd \in {"push", "pull", "refs"}
  BY PushSteps, PullSteps, RefsSteps, ImportSteps, RestoreSteps, CommandAssumption
  DEF TypeOK
<1>d. NetType'
  BY NetStep
<1>1. CASE OpenStore
  BY <1>1, <1>a, <1>b, <1>c, <1>d, Order, CommandAssumption
  DEF OpenStore, netVars, Advance, Numbered, Ordered, TypeOK, NetType, Ep, Race, Dial
<1>2. CASE StartBar
  BY <1>2, <1>a, <1>b, <1>c, <1>d, Order, CommandAssumption
  DEF StartBar, netVars, Advance, Numbered, Ordered, TypeOK, NetType, Ep, Race, Dial
<1>3. CASE Pass
  BY <1>3, <1>a, <1>b, <1>c, <1>d, Order, CommandAssumption
  DEF Pass, netVars, localVars, Advance, Numbered, Ordered, TypeOK, NetType, Ep, Race, Dial
<1>4. CASE Abort
  BY <1>4, <1>a, <1>b, <1>c, <1>d, CommandAssumption
  DEF Abort, netVars, Return, Numbered, TypeOK, NetType, Ep, Race, Dial
<1>5. CASE StartTransfer
  BY <1>5, <1>a, <1>b, <1>c, <1>d, Order, CommandAssumption
  DEF StartTransfer, netVars, Advance, Numbered, Ordered, TypeOK, NetType, Ep, Race, Dial
<1>6. CASE Join
  BY <1>6, <1>a, <1>b, <1>c, <1>d, Order, CommandAssumption
  DEF Join, netVars, Advance, Return, Numbered, Ordered, TypeOK, NetType, Ep, Race, Dial
<1>7. CASE CloseStoreNow
  BY <1>7, <1>a, <1>b, <1>c, <1>d, Order, CommandAssumption
  DEF CloseStoreNow, netVars, Advance, Return, Numbered, Ordered, TypeOK, NetType, Ep,
      Race, Dial
<1>8. CASE ExtrasOver
  BY <1>8, <1>a, <1>b, <1>c, <1>d, Order, CommandAssumption
  DEF ExtrasOver, netVars, localVars, Advance, Numbered, Ordered, TypeOK, NetType, Ep,
      Race, Dial
<1>9. CASE CancelBarNow
  BY <1>9, <1>a, <1>b, <1>c, <1>d, Order, CommandAssumption
  DEF CancelBarNow, netVars, Advance, Numbered, Ordered, TypeOK, NetType, Ep, Race, Dial
<1>10. CASE WaitBarNow
  BY <1>10, <1>a, <1>b, <1>c, <1>d, Order, CommandAssumption
  DEF WaitBarNow, netVars, localVars, Advance, Numbered, Ordered, TypeOK, NetType, Ep,
      Race, Dial
<1>11. CASE StartExport
  BY <1>11, <1>a, <1>b, <1>c, <1>d, Order, CommandAssumption
  DEF StartExport, netVars, Advance, Numbered, Ordered, TypeOK, NetType, Ep, Race, Dial
<1>12. CASE Bind
  BY <1>12, <1>a, <1>b, <1>c, <1>d, Order, CommandAssumption
  DEF Bind, localVars, Advance, Numbered, Ordered, TypeOK, NetType, Launch, Ep, Race, Dial
<1>13. CASE BindExtra
  <2>1. PICK cands : dial' = [d \in Dial |-> IF d \in {<<extra + 1, 1>>} \X cands THEN "dialing" ELSE dial[d]]
    BY <1>13 DEF BindExtra, Launch
  <2>2. /\ extra' = extra + 1 /\ extra \in Nat /\ race' = <<extra + 1, 1>> /\ pc = "extras" /\ pc' = "race"
        /\ UNCHANGED <<cmd, winner, attached, kept>> /\ extra + 1 \in Ep /\ Ep \subseteq Nat
    BY <1>13, CommandAssumption DEF BindExtra, Launch, TypeOK, Ep
  <2>3. \A d \in Dial : d[1] \in Race /\ d[1][1] \in Ep
    BY DEF Dial, Race
  <2>4. \A d \in Dial : dial'[d] # dial[d] => d[1] = <<extra + 1, 1>>
    BY <2>1 DEF TypeOK
  <2>5. \A d \in Dial : dial[d] # "idle" => d[1][1] # extra + 1
    BY <2>2, <2>3 DEF Numbered
  <2>6. \A d \in Dial : dial'[d] # "idle" => d[1][1] <= extra + 1 /\ d[1] # <<extra + 1, 2>>
    <3>1. ASSUME NEW d \in Dial, dial'[d] # "idle", dial[d] # "idle"
          PROVE  d[1][1] <= extra /\ d[1][1] # extra + 1 /\ d[1][1] \in Nat
      BY <2>2, <2>3, <2>5, <3>1 DEF Numbered
    <3>2. ASSUME NEW d \in Dial, dial'[d] # "idle", dial[d] = "idle"
          PROVE  d[1] = <<extra + 1, 1>>
      BY <2>4, <3>2
    <3> QED BY <2>2, <3>1, <3>2
  <2>7. \A e \in Ep : winner[e] # NoDial =>
           e <= extra /\ e <= extra + 1 /\ winner[e][1][1] = e /\ dial'[winner[e]] = "won"
    <3>1. ASSUME NEW e \in Ep, winner[e] # NoDial
          PROVE  e <= extra /\ winner[e] \in Dial /\ winner[e][1][1] = e /\ dial[winner[e]] = "won"
      BY <3>1 DEF Numbered, TypeOK
    <3>2. ASSUME NEW e \in Ep, winner[e] # NoDial
          PROVE  winner[e][1] # <<extra + 1, 1>>
      BY <2>5, <3>1, <3>2
    <3>3. ASSUME NEW e \in Ep, winner[e] # NoDial
          PROVE  dial'[winner[e]] = dial[winner[e]]
      BY <2>4, <3>1, <3>2, <3>3
    <3>4. \A e \in Ep : e <= extra => e <= extra + 1
      BY <2>2
    <3> QED BY <3>1, <3>3, <3>4
  <2>8. winner[extra + 1] = NoDial /\ attached' \subseteq 1..extra' /\ extra' \notin attached'
    BY <2>2, <2>7 DEF Numbered
  <2> QED BY <1>a, <1>b, <2>2, <2>6, <2>7, <2>8 DEF Numbered
<1>14. CASE Win
  BY <1>14, <1>a, <1>b, <1>c, <1>d, Order, CommandAssumption
  DEF Win, localVars, Advance, Numbered, Ordered, TypeOK, NetType, Receive, Results, Ep,
      Race, Dial
<1>15. CASE NoteError
  <2>1. PICK d \in Dial : dial[d] = "err" /\ dial' = [dial EXCEPT ![d] = "lost"]
    BY <1>15 DEF NoteError, Results, Receive
  <2>2. UNCHANGED <<cmd, pc, extra, race, winner, attached, eps, kept>> /\ pc = "race"
    BY <1>15 DEF NoteError
  <2>3. /\ d[1] # <<extra, 2>> \/ race[2] # 1
        /\ \A c \in Dial : c # d => dial'[c] = dial[c]
        /\ \A e \in Ep : winner[e] # NoDial => winner[e] \in Dial /\ winner[e] # d
    BY <2>1, <2>2 DEF Numbered, TypeOK
  <2> QED BY <1>15, <1>a, <1>c, <2>1, <2>2, <2>3 DEF Numbered, TypeOK
<1>16. CASE FallBack
  BY <1>16, <1>a, <1>b, <1>c, <1>d, CommandAssumption
  DEF FallBack, localVars, Numbered, TypeOK, NetType, Launch, Ep, Race, Dial
<1>17. CASE GiveUp
  BY <1>17, <1>a, <1>b, <1>c, <1>d, CommandAssumption
  DEF GiveUp, localVars, Return, Numbered, TypeOK, NetType, Ep, Race, Dial
<1>18. CASE AttachFails
  BY <1>18, <1>a, <1>b, <1>c, <1>d, CommandAssumption
  DEF AttachFails, localVars, Numbered, TypeOK, NetType, Ep, Race, Dial
<1>19. CASE Attach
  BY <1>19, <1>a, <1>b, <1>c, <1>d, CommandAssumption
  DEF Attach, localVars, Numbered, TypeOK, NetType, Ep, Race, Dial
<1>20. CASE SendersReturn
  BY <1>20, <1>a, <1>b, <1>c, <1>d, Order, CommandAssumption
  DEF SendersReturn, localVars, Advance, Return, Numbered, Ordered, TypeOK, NetType, Ep,
      Race, Dial
<1>21. CASE CloseStreams
  BY <1>21, <1>a, <1>b, <1>c, <1>d, CommandAssumption
  DEF CloseStreams, localVars, Deferred, Numbered, TypeOK, NetType, Ep, Race, Dial
<1>22. CASE CloseConn
  BY <1>22, <1>a, <1>b, <1>c, <1>d, CommandAssumption
  DEF CloseConn, localVars, Deferred, Numbered, TypeOK, NetType, Ep, Race, Dial
<1>23. ASSUME NEW d \in Dial, ConnectReturns(d)
     PROVE  Numbered'
  BY <1>23, <1>a, <1>b, <1>c, <1>d, CommandAssumption
  DEF ConnectReturns, localVars, Numbered, TypeOK, NetType, Ep, Race, Dial
<1>24. ASSUME NEW r \in Race, Collect(r)
     PROVE  Numbered'
  BY <1>24, <1>a, <1>b, <1>c, <1>d, CommandAssumption
  DEF Collect, localVars, Numbered, TypeOK, NetType, Receive, Results, Ep, Race, Dial
<1>25. CASE PrintResult \/ Extract \/ CancelBar \/ WaitBar \/ CloseStore \/ Exit
          \/ WorkerEnds \/ BarEnds \/ ExporterReads \/ Exited \/ UNCHANGED vars
  <2>1. UNCHANGED <<cmd, netVars>> /\ (pc' = pc \/ pc' \in {"unwind", "exited"})
    BY <1>25
    DEF PrintResult, Extract, CancelBar, WaitBar, CloseStore, Exit, WorkerEnds, BarEnds,
        ExporterReads, Exited, vars, netVars, localVars, Return, Deferred
  <2> QED BY <2>1 DEF Numbered, netVars
<1> QED
  BY <1>1, <1>2, <1>3, <1>4, <1>5, <1>6, <1>7, <1>8, <1>9, <1>10, <1>11, <1>12, <1>13,
     <1>14, <1>15, <1>16, <1>17, <1>18, <1>19, <1>20, <1>21, <1>22, <1>23, <1>24, <1>25
  DEF Next, Main

\* What is kept is known to a deferred call.
LEMMA ConnectedStep ==
  ASSUME TypeOK, Numbered, Connected, [Next]_vars
  PROVE  Connected'
<1>a. /\ On("closeConn") => On("closeConn")' \/ (pc = "unwind" /\ Head(deferred) = "closeConn")
      /\ deferred' = deferred /\ On("closeConn") => On("closeConn")'
  BY StillOn DEF Call
<1>b. cmd' = cmd /\ cmd \in Command
  BY LocatedStep DEF Located
<1>c. pc \in {"bind", "race"} => cmd \in {"push", "pull", "refs"}
  BY PushSteps, PullSteps, RefsSteps, ImportSteps, RestoreSteps, CommandAssumption
  DEF TypeOK
<1>d. NetType' /\ Numbered'
  BY NetStep, NumberedStep
<1>1. CASE OpenStore
  BY <1>1, <1>a, <1>b, <1>c, <1>d, Order, PushedNow, CommandAssumption
  DEF OpenStore, netVars, Advance, Connected, Numbered, Ordered, TypeOK, NetType, Ep, Race
<1>2. CASE StartBar
  BY <1>2, <1>a, <1>b, <1>c, <1>d, Order, PushedNow, CommandAssumption
  DEF StartBar, netVars, Advance, Connected, Numbered, Ordered, TypeOK, NetType, Ep, Race
<1>3. CASE Pass
  BY <1>3, <1>a, <1>b, <1>c, <1>d, Order, CommandAssumption
  DEF Pass, netVars, localVars, Advance, Connected, Numbered, Ordered, TypeOK, NetType, Ep,
      Race
<1>4. CASE Abort
  BY <1>4, <1>a, <1>b, <1>c, <1>d, CommandAssumption
  DEF Abort, netVars, Return, Connected, Numbered, TypeOK, NetType, Ep, Race
<1>5. CASE StartTransfer
  BY <1>5, <1>a, <1>b, <1>c, <1>d, Order, CommandAssumption
  DEF StartTransfer, netVars, Advance, Connected, Numbered, Ordered, TypeOK, NetType, Ep,
      Race
<1>6. CASE Join
  BY <1>6, <1>a, <1>b, <1>c, <1>d, Order, CommandAssumption
  DEF Join, netVars, Advance, Return, Connected, Numbered, Ordered, TypeOK, NetType, Ep,
      Race
<1>7. CASE CloseStoreNow
  BY <1>7, <1>a, <1>b, <1>c, <1>d, Order, CommandAssumption
  DEF CloseStoreNow, netVars, Advance, Return, Connected, Numbered, Ordered, TypeOK,
      NetType, Ep, Race
<1>8. CASE ExtrasOver
  BY <1>8, <1>a, <1>b, <1>c, <1>d, Order, PushedNow, CommandAssumption
  DEF ExtrasOver, netVars, localVars, Advance, Connected, Numbered, Ordered, TypeOK,
      NetType, Ep, Race
<1>9. CASE CancelBarNow
  BY <1>9, <1>a, <1>b, <1>c, <1>d, Order, CommandAssumption
  DEF CancelBarNow, netVars, Advance, Connected, Numbered, Ordered, TypeOK, NetType, Ep,
      Race
<1>10. CASE WaitBarNow
  BY <1>10, <1>a, <1>b, <1>c, <1>d, Order, CommandAssumption
  DEF WaitBarNow, netVars, localVars, Advance, Connected, Numbered, Ordered, TypeOK,
      NetType, Ep, Race
<1>11. CASE StartExport
  BY <1>11, <1>a, <1>b, <1>c, <1>d, Order, CommandAssumption
  DEF StartExport, netVars, Advance, Connected, Numbered, Ordered, TypeOK, NetType, Ep, Race
<1>12. CASE Bind
  BY <1>12, <1>a, <1>b, <1>c, <1>d, Order, CommandAssumption
  DEF Bind, localVars, Advance, Connected, Numbered, Ordered, TypeOK, NetType, Ep, Race,
      Launch
<1>13. CASE BindExtra
  BY <1>13, <1>a, <1>b, <1>c, <1>d, CommandAssumption
  DEF BindExtra, localVars, Connected, Numbered, TypeOK, NetType, Ep, Race, Launch
<1>14. CASE Win
  <2>1. PICK d \in Dial : winner' = [winner EXCEPT ![race[1]] = d]
    BY <1>14 DEF Win, Results
  <2>2. /\ race[1] \in Ep /\ race[1] = extra /\ (race[1] = 0 \/ 0 \in kept) /\ NoDial \notin Dial
        /\ pc = "race" /\ kept' = kept \cup {race[1]} /\ UNCHANGED <<extra, attached>>
    BY <1>14, CommandAssumption DEF Win, TypeOK, Race, Ep, Numbered, Connected
  <2>3. On("closeConn")'
    BY <1>14, <1>a, <2>2, PushedNow DEF Win, Connected
  <2>4. \A e \in kept' \cup attached' : winner'[e] # NoDial
    BY <2>1, <2>2 DEF Connected, TypeOK
  <2>5. 0 \in kept' /\ winner'[extra'] # NoDial
    BY <2>1, <2>2 DEF TypeOK
  <2> QED BY <2>3, <2>4, <2>5 DEF Connected
<1>15. CASE NoteError
  BY <1>15, <1>a, <1>b, <1>c, <1>d, CommandAssumption
  DEF NoteError, localVars, Connected, Numbered, TypeOK, NetType, Ep, Race
<1>16. CASE FallBack
  BY <1>16, <1>a, <1>b, <1>c, <1>d, CommandAssumption
  DEF FallBack, localVars, Connected, Numbered, TypeOK, NetType, Ep, Race, Launch
<1>17. CASE GiveUp
  BY <1>17, <1>a, <1>b, <1>c, <1>d, CommandAssumption
  DEF GiveUp, localVars, Return, Connected, Numbered, TypeOK, NetType, Ep, Race
<1>18. CASE AttachFails
  BY <1>18, <1>a, <1>b, <1>c, <1>d, CommandAssumption
  DEF AttachFails, localVars, Connected, Numbered, TypeOK, NetType, Ep, Race
<1>19. CASE Attach
  BY <1>19, <1>a, <1>b, <1>c, <1>d, CommandAssumption
  DEF Attach, localVars, Connected, Numbered, TypeOK, NetType, Ep, Race
<1>20. CASE SendersReturn
  BY <1>20, <1>a, <1>b, <1>c, <1>d, Order, CommandAssumption
  DEF SendersReturn, localVars, Advance, Return, Connected, Numbered, Ordered, TypeOK,
      NetType, Ep, Race
<1>21. CASE CloseStreams
  BY <1>21, <1>a, <1>b, <1>c, <1>d, CommandAssumption
  DEF CloseStreams, localVars, Deferred, Connected, Numbered, TypeOK, NetType, Ep, Race
<1>22. CASE CloseConn
  BY <1>22, <1>a, <1>b, <1>c, <1>d, CommandAssumption
  DEF CloseConn, localVars, Deferred, Connected, Numbered, TypeOK, NetType, Ep, Race
<1>23. ASSUME NEW d \in Dial, ConnectReturns(d)
     PROVE  Connected'
  BY <1>23, <1>a, <1>b, <1>c, <1>d, CommandAssumption
  DEF ConnectReturns, localVars, Connected, Numbered, TypeOK, NetType, Ep, Race
<1>24. ASSUME NEW r \in Race, Collect(r)
     PROVE  Connected'
  BY <1>24, <1>a, <1>b, <1>c, <1>d, CommandAssumption
  DEF Collect, localVars, Connected, Numbered, TypeOK, NetType, Ep, Race
<1>25. CASE CancelBar
  BY <1>25, <1>a, <1>b, <1>c, <1>d, CommandAssumption
  DEF CancelBar, netVars, Deferred, Connected, Numbered, TypeOK, NetType, Ep, Race
<1>26. CASE WaitBar
  BY <1>26, <1>a, <1>b, <1>c, <1>d, CommandAssumption
  DEF WaitBar, netVars, localVars, Deferred, Connected, Numbered, TypeOK, NetType, Ep, Race
<1>27. CASE CloseStore
  BY <1>27, <1>a, <1>b, <1>c, <1>d, CommandAssumption
  DEF CloseStore, netVars, Deferred, Connected, Numbered, TypeOK, NetType, Ep, Race
<1>28. CASE PrintResult
  BY <1>28, <1>a, <1>b, <1>c, <1>d, CommandAssumption
  DEF PrintResult, netVars, Return, Connected, Numbered, TypeOK, NetType, Ep, Race
<1>29. CASE Extract
  BY <1>29, <1>a, <1>b, <1>c, <1>d, CommandAssumption
  DEF Extract, netVars, localVars, Return, Connected, Numbered, TypeOK, NetType, Ep, Race
<1>30. CASE Exit
  BY <1>30, <1>a, <1>b, <1>c, <1>d, CommandAssumption
  DEF Exit, netVars, localVars, Connected, Numbered, TypeOK, NetType, Ep, Race
<1>31. CASE WorkerEnds
  BY <1>31, <1>a, <1>b, <1>c, <1>d, CommandAssumption
  DEF WorkerEnds, netVars, Connected, Numbered, TypeOK, NetType, Ep, Race
<1>32. CASE BarEnds
  BY <1>32, <1>a, <1>b, <1>c, <1>d, CommandAssumption
  DEF BarEnds, netVars, Connected, Numbered, TypeOK, NetType, Ep, Race
<1>33. CASE ExporterReads
  BY <1>33, <1>a, <1>b, <1>c, <1>d, CommandAssumption
  DEF ExporterReads, netVars, Connected, Numbered, TypeOK, NetType, Ep, Race
<1>34. CASE Exited
  BY <1>34, <1>a, <1>b, <1>c, <1>d, CommandAssumption
  DEF Exited, vars, netVars, localVars, Connected, Numbered, TypeOK, NetType, Ep, Race
<1>35. CASE UNCHANGED vars
  BY <1>35, <1>a, <1>b, <1>c, <1>d, Order, PushedNow, CommandAssumption
  DEF vars, netVars, localVars, Advance, Return, Deferred, Connected, Numbered, Ordered,
      TypeOK, NetType, Ep, Race, Launch
<1> QED
  BY <1>1, <1>2, <1>3, <1>4, <1>5, <1>6, <1>7, <1>8, <1>9, <1>10, <1>11, <1>12, <1>13,
     <1>14, <1>15, <1>16, <1>17, <1>18, <1>19, <1>20, <1>21, <1>22, <1>23, <1>24, <1>25,
     <1>26, <1>27, <1>28, <1>29, <1>30, <1>31, <1>32, <1>33, <1>34, <1>35
  DEF Next, Main

\* The bound endpoints are those the command keeps and the one it races on.
Bound == eps = kept \cup (IF pc = "race" THEN {race[1]} ELSE {})

\* An endpoint is shut down by who gives it up, or with all the others.
LEMMA BoundStep ==
  ASSUME TypeOK, Numbered, Connected, Bound, [Next]_vars
  PROVE  Bound'
<1>b. cmd' = cmd /\ cmd \in Command
  BY LocatedStep DEF Located
<1>c. pc \in {"bind", "race"} => cmd \in {"push", "pull", "refs"}
  BY PushSteps, PullSteps, RefsSteps, ImportSteps, RestoreSteps, CommandAssumption
  DEF TypeOK
<1>d. NetType' /\ Numbered'
  BY NetStep, NumberedStep
<1>1. CASE OpenStore
  BY <1>1, <1>b, <1>c, <1>d, Order, CommandAssumption
  DEF OpenStore, netVars, Advance, Bound, Connected, Numbered, Ordered, TypeOK, NetType,
      Ep, Race
<1>2. CASE StartBar
  BY <1>2, <1>b, <1>c, <1>d, Order, CommandAssumption
  DEF StartBar, netVars, Advance, Bound, Connected, Numbered, Ordered, TypeOK, NetType, Ep,
      Race
<1>3. CASE Pass
  BY <1>3, <1>b, <1>c, <1>d, Order, CommandAssumption
  DEF Pass, netVars, localVars, Advance, Bound, Connected, Numbered, Ordered, TypeOK,
      NetType, Ep, Race
<1>4. CASE Abort
  BY <1>4, <1>b, <1>c, <1>d, CommandAssumption
  DEF Abort, netVars, Return, Bound, Connected, Numbered, TypeOK, NetType, Ep, Race
<1>5. CASE StartTransfer
  BY <1>5, <1>b, <1>c, <1>d, Order, CommandAssumption
  DEF StartTransfer, netVars, Advance, Bound, Connected, Numbered, Ordered, TypeOK,
      NetType, Ep, Race
<1>6. CASE Join
  BY <1>6, <1>b, <1>c, <1>d, Order, CommandAssumption
  DEF Join, netVars, Advance, Return, Bound, Connected, Numbered, Ordered, TypeOK, NetType,
      Ep, Race
<1>7. CASE CloseStoreNow
  BY <1>7, <1>b, <1>c, <1>d, Order, CommandAssumption
  DEF CloseStoreNow, netVars, Advance, Return, Bound, Connected, Numbered, Ordered, TypeOK,
      NetType, Ep, Race
<1>8. CASE ExtrasOver
  BY <1>8, <1>b, <1>c, <1>d, Order, CommandAssumption
  DEF ExtrasOver, netVars, localVars, Advance, Bound, Connected, Numbered, Ordered, TypeOK,
      NetType, Ep, Race
<1>9. CASE CancelBarNow
  BY <1>9, <1>b, <1>c, <1>d, Order, CommandAssumption
  DEF CancelBarNow, netVars, Advance, Bound, Connected, Numbered, Ordered, TypeOK, NetType,
      Ep, Race
<1>10. CASE WaitBarNow
  BY <1>10, <1>b, <1>c, <1>d, Order, CommandAssumption
  DEF WaitBarNow, netVars, localVars, Advance, Bound, Connected, Numbered, Ordered, TypeOK,
      NetType, Ep, Race
<1>11. CASE StartExport
  BY <1>11, <1>b, <1>c, <1>d, Order, CommandAssumption
  DEF StartExport, netVars, Advance, Bound, Connected, Numbered, Ordered, TypeOK, NetType,
      Ep, Race
<1>12. CASE Bind
  BY <1>12, <1>b, <1>c, <1>d, Order, CommandAssumption
  DEF Bind, localVars, Advance, Bound, Connected, Numbered, Ordered, TypeOK, NetType, Ep,
      Race, Launch
<1>13. CASE BindExtra
  BY <1>13, <1>b, <1>c, <1>d, CommandAssumption
  DEF BindExtra, localVars, Bound, Connected, Numbered, TypeOK, NetType, Ep, Race, Launch
<1>14. CASE Win
  BY <1>14, <1>b, <1>c, <1>d, Order, CommandAssumption
  DEF Win, localVars, Advance, Bound, Connected, Numbered, Ordered, TypeOK, NetType, Ep,
      Race
<1>15. CASE NoteError
  BY <1>15, <1>b, <1>c, <1>d, CommandAssumption
  DEF NoteError, localVars, Bound, Connected, Numbered, TypeOK, NetType, Ep, Race
<1>16. CASE FallBack
  BY <1>16, <1>b, <1>c, <1>d, CommandAssumption
  DEF FallBack, localVars, Bound, Connected, Numbered, TypeOK, NetType, Ep, Race, Launch
<1>17. CASE GiveUp
  BY <1>17, <1>b, <1>c, <1>d, CommandAssumption
  DEF GiveUp, localVars, Return, Bound, Connected, Numbered, TypeOK, NetType, Ep, Race
<1>18. CASE AttachFails
  BY <1>18, <1>b, <1>c, <1>d, CommandAssumption
  DEF AttachFails, localVars, Bound, Connected, Numbered, TypeOK, NetType, Ep, Race
<1>19. CASE Attach
  BY <1>19, <1>b, <1>c, <1>d, CommandAssumption
  DEF Attach, localVars, Bound, Connected, Numbered, TypeOK, NetType, Ep, Race
<1>20. CASE SendersReturn
  BY <1>20, <1>b, <1>c, <1>d, Order, CommandAssumption
  DEF SendersReturn, localVars, Advance, Return, Bound, Connected, Numbered, Ordered,
      TypeOK, NetType, Ep, Race
<1>21. CASE CloseStreams
  BY <1>21, <1>b, <1>c, <1>d, CommandAssumption
  DEF CloseStreams, localVars, Deferred, Bound, Connected, Numbered, TypeOK, NetType, Ep,
      Race
<1>22. CASE CloseConn
  BY <1>22, <1>b, <1>c, <1>d, CommandAssumption
  DEF CloseConn, localVars, Deferred, Bound, Connected, Numbered, TypeOK, NetType, Ep, Race
<1>23. ASSUME NEW d \in Dial, ConnectReturns(d)
     PROVE  Bound'
  BY <1>23, <1>b, <1>c, <1>d, CommandAssumption
  DEF ConnectReturns, localVars, Bound, Connected, Numbered, TypeOK, NetType, Ep, Race
<1>24. ASSUME NEW r \in Race, Collect(r)
     PROVE  Bound'
  BY <1>24, <1>b, <1>c, <1>d, CommandAssumption
  DEF Collect, localVars, Bound, Connected, Numbered, TypeOK, NetType, Ep, Race
<1>25. CASE PrintResult
  BY <1>25, <1>b, <1>c, <1>d, CommandAssumption
  DEF PrintResult, netVars, Return, Bound, Connected, Numbered, TypeOK, NetType, Ep, Race
<1>26. CASE Extract
  BY <1>26, <1>b, <1>c, <1>d, CommandAssumption
  DEF Extract, netVars, localVars, Return, Bound, Connected, Numbered, TypeOK, NetType, Ep,
      Race
<1>27. CASE CancelBar
  BY <1>27, <1>b, <1>c, <1>d, CommandAssumption
  DEF CancelBar, netVars, Deferred, Bound, Connected, Numbered, TypeOK, NetType, Ep, Race
<1>28. CASE WaitBar
  BY <1>28, <1>b, <1>c, <1>d, CommandAssumption
  DEF WaitBar, netVars, localVars, Deferred, Bound, Connected, Numbered, TypeOK, NetType,
      Ep, Race
<1>29. CASE CloseStore
  BY <1>29, <1>b, <1>c, <1>d, CommandAssumption
  DEF CloseStore, netVars, Deferred, Bound, Connected, Numbered, TypeOK, NetType, Ep, Race
<1>30. CASE Exit
  BY <1>30, <1>b, <1>c, <1>d, CommandAssumption
  DEF Exit, netVars, localVars, Bound, Connected, Numbered, TypeOK, NetType, Ep, Race
<1>31. CASE WorkerEnds
  BY <1>31, <1>b, <1>c, <1>d, CommandAssumption
  DEF WorkerEnds, netVars, Bound, Connected, Numbered, TypeOK, NetType, Ep, Race
<1>32. CASE BarEnds
  BY <1>32, <1>b, <1>c, <1>d, CommandAssumption
  DEF BarEnds, netVars, Bound, Connected, Numbered, TypeOK, NetType, Ep, Race
<1>33. CASE ExporterReads
  BY <1>33, <1>b, <1>c, <1>d, CommandAssumption
  DEF ExporterReads, netVars, Bound, Connected, Numbered, TypeOK, NetType, Ep, Race
<1>34. CASE Exited
  BY <1>34, <1>b, <1>c, <1>d, CommandAssumption
  DEF Exited, vars, netVars, localVars, Bound, Connected, Numbered, TypeOK, NetType, Ep,
      Race
<1>35. CASE UNCHANGED vars
  BY <1>35, <1>b, <1>c, <1>d, Order, CommandAssumption
  DEF vars, netVars, localVars, Advance, Return, Deferred, Bound, Connected, Numbered,
      Ordered, TypeOK, NetType, Ep, Race, Launch
<1> QED
  BY <1>1, <1>2, <1>3, <1>4, <1>5, <1>6, <1>7, <1>8, <1>9, <1>10, <1>11, <1>12, <1>13,
     <1>14, <1>15, <1>16, <1>17, <1>18, <1>19, <1>20, <1>21, <1>22, <1>23, <1>24, <1>25,
     <1>26, <1>27, <1>28, <1>29, <1>30, <1>31, <1>32, <1>33, <1>34, <1>35
  DEF Next, Main

\* Connections are open on bound endpoints.
LEMMA OpenBoundStep ==
  ASSUME TypeOK, Numbered, Connected, Bound, OpenBound, [Next]_vars
  PROVE  OpenBound'
<1>d. NetType' /\ Numbered'
  BY NetStep, NumberedStep
<1>1. CASE Bind
  BY <1>1, <1>d, CommandAssumption
  DEF Bind, localVars, OpenBound, Bound, Numbered, Connected, NothingLeaks, TypeOK,
      NetType, Ep, Race, Dial, Launch
<1>2. CASE BindExtra
  <2>1. \A d \in Dial : dial'[d] = "conn" => dial[d] = "conn"
    BY <1>2 DEF BindExtra, Launch
  <2>2. \A d \in Dial : dial[d] = "conn" => d[1][1] # extra + 1
    BY DEF Numbered, TypeOK, Ep, Dial, Race
  <2> QED BY <1>2, <2>1, <2>2 DEF BindExtra, OpenBound
<1>3. CASE Win
  BY <1>3, <1>d, CommandAssumption
  DEF Win, localVars, OpenBound, Bound, Numbered, Connected, NothingLeaks, TypeOK, NetType,
      Ep, Race, Dial, Receive, Results
<1>4. CASE NoteError
  BY <1>4, <1>d, CommandAssumption
  DEF NoteError, localVars, OpenBound, Bound, Numbered, Connected, NothingLeaks, TypeOK,
      NetType, Ep, Race, Dial, Receive, Results
<1>5. CASE FallBack
  BY <1>5, <1>d, CommandAssumption
  DEF FallBack, localVars, OpenBound, Bound, Numbered, Connected, NothingLeaks, TypeOK,
      NetType, Ep, Race, Dial, Launch
<1>6. CASE GiveUp
  BY <1>6, <1>d, CommandAssumption
  DEF GiveUp, localVars, OpenBound, Bound, Numbered, Connected, NothingLeaks, TypeOK,
      NetType, Ep, Race, Dial
<1>7. CASE AttachFails
  BY <1>7, <1>d, CommandAssumption
  DEF AttachFails, localVars, OpenBound, Bound, Numbered, Connected, NothingLeaks, TypeOK,
      NetType, Ep, Race, Dial
<1>8. CASE Attach
  BY <1>8, <1>d, CommandAssumption
  DEF Attach, localVars, OpenBound, Bound, Numbered, Connected, NothingLeaks, TypeOK,
      NetType, Ep, Race, Dial
<1>9. CASE SendersReturn
  <2>1. \A d \in Dial : dial[d] = "conn" => d \notin Closed
    BY DEF Closed, Connected, Numbered, TypeOK
  <2> QED BY <1>9, <2>1 DEF SendersReturn, OpenBound
<1>10. CASE CloseStreams
  <2>1. \A d \in Dial : dial[d] = "conn" => d \notin Closed
    BY DEF Closed, Connected, Numbered, TypeOK
  <2> QED BY <1>10, <2>1 DEF CloseStreams, OpenBound
<1>11. CASE CloseConn
  BY <1>11, <1>d, CommandAssumption
  DEF CloseConn, localVars, OpenBound, Bound, Numbered, Connected, NothingLeaks, TypeOK,
      NetType, Ep, Race, Dial
<1>12. ASSUME NEW d \in Dial, ConnectReturns(d)
     PROVE  OpenBound'
  BY <1>12, <1>d, CommandAssumption
  DEF ConnectReturns, localVars, OpenBound, Bound, Numbered, Connected, NothingLeaks,
      TypeOK, NetType, Ep, Race, Dial
<1>13. ASSUME NEW r \in Race, Collect(r)
     PROVE  OpenBound'
  BY <1>13, <1>d, CommandAssumption
  DEF Collect, localVars, OpenBound, Bound, Numbered, Connected, NothingLeaks, TypeOK,
      NetType, Ep, Race, Dial, Receive, Results
<1>14. CASE OpenStore \/ StartBar \/ Pass \/ Abort \/ StartTransfer \/ Join \/ CloseStoreNow
          \/ CancelBarNow \/ WaitBarNow \/ PrintResult \/ StartExport \/ Extract
          \/ ExtrasOver \/ CancelBar \/ WaitBar \/ CloseStore \/ Exit \/ WorkerEnds
          \/ BarEnds \/ ExporterReads \/ Exited \/ UNCHANGED vars
  <2>1. UNCHANGED netVars
    BY <1>14
    DEF OpenStore, StartBar, Pass, Abort, StartTransfer, Join, CloseStoreNow, CancelBarNow,
        WaitBarNow, PrintResult, StartExport, Extract, ExtrasOver, CancelBar, WaitBar,
        CloseStore, Exit, WorkerEnds, BarEnds, ExporterReads, Exited, vars, netVars,
        localVars
  <2> QED BY <2>1 DEF OpenBound, netVars
<1> QED
  BY <1>1, <1>2, <1>3, <1>4, <1>5, <1>6, <1>7, <1>8, <1>9, <1>10, <1>11, <1>12, <1>13, <1>14
  DEF Next, Main

\* Connections with a stream are open, and the others are still to be received.
Used ==
  /\ \A e \in InUse : winner[e] \in open
  /\ \A d \in open : dial[d] = "conn" \/ \E e \in InUse : winner[e] = d

\* Who is in use.
LEMMA Users ==
  ASSUME TypeOK, Numbered, Connected
  PROVE  /\ InUse \subseteq Ep /\ attached \subseteq InUse
         /\ \A e \in InUse : winner[e] \in Dial /\ winner[e][1][1] = e /\ dial[winner[e]] = "won"
         /\ pc = "race" => race[1] = extra /\ winner[extra] = NoDial /\ extra \notin InUse
<1>0. race[1] \in Ep
  BY DEF TypeOK, Race
<1>1. InUse \subseteq Ep /\ attached \subseteq InUse
  BY <1>0 DEF InUse, TypeOK
<1>2. \A e \in InUse : winner[e] # NoDial
  BY DEF InUse, Connected, Numbered
<1>3. pc = "race" => race[1] = extra /\ winner[extra] = NoDial
  BY DEF Numbered
<1> QED
  BY <1>1, <1>2, <1>3, CommandAssumption DEF TypeOK, Numbered

\* A winner is closed only by who used it, a loser by who receives it.
LEMMA UsedStep ==
  ASSUME TypeOK, Numbered, Connected, Bound, OpenBound, StreamsFirst, Used, [Next]_vars
  PROVE  Used'
<1>a. /\ InUse \subseteq Ep /\ attached \subseteq InUse
      /\ \A e \in InUse : winner[e] \in Dial /\ winner[e][1][1] = e /\ dial[winner[e]] = "won"
      /\ pc = "race" => race[1] = extra /\ winner[extra] = NoDial /\ extra \notin InUse
  BY Users
<1>b. \A d \in open : d \in Dial /\ (dial[d] = "conn" \/ dial[d] = "won")
  BY <1>a DEF Used, TypeOK
<1>1. CASE Bind
  <2>1. kept = {} /\ attached = {} /\ open = {}
    BY <1>1 DEF Bind, Numbered, OpenBound
  <2>2. pc' = "race"
    BY <1>1, Order DEF Bind, Ordered, Advance
  <2> QED BY <1>1, <2>1, <2>2 DEF Bind, Used, InUse
<1>2. CASE BindExtra
  <2>1. InUse' = InUse /\ UNCHANGED <<winner, open>>
    BY <1>2 DEF BindExtra, InUse
  <2>2. \A d \in Dial : dial[d] = "conn" => dial'[d] = "conn"
    <3>1. \A d \in Dial : dial[d] = "conn" => d[1][1] # extra + 1
      BY DEF Numbered, TypeOK, Ep, Dial, Race
    <3>2. PICK cands : dial' = [d \in Dial |-> IF d \in {<<extra + 1, 1>>} \X cands THEN "dialing" ELSE dial[d]]
      BY <1>2 DEF BindExtra, Launch
    <3>3. \A d \in {<<extra + 1, 1>>} \X cands : d[1][1] = extra + 1
      OBVIOUS
    <3> QED BY <3>1, <3>2, <3>3
  <2> QED BY <1>b, <2>1, <2>2 DEF Used
<1>3. CASE Win
  <2>1. PICK d \in Dial : /\ dial[d] = "conn" /\ d[1] = race /\ dial' = [dial EXCEPT ![d] = "won"]
                          /\ winner' = [winner EXCEPT ![race[1]] = d]
    BY <1>3 DEF Win, Results, Receive
  <2>2. UNCHANGED open /\ race[1] = extra /\ extra \notin InUse /\ extra \in Ep
    BY <1>3, <1>a DEF Win, TypeOK
  <2>3. d \in open
    BY <1>3, <2>1 DEF Win, Bound, OpenBound
  <2>4. InUse' = InUse \cup {extra}
    <3>1. CASE race[1] = 0
      <4>1. pc' # "attach"
        BY <1>3, <3>1, Order DEF Win, Advance, Ordered
      <4> QED BY <1>3, <2>2, <3>1, <4>1 DEF Win, InUse
    <3>2. CASE race[1] # 0
      BY <1>3, <2>2, <3>2 DEF Win, InUse
    <3> QED BY <3>1, <3>2
  <2>5. \A e \in InUse : winner'[e] = winner[e]
    BY <1>a, <2>1, <2>2 DEF TypeOK
  <2>6. winner'[extra] = d
    BY <2>1, <2>2 DEF TypeOK
  <2>7. \A c \in Dial : c # d => dial'[c] = dial[c]
    BY <2>1 DEF TypeOK
  <2> QED BY <1>b, <2>2, <2>3, <2>4, <2>5, <2>6, <2>7 DEF Used
<1>4. CASE NoteError
  <2>1. InUse' = InUse /\ UNCHANGED <<winner, open>>
    BY <1>4 DEF NoteError, InUse
  <2>2. \A d \in Dial : dial[d] = "conn" => dial'[d] = "conn"
    BY <1>4 DEF NoteError, Receive, Results, TypeOK
  <2> QED BY <1>b, <2>1, <2>2 DEF Used
<1>5. CASE FallBack
  <2>1. InUse' = InUse /\ UNCHANGED <<winner, open>>
    BY <1>5 DEF FallBack, InUse
  <2>2. \A d \in Dial : dial[d] = "conn" => dial'[d] = "conn"
    BY <1>5 DEF FallBack, Launch, Numbered
  <2> QED BY <1>b, <2>1, <2>2 DEF Used
<1>6. CASE GiveUp
  <2>1. InUse' = InUse /\ UNCHANGED <<winner, dial>>
    BY <1>6 DEF GiveUp, InUse, Return
  <2>2. open' = {d \in open : d[1][1] # extra}
    BY <1>6, <1>a DEF GiveUp
  <2> QED BY <1>6, <1>a, <2>1, <2>2 DEF Used, GiveUp
<1>7. CASE AttachFails
  <2>1. InUse' = InUse \ {extra} /\ extra \in InUse /\ UNCHANGED <<winner, dial>>
    BY <1>7 DEF AttachFails, InUse, Numbered
  <2>2. open' = open \ {winner[extra]}
    BY <1>7 DEF AttachFails, Numbered
  <2> QED BY <1>a, <2>1, <2>2 DEF Used
<1>8. CASE Attach
  <2>1. InUse' = InUse /\ UNCHANGED <<winner, dial, open>>
    BY <1>8 DEF Attach, InUse
  <2> QED BY <2>1 DEF Used
<1>9. CASE SendersReturn
  <2>1. UNCHANGED <<winner, dial, kept>> /\ open' = open \ Closed /\ attached' = {} /\ pc # "attach"
    BY <1>9 DEF SendersReturn
  <2>2. pc' # "attach"
    BY <1>9, Order DEF SendersReturn, Return, Advance, Ordered
  <2>3. InUse' = InUse \ attached
    BY <2>1, <2>2 DEF InUse, Numbered
  <2> QED BY <1>a, <2>1, <2>3 DEF Used, Closed
<1>10. CASE CloseStreams
  <2>1. UNCHANGED <<winner, dial, kept>> /\ open' = open \ Closed /\ attached' = {} /\ pc # "attach"
    BY <1>10 DEF CloseStreams, Deferred
  <2>2. pc' # "attach"
    BY <1>10 DEF CloseStreams, Deferred
  <2>3. InUse' = InUse \ attached
    BY <2>1, <2>2 DEF InUse, Numbered
  <2> QED BY <1>a, <2>1, <2>3 DEF Used, Closed
<1>11. CASE CloseConn
  <2>1. attached = {} /\ pc = "unwind" /\ pc' = "unwind"
    <3>1. pc = "unwind" /\ pc' = "unwind" /\ deferred[1] = "closeConn"
      BY <1>11, Popped DEF CloseConn, TypeOK
    <3> QED BY <3>1 DEF StreamsFirst, On
  <2>2. InUse \subseteq kept /\ InUse' = {}
    BY <1>11, <2>1 DEF CloseConn, InUse
  <2> QED BY <1>11, <1>a, <2>2 DEF CloseConn, Used
<1>12. ASSUME NEW d \in Dial, ConnectReturns(d)
     PROVE  Used'
  <2>1. InUse' = InUse /\ UNCHANGED winner
    BY <1>12 DEF ConnectReturns, InUse
  <2>2. open \subseteq open' /\ \A c \in open' \ open : dial'[c] = "conn"
    BY <1>12 DEF ConnectReturns, TypeOK
  <2>3. \A c \in Dial : dial[c] = "conn" => dial'[c] = "conn"
    BY <1>12 DEF ConnectReturns, TypeOK
  <2> QED BY <1>b, <2>1, <2>2, <2>3 DEF Used
<1>13. ASSUME NEW r \in Race, Collect(r)
     PROVE  Used'
  <2>1. InUse' = InUse /\ UNCHANGED winner
    BY <1>13 DEF Collect, InUse
  <2>2. PICK d \in Results(r) : dial' = [dial EXCEPT ![d] = "collected"] /\ open' = open \ {d}
    BY <1>13 DEF Collect, Receive
  <2>3. dial[d] # "won" /\ \A c \in Dial : c # d => dial'[c] = dial[c]
    BY <2>2 DEF Results, TypeOK
  <2> QED BY <1>a, <1>b, <2>1, <2>2, <2>3 DEF Used
<1>14. CASE OpenStore
  <2>1. UNCHANGED netVars /\ pc # "attach" /\ pc' # "attach"
    BY <1>14, Order DEF OpenStore, netVars, Advance, Ordered, TypeOK
  <2> QED BY <2>1 DEF Used, InUse, netVars
<1>15. CASE StartBar
  <2>1. UNCHANGED netVars /\ pc # "attach" /\ pc' # "attach"
    BY <1>15, Order DEF StartBar, netVars, Advance, Ordered, TypeOK
  <2> QED BY <2>1 DEF Used, InUse, netVars
<1>16. CASE Pass
  <2>1. UNCHANGED netVars /\ pc # "attach" /\ pc' # "attach"
    BY <1>16, Order DEF Pass, netVars, Advance, Ordered, TypeOK
  <2> QED BY <2>1 DEF Used, InUse, netVars
<1>17. CASE Abort
  <2>1. UNCHANGED netVars /\ pc # "attach" /\ pc' # "attach"
    BY <1>17 DEF Abort, netVars, Return, TypeOK
  <2> QED BY <2>1 DEF Used, InUse, netVars
<1>18. CASE StartTransfer
  <2>1. UNCHANGED netVars /\ pc # "attach" /\ pc' # "attach"
    BY <1>18, Order DEF StartTransfer, netVars, Advance, Ordered, TypeOK
  <2> QED BY <2>1 DEF Used, InUse, netVars
<1>19. CASE Join
  <2>1. UNCHANGED netVars /\ pc # "attach" /\ pc' # "attach"
    BY <1>19, Order DEF Join, netVars, Advance, Return, Ordered, TypeOK
  <2> QED BY <2>1 DEF Used, InUse, netVars
<1>20. CASE CloseStoreNow
  <2>1. UNCHANGED netVars /\ pc # "attach" /\ pc' # "attach"
    BY <1>20, Order DEF CloseStoreNow, netVars, Advance, Return, Ordered, TypeOK
  <2> QED BY <2>1 DEF Used, InUse, netVars
<1>21. CASE CancelBarNow
  <2>1. UNCHANGED netVars /\ pc # "attach" /\ pc' # "attach"
    BY <1>21, Order DEF CancelBarNow, netVars, Advance, Ordered, TypeOK
  <2> QED BY <2>1 DEF Used, InUse, netVars
<1>22. CASE WaitBarNow
  <2>1. UNCHANGED netVars /\ pc # "attach" /\ pc' # "attach"
    BY <1>22, Order DEF WaitBarNow, netVars, Advance, Ordered, TypeOK
  <2> QED BY <2>1 DEF Used, InUse, netVars
<1>23. CASE StartExport
  <2>1. UNCHANGED netVars /\ pc # "attach" /\ pc' # "attach"
    BY <1>23, Order DEF StartExport, netVars, Advance, Ordered, TypeOK
  <2> QED BY <2>1 DEF Used, InUse, netVars
<1>24. CASE ExtrasOver
  <2>1. UNCHANGED netVars /\ pc # "attach" /\ pc' # "attach"
    BY <1>24, Order DEF ExtrasOver, netVars, Advance, Ordered, TypeOK
  <2> QED BY <2>1 DEF Used, InUse, netVars
<1>25. CASE PrintResult \/ Extract \/ CancelBar \/ WaitBar \/ CloseStore \/ Exit
          \/ WorkerEnds \/ BarEnds \/ ExporterReads \/ Exited \/ UNCHANGED vars
  <2>1. UNCHANGED netVars /\ (pc' = "attach" <=> pc = "attach")
    BY <1>25
    DEF PrintResult, Extract, CancelBar, WaitBar, CloseStore, Exit, WorkerEnds, BarEnds,
        ExporterReads, Exited, vars, netVars, localVars, Return, Deferred
  <2> QED BY <2>1 DEF Used, InUse, netVars
<1> QED
  BY <1>1, <1>2, <1>3, <1>4, <1>5, <1>6, <1>7, <1>8, <1>9, <1>10, <1>11, <1>12, <1>13,
     <1>14, <1>15, <1>16, <1>17, <1>18, <1>19, <1>20, <1>21, <1>22, <1>23, <1>24, <1>25
  DEF Next, Main

-----------------------------------------------------------------------------
(* The results of the races                                                  *)

Counted == await \in [Race -> 0..Cardinality(Cand)] /\ Balance

\* The counts of results are counts of finite sets.
LEMMA Finite ==
  /\ IsFiniteSet(Dial) /\ Cardinality(Cand) \in Nat \ {0}
  /\ \A r : IsFiniteSet(Pending(r))
<1>1. IsFiniteSet(Ep) /\ IsFiniteSet({1, 2}) /\ IsFiniteSet(Cand) /\ IsFiniteSet(Cand \cup {Port})
  <2>1. IsFiniteSet(0..Extras)
    BY FS_Interval, CommandAssumption
  <2>2. IsFiniteSet({1, 2})
    <3>1. IsFiniteSet({1}) /\ {1, 2} = {1} \cup {2}
      BY FS_Singleton
    <3> QED BY <3>1, FS_AddElement
  <2>3. IsFiniteSet(Cand \cup {Port})
    BY FS_AddElement, CommandAssumption
  <2> QED BY <2>1, <2>2, <2>3, CommandAssumption DEF Ep
<1>2. IsFiniteSet(Race)
  BY <1>1, FS_Product DEF Race
<1>3. IsFiniteSet(Dial)
  BY <1>1, <1>2, FS_Product DEF Dial
<1>4. \A r : Pending(r) \in SUBSET Dial
  BY DEF Pending
<1>5. \A r : IsFiniteSet(Pending(r))
  BY <1>3, <1>4, FS_Subset
<1>6. Cardinality(Cand) \in Nat /\ Cardinality(Cand) # 0
  BY <1>1, FS_CardinalityType, FS_EmptySet, CommandAssumption
<1> QED
  BY <1>3, <1>5, <1>6

\* A race is waited for once per candidate.
LEMMA Launched ==
  ASSUME TypeOK, Counted, NEW r \in Race, NEW cands \in SUBSET (Cand \cup {Port}),
         IsFiniteSet(cands), Cardinality(cands) \in 0..Cardinality(Cand),
         \A d \in Dial : d[1] = r => dial[d] = "idle", Launch(r, cands)
  PROVE  Counted'
<1>1. /\ dial' = [d \in Dial |-> IF d \in {r} \X cands THEN "dialing" ELSE dial[d]]
      /\ await' = [await EXCEPT ![r] = Cardinality(cands)]
  BY DEF Launch
<1>2. Pending(r)' = {r} \X cands
  <2>1. \A d \in Dial : d \in Pending(r)' <=> d \in {r} \X cands
    BY <1>1 DEF Pending
  <2>2. {r} \X cands \subseteq Dial /\ Pending(r)' \subseteq Dial
    BY DEF Dial, Pending
  <2> QED BY <2>1, <2>2
<1>3. \A q \in Race : q # r => Pending(q)' = Pending(q)
  BY <1>1 DEF Pending
<1>4. Cardinality({r} \X cands) = Cardinality(cands)
  <2>1. IsFiniteSet({r}) /\ Cardinality({r}) = 1
    BY FS_Singleton
  <2>2. Cardinality({r} \X cands) = 1 * Cardinality(cands)
    BY <2>1, FS_Product
  <2> QED BY <2>2, Finite
<1>5. await' \in [Race -> 0..Cardinality(Cand)]
  BY <1>1 DEF Counted
<1>6. ASSUME NEW q \in Race
      PROVE  await'[q] = Cardinality(Pending(q)')
  <2>1. CASE q = r
    BY <1>1, <1>2, <1>4, <2>1 DEF Counted
  <2>2. CASE q # r
    BY <1>1, <1>3, <2>2 DEF Counted, Balance
  <2> QED BY <2>1, <2>2
<1> QED
  BY <1>5, <1>6 DEF Counted, Balance

\* A result that is received is no longer waited for.
LEMMA Taken ==
  ASSUME TypeOK, Counted, NEW d \in Dial, dial[d] \in {"conn", "err"},
         NEW as \in {"won", "lost", "collected"}, dial' = [dial EXCEPT ![d] = as],
         await' = [await EXCEPT ![d[1]] = await[d[1]] - 1]
  PROVE  Counted'
<1>1. d[1] \in Race
  BY DEF Dial
<1>2. Pending(d[1])' = Pending(d[1]) \ {d} /\ d \in Pending(d[1])
  BY DEF Pending, TypeOK
<1>3. \A q \in Race : q # d[1] => Pending(q)' = Pending(q)
  BY DEF Pending, TypeOK
<1>4. Cardinality(Pending(d[1])') = Cardinality(Pending(d[1])) - 1
  <2>1. IsFiniteSet(Pending(d[1]))
    BY Finite
  <2> QED BY <1>2, <2>1, FS_RemoveElement
<1>5. Cardinality(Pending(d[1])) \in Nat \ {0}
  BY <1>2, Finite, FS_CardinalityType, FS_EmptySet
<1>6. await'[d[1]] = Cardinality(Pending(d[1])') /\ await'[d[1]] \in 0..Cardinality(Cand)
  BY <1>1, <1>4, <1>5, Finite DEF Counted, Balance
<1>7. await' \in [Race -> 0..Cardinality(Cand)]
  BY <1>1, <1>6 DEF Counted
<1>8. \A q \in Race : await'[q] = Cardinality(Pending(q)')
  BY <1>1, <1>3, <1>6 DEF Counted, Balance
<1> QED
  BY <1>7, <1>8 DEF Counted, Balance

\* No result is lost and none is waited for in vain.
LEMMA CountedStep ==
  ASSUME TypeOK, Numbered, Counted, [Next]_vars
  PROVE  Counted'
<1>1. CASE Bind
  <2>1. Launch(<<0, 1>>, Cand) /\ <<0, 1>> \in Race
    BY <1>1, CommandAssumption DEF Bind, Race, Ep
  <2>2. \A d \in Dial : dial[d] = "idle"
    BY <1>1 DEF Bind, Numbered
  <2>3. Cand \in SUBSET (Cand \cup {Port}) /\ IsFiniteSet(Cand) /\ Cardinality(Cand) \in 0..Cardinality(Cand)
    BY Finite, CommandAssumption
  <2> QED BY <2>1, <2>2, <2>3, Launched
<1>2. CASE BindExtra
  <2>1. PICK cands \in {Cand, {Port}} : Launch(<<extra', 1>>, cands)
    BY <1>2 DEF BindExtra
  <2>2. extra' = extra + 1 /\ <<extra', 1>> \in Race
    BY <1>2, CommandAssumption DEF BindExtra, TypeOK, Race, Ep
  <2>3. \A d \in Dial : dial[d] # "idle" => d[1][1] # extra + 1
    BY DEF Numbered, TypeOK, Ep, Dial, Race
  <2>4. \A d \in Dial : d[1] = <<extra', 1>> => dial[d] = "idle"
    BY <2>2, <2>3
  <2>5. /\ cands \in SUBSET (Cand \cup {Port}) /\ IsFiniteSet(cands)
        /\ Cardinality(cands) \in 0..Cardinality(Cand)
    <3>1. CASE cands = Cand
      BY <3>1, Finite, CommandAssumption
    <3>2. CASE cands = {Port}
      <4>1. IsFiniteSet({Port}) /\ Cardinality({Port}) = 1
        BY FS_Singleton
      <4> QED BY <3>2, <4>1, Finite
    <3> QED BY <2>1, <3>1, <3>2
  <2> DEFINE r == <<extra', 1>>
  <2>6. r \in Race /\ Launch(r, cands) /\ \A d \in Dial : d[1] = r => dial[d] = "idle"
    BY <2>1, <2>2, <2>4
  <2> HIDE DEF r
  <2> QED BY <2>5, <2>6, Launched
<1>3. CASE FallBack
  <2> DEFINE r == <<race[1], 2>>
  <2>1. Launch(r, Cand) /\ r \in Race
    BY <1>3 DEF FallBack, Race, TypeOK
  <2>2. \A d \in Dial : d[1] = r => dial[d] = "idle"
    BY <1>3 DEF FallBack, Numbered
  <2>3. Cand \in SUBSET (Cand \cup {Port}) /\ IsFiniteSet(Cand) /\ Cardinality(Cand) \in 0..Cardinality(Cand)
    BY Finite, CommandAssumption
  <2> HIDE DEF r
  <2> QED BY <2>1, <2>2, <2>3, Launched
<1>4. CASE Win
  <2>1. PICK d \in Dial : d[1] = race /\ dial[d] = "conn" /\ dial' = [dial EXCEPT ![d] = "won"]
    BY <1>4 DEF Win, Results, Receive
  <2>2. await' = [await EXCEPT ![d[1]] = await[d[1]] - 1]
    BY <1>4, <2>1 DEF Win, Losers
  <2> QED BY <2>1, <2>2, Taken
<1>5. CASE NoteError
  <2>1. PICK d \in Dial : d[1] = race /\ dial[d] = "err" /\ dial' = [dial EXCEPT ![d] = "lost"]
    BY <1>5 DEF NoteError, Results, Receive
  <2>2. await' = [await EXCEPT ![d[1]] = await[d[1]] - 1]
    BY <1>5, <2>1 DEF NoteError
  <2> QED BY <2>1, <2>2, Taken
<1>6. ASSUME NEW r \in Race, Collect(r)
     PROVE  Counted'
  <2>1. PICK d \in Dial : /\ d[1] = r /\ dial[d] \in {"conn", "err"}
                          /\ dial' = [dial EXCEPT ![d] = "collected"]
    BY <1>6 DEF Collect, Results, Receive
  <2>2. await' = [await EXCEPT ![d[1]] = await[d[1]] - 1]
    BY <1>6, <2>1 DEF Collect
  <2> QED BY <2>1, <2>2, Taken
<1>7. ASSUME NEW d \in Dial, ConnectReturns(d)
     PROVE  Counted'
  <2>1. \A r : Pending(r)' = Pending(r)
    BY <1>7 DEF ConnectReturns, Pending, TypeOK
  <2> QED BY <1>7, <2>1 DEF ConnectReturns, Counted, Balance
<1>8. CASE OpenStore \/ StartBar \/ Pass \/ Abort \/ StartTransfer \/ Join \/ CloseStoreNow
          \/ CancelBarNow \/ WaitBarNow \/ PrintResult \/ StartExport \/ Extract \/ GiveUp
          \/ AttachFails \/ Attach \/ ExtrasOver \/ SendersReturn \/ CloseStreams
          \/ CancelBar \/ WaitBar \/ CloseConn \/ CloseStore \/ Exit \/ WorkerEnds \/ BarEnds
          \/ ExporterReads \/ Exited \/ UNCHANGED vars
  <2>1. UNCHANGED <<dial, await>>
    BY <1>8
    DEF OpenStore, StartBar, Pass, Abort, StartTransfer, Join, CloseStoreNow, CancelBarNow,
        WaitBarNow, PrintResult, StartExport, Extract, GiveUp, AttachFails, Attach,
        ExtrasOver, SendersReturn, CloseStreams, CancelBar, WaitBar, CloseConn, CloseStore,
        Exit, WorkerEnds, BarEnds, ExporterReads, Exited, vars, netVars, localVars
  <2>2. \A r : Pending(r)' = Pending(r)
    BY <2>1 DEF Pending
  <2> QED BY <2>1, <2>2 DEF Counted, Balance
<1> QED
  BY <1>1, <1>2, <1>3, <1>4, <1>5, <1>6, <1>7, <1>8 DEF Next, Main

\* A race that is over has a winner, or nothing to come.
LEMMA RacedStep ==
  ASSUME TypeOK, Numbered, Counted, Raced, [Next]_vars
  PROVE  Raced'
<1>a. Counted' /\ NetType' /\ NoDial \notin Dial
  BY CountedStep, NetStep, CommandAssumption
<1>b. \A r \in Race : await[r] > 0 => \E d \in Dial : d[1] = r /\ dial[d] \in {"dialing", "conn", "err"}
  <2>1. \A r \in Race : await[r] > 0 => Pending(r) # {}
    <3>1. Cardinality({}) = 0
      BY FS_EmptySet
    <3> QED BY <3>1 DEF Counted, Balance
  <2> QED BY <2>1 DEF Pending
<1>1. CASE Bind
  <2>1. /\ await' = [await EXCEPT ![<<0, 1>>] = Cardinality(Cand)] /\ race' = <<0, 1>>
        /\ dial' = [d \in Dial |-> IF d \in {<<0, 1>>} \X Cand THEN "dialing" ELSE dial[d]]
    BY <1>1 DEF Bind, Launch
  <2>2. \A r \in Race : ~(await[r] > 0)
    BY <1>1, <1>b DEF Bind, Numbered
  <2>3. pc' = "race"
    BY <1>1, Order DEF Bind, Advance, Ordered
  <2>4. \A r \in Race : r # <<0, 1>> => await'[r] = await[r]
    BY <2>1 DEF Counted
  <2>5. \A d \in Dial : dial'[d] \notin {"won", "collected"}
    BY <1>1, <2>1 DEF Bind, Numbered
  <2> QED BY <2>1, <2>2, <2>3, <2>4, <2>5 DEF Raced
<1>2. CASE BindExtra
  <2> DEFINE q == <<extra + 1, 1>>
  <2>1. PICK cands : /\ await' = [await EXCEPT ![q] = Cardinality(cands)] /\ race' = q
                     /\ dial' = [d \in Dial |-> IF d \in {q} \X cands THEN "dialing" ELSE dial[d]]
    <3>1. PICK cands \in {Cand, {Port}} : Launch(<<extra', 1>>, cands) /\ extra' = extra + 1
      BY <1>2 DEF BindExtra
    <3>2. <<extra', 1>> = q
      BY <3>1
    <3> QED BY <3>1, <3>2 DEF Launch
  <2>2. pc' = "race" /\ UNCHANGED winner /\ (pc = "race" => await[race] = 0)
    BY <1>2 DEF BindExtra
  <2> HIDE DEF q
  <2>3. \A r \in Race : r # q => await'[r] = await[r]
    BY <2>1 DEF Counted
  <2>4. \A d \in Dial : dial'[d] \in {"won", "collected"} => dial[d] = dial'[d]
    BY <2>1
  <2> QED BY <2>1, <2>2, <2>3, <2>4 DEF Raced
<1>3. CASE FallBack
  <2> DEFINE q == <<race[1], 2>>
  <2>1. PICK cands : /\ await' = [await EXCEPT ![q] = Cardinality(cands)] /\ race' = q
                     /\ dial' = [d \in Dial |-> IF d \in {q} \X cands THEN "dialing" ELSE dial[d]]
    BY <1>3 DEF FallBack, Launch
  <2>2. pc' = "race" /\ UNCHANGED winner /\ (pc = "race" => await[race] = 0)
    BY <1>3 DEF FallBack
  <2> HIDE DEF q
  <2>3. \A r \in Race : r # q => await'[r] = await[r]
    BY <2>1 DEF Counted
  <2>4. \A d \in Dial : dial'[d] \in {"won", "collected"} => dial[d] = dial'[d]
    BY <2>1
  <2> QED BY <2>1, <2>2, <2>3, <2>4 DEF Raced
<1>4. CASE Win
  <2>1. PICK d \in Dial : d[1] = race /\ winner' = [winner EXCEPT ![race[1]] = d] /\ dial' = [dial EXCEPT ![d] = "won"]
    BY <1>4 DEF Win, Results, Receive
  <2>2. race[1] \in Ep /\ race \in Race /\ await' = [await EXCEPT ![race] = await[race] - 1]
    BY <1>4 DEF Win, TypeOK, Race, Losers
  <2>3. \A e \in Ep : winner[e] # NoDial \/ e = race[1] => winner'[e] # NoDial
    BY <1>a, <2>1, <2>2 DEF TypeOK
  <2>4. \A r \in Race : r # race => await'[r] = await[r]
    BY <2>2 DEF Counted
  <2>5. \A r \in Race : r[1] \in Ep
    BY DEF Race
  <2>6. \A c \in Dial : c[1][1] \in Ep /\ (c # d => dial'[c] = dial[c])
    BY <2>1, <2>5 DEF Dial, TypeOK
  <2> QED BY <2>1, <2>2, <2>3, <2>4, <2>5, <2>6 DEF Raced
<1>5. CASE NoteError
  <2>1. PICK d \in Dial : dial' = [dial EXCEPT ![d] = "lost"]
    BY <1>5 DEF NoteError, Results, Receive
  <2>2. /\ await' = [await EXCEPT ![race] = await[race] - 1] /\ pc' = "race" /\ pc = "race"
        /\ UNCHANGED <<winner, race>>
    BY <1>5 DEF NoteError
  <2>3. \A r \in Race : r # race => await'[r] = await[r]
    BY <2>2 DEF Counted
  <2>4. \A c \in Dial : dial'[c] \in {"won", "collected"} => dial'[c] = dial[c]
    BY <2>1 DEF TypeOK
  <2> QED BY <2>2, <2>3, <2>4 DEF Raced
<1>6. CASE GiveUp
  <2>1. await[race] = 0 /\ UNCHANGED <<dial, await, winner>>
    BY <1>6 DEF GiveUp
  <2> QED BY <2>1 DEF Raced
<1>7. ASSUME NEW d \in Dial, ConnectReturns(d)
     PROVE  Raced'
  <2>1. UNCHANGED <<await, winner, race, pc>>
    BY <1>7 DEF ConnectReturns
  <2>2. \A c \in Dial : dial'[c] \in {"won", "collected"} => dial'[c] = dial[c]
    BY <1>7 DEF ConnectReturns, TypeOK
  <2> QED BY <2>1, <2>2 DEF Raced
<1>8. ASSUME NEW r \in Race, Collect(r)
     PROVE  Raced'
  <2>1. PICK d \in Dial : d[1] = r /\ dial' = [dial EXCEPT ![d] = "collected"]
    BY <1>8 DEF Collect, Results, Receive
  <2>2. await' = [await EXCEPT ![r] = await[r] - 1] /\ winner[r[1]] # NoDial /\ UNCHANGED <<winner, race, pc>>
    BY <1>8 DEF Collect, Raced
  <2>3. \A q \in Race : q # r => await'[q] = await[q]
    BY <2>2 DEF Counted
  <2>4. \A c \in Dial : c # d => dial'[c] = dial[c]
    BY <2>1 DEF TypeOK
  <2> QED BY <2>1, <2>2, <2>3, <2>4 DEF Raced
<1>9. CASE OpenStore \/ StartBar \/ Pass \/ Abort \/ StartTransfer \/ Join \/ CloseStoreNow
          \/ CancelBarNow \/ WaitBarNow \/ PrintResult \/ StartExport \/ Extract
          \/ AttachFails \/ Attach \/ ExtrasOver \/ SendersReturn \/ CloseStreams
          \/ CancelBar \/ WaitBar \/ CloseConn \/ CloseStore \/ Exit \/ WorkerEnds \/ BarEnds
          \/ ExporterReads \/ Exited \/ UNCHANGED vars
  <2>1. UNCHANGED <<dial, await, winner>> /\ (pc = "race" => pc' = "race" /\ UNCHANGED race)
    BY <1>9
    DEF OpenStore, StartBar, Pass, Abort, StartTransfer, Join, CloseStoreNow, CancelBarNow,
        WaitBarNow, PrintResult, StartExport, Extract, AttachFails, Attach, ExtrasOver,
        SendersReturn, CloseStreams, CancelBar, WaitBar, CloseConn, CloseStore, Exit,
        WorkerEnds, BarEnds, ExporterReads, Exited, vars, netVars, localVars, Advance,
        Return, Deferred
  <2> QED BY <2>1 DEF Raced
<1> QED
  BY <1>1, <1>2, <1>3, <1>4, <1>5, <1>6, <1>7, <1>8, <1>9 DEF Next, Main

\* Every candidate is dialed before an endpoint is given up.
LEMMA DialedStep ==
  ASSUME TypeOK, Numbered, Connected, Bound, Dialed, [Next]_vars
  PROVE  Dialed'
<1> DEFINE Tried(e) == \E d \in Dial : d[1][1] = e /\ dial[d] # "idle"
           All(e) == \A c \in Cand : \E n \in {1, 2} : dial[<<<<e, n>>, c>>] # "idle"
           GivenUp(e) == e \notin eps /\ winner[e] = NoDial /\ Tried(e)
<1>a. /\ \A d \in Dial : d[1] \in Race /\ d[1][1] \in Ep
      /\ \A e \in Ep, n \in {1, 2}, c \in Cand : <<<<e, n>>, c>> \in Dial
      /\ race[1] \in Ep /\ race[2] \in {1, 2} /\ race = <<race[1], race[2]>>
  BY DEF TypeOK, Dial, Race
<1>b. NetType'
  BY NetStep
<1>c. SUFFICES
        /\ pc' = "race" /\ (race'[1] = 0 \/ race'[2] = 2 \/ ~ports') =>
             \A c \in Cand : dial'[<<race', c>>] # "idle"
        /\ \A e \in Ep : GivenUp(e)' => All(e)'
  BY DEF Dialed
<1>d. \A e \in Ep : GivenUp(e) => All(e)
  BY DEF Dialed
<1>e. ASSUME \A d \in Dial : dial[d] # "idle" => dial'[d] # "idle",
             \A e \in Ep : GivenUp(e)' => GivenUp(e)
      PROVE  \A e \in Ep : GivenUp(e)' => All(e)'
  BY <1>a, <1>d, <1>e
<1>f. ASSUME NEW r \in Race, NEW cands \in SUBSET (Cand \cup {Port}), Launch(r, cands),
             r[1] \in eps', eps \subseteq eps', UNCHANGED winner
      PROVE  /\ race' = r
             /\ \A c \in cands : dial'[<<r, c>>] = "dialing"
             /\ \A e \in Ep : GivenUp(e)' => All(e)'
  <2>1. race' = r /\ dial' = [d \in Dial |-> IF d \in {r} \X cands THEN "dialing" ELSE dial[d]]
    BY <1>f DEF Launch
  <2>2. \A c \in cands : <<r, c>> \in Dial
    BY DEF Dial
  <2>3. \A d \in Dial : dial[d] # "idle" => dial'[d] # "idle"
    BY <2>1
  <2>4. \A d \in Dial : d[1][1] # r[1] => dial'[d] = dial[d]
    BY <2>1
  <2>5. \A e \in Ep : GivenUp(e)' => GivenUp(e)
    BY <1>f, <2>4
  <2> QED BY <1>e, <2>1, <2>2, <2>3, <2>5
<1>1. CASE Bind
  <2>1. <<0, 1>> \in Race /\ Launch(<<0, 1>>, Cand) /\ 0 \in eps' /\ UNCHANGED winner
    BY <1>1, CommandAssumption DEF Bind, Race, Ep
  <2>2. eps \subseteq eps'
    BY <1>1 DEF Bind, Numbered
  <2> QED BY <1>f, <2>1, <2>2
<1>2. CASE BindExtra
  <2> DEFINE r == <<extra', 1>>
  <2>1. PICK cands \in {Cand} \cup (IF ports THEN {{Port}} ELSE {}) : Launch(r, cands)
    BY <1>2 DEF BindExtra
  <2>2. r \in Race /\ r[1] = extra' /\ r[2] = 1 /\ extra' # 0
    BY <1>2, <1>b, CommandAssumption DEF BindExtra, TypeOK, NetType, Race, Ep
  <2>3. r[1] \in eps' /\ eps \subseteq eps' /\ UNCHANGED <<winner, ports>>
    BY <1>2, <2>2 DEF BindExtra
  <2>4. cands \in SUBSET (Cand \cup {Port}) /\ (~ports => cands = Cand)
    BY <2>1
  <2> HIDE DEF r
  <2>5. race' = r /\ (\A c \in cands : dial'[<<r, c>>] = "dialing")
    BY <1>f, <2>1, <2>2, <2>3, <2>4
  <2>6. \A e \in Ep : GivenUp(e)' => All(e)'
    BY <1>f, <2>1, <2>2, <2>3, <2>4
  <2> QED BY <2>2, <2>3, <2>4, <2>5, <2>6
<1>3. CASE FallBack
  <2> DEFINE r == <<race[1], 2>>
  <2>1. r \in Race /\ Launch(r, Cand) /\ r[1] = race[1]
    BY <1>3, <1>a DEF FallBack, Race
  <2>2. r[1] \in eps' /\ eps \subseteq eps' /\ UNCHANGED winner
    BY <1>3, <2>1 DEF FallBack, Bound
  <2> HIDE DEF r
  <2> QED BY <1>f, <2>1, <2>2
<1>4. CASE Win
  <2>1. PICK d \in Dial : /\ d[1] = race /\ dial' = [dial EXCEPT ![d] = "won"]
                          /\ winner' = [winner EXCEPT ![race[1]] = d]
    BY <1>4 DEF Win, Results, Receive
  <2>2. UNCHANGED <<eps, race, ports>> /\ pc' # "race"
    BY <1>4, <1>b, Order, Sharding DEF Win, Advance, Ordered, Numbered, TypeOK, Ep
  <2>3. /\ \A c \in Dial : c # d => dial'[c] = dial[c]
        /\ dial'[d] = "won" /\ winner'[d[1][1]] # NoDial
        /\ \A e \in Ep : winner'[e] = NoDial => winner[e] = NoDial
    BY <1>a, <2>1, CommandAssumption DEF TypeOK
  <2>4. \A e \in Ep : GivenUp(e)' => GivenUp(e)
    BY <2>2, <2>3
  <2> QED BY <1>e, <2>2, <2>3, <2>4
<1>5. CASE GiveUp
  <2>1. /\ pc = "race" /\ (race[1] = 0 \/ race[2] = 2 \/ ~ports) /\ pc' # "race"
        /\ eps' = eps \ {race[1]} /\ UNCHANGED <<dial, winner>>
    BY <1>5 DEF GiveUp, Return
  <2>2. All(race[1])
    BY <1>a, <2>1 DEF Dialed
  <2>3. \A e \in Ep : GivenUp(e)' => GivenUp(e) \/ e = race[1]
    BY <2>1
  <2> QED BY <1>d, <2>1, <2>2, <2>3
<1>6. CASE CloseConn
  <2>1. pc = "unwind" /\ pc' = pc /\ eps' = eps \ kept /\ UNCHANGED <<dial, winner>>
    BY <1>6 DEF CloseConn, Deferred
  <2>2. \A e \in Ep : GivenUp(e)' => GivenUp(e)
    BY <2>1 DEF Connected
  <2> QED BY <1>e, <2>1, <2>2
<1>7. ASSUME NEW d \in Dial, dial[d] # "idle", dial'[d] # "idle",
             \A c \in Dial : c # d => dial'[c] = dial[c],
             UNCHANGED <<pc, ports, race, eps, winner>>
      PROVE  Dialed'
  <2>1. \A e \in Ep : GivenUp(e)' => GivenUp(e)
    BY <1>7
  <2>2. \A c \in Dial : dial[c] # "idle" => dial'[c] # "idle"
    BY <1>7
  <2>3. pc = "race" /\ (race[1] = 0 \/ race[2] = 2 \/ ~ports) =>
          \A c \in Cand : dial'[<<race, c>>] # "idle"
    BY <1>a, <2>2 DEF Dialed
  <2> QED BY <1>7, <1>e, <2>1, <2>2, <2>3 DEF Dialed
<1>8. CASE NoteError
  <2>1. PICK d \in Dial : dial[d] = "err" /\ dial' = [dial EXCEPT ![d] = "lost"]
    BY <1>8 DEF NoteError, Results, Receive
  <2>2. UNCHANGED <<pc, ports, race, eps, winner>>
    BY <1>8 DEF NoteError
  <2> QED BY <1>7, <2>1, <2>2 DEF TypeOK, Dialed
<1>9. ASSUME NEW d \in Dial, ConnectReturns(d)
     PROVE  Dialed'
  BY <1>7, <1>9 DEF ConnectReturns, localVars, TypeOK
<1>10. ASSUME NEW r \in Race, Collect(r)
     PROVE  Dialed'
  <2>1. PICK d \in Dial : dial[d] \in {"conn", "err"} /\ dial' = [dial EXCEPT ![d] = "collected"]
    BY <1>10 DEF Collect, Results, Receive
  <2> QED BY <1>7, <1>10, <2>1 DEF Collect, TypeOK
<1>11. CASE OpenStore \/ StartBar \/ Pass \/ Abort \/ StartTransfer \/ Join \/ CloseStoreNow
          \/ CancelBarNow \/ WaitBarNow \/ PrintResult \/ StartExport \/ Extract
          \/ AttachFails \/ Attach \/ ExtrasOver \/ SendersReturn \/ CloseStreams
          \/ CancelBar \/ WaitBar \/ CloseStore \/ Exit \/ WorkerEnds \/ BarEnds
          \/ ExporterReads \/ Exited \/ UNCHANGED vars
  <2>1. UNCHANGED <<dial, winner, eps, ports>>
    BY <1>11
    DEF OpenStore, StartBar, Pass, Abort, StartTransfer, Join, CloseStoreNow, CancelBarNow,
        WaitBarNow, PrintResult, StartExport, Extract, AttachFails, Attach, ExtrasOver,
        SendersReturn, CloseStreams, CancelBar, WaitBar, CloseStore, Exit, WorkerEnds,
        BarEnds, ExporterReads, Exited, vars, netVars, localVars
  <2>2. pc' = "race" => pc = "race" /\ UNCHANGED race
    BY <1>11, Order
    DEF OpenStore, StartBar, Pass, Abort, StartTransfer, Join, CloseStoreNow, CancelBarNow,
        WaitBarNow, PrintResult, StartExport, Extract, AttachFails, Attach, ExtrasOver,
        SendersReturn, CloseStreams, CancelBar, WaitBar, CloseStore, Exit, WorkerEnds,
        BarEnds, ExporterReads, Exited, vars, netVars, localVars, Advance, Return,
        Deferred, Ordered
  <2> QED BY <1>d, <2>1, <2>2 DEF Dialed
<1> QED
  BY <1>1, <1>2, <1>3, <1>4, <1>5, <1>6, <1>8, <1>9, <1>10, <1>11 DEF Next, Main, Dialed

-----------------------------------------------------------------------------
(* The invariant                                                             *)

\* NothingLeaks, by what each part of it rests on.
LEMMA Leaks ==
  ASSUME TypeOK
  PROVE  /\ NothingLeaks => Used /\ Bound
         /\ Used /\ Bound /\ Place /\ StreamsFirst /\ Connected /\ OpenBound => NothingLeaks
<1>1. ASSUME NothingLeaks
      PROVE  Used /\ Bound
  BY <1>1 DEF NothingLeaks, Used, Bound, TypeOK
<1>2. ASSUME Used, Bound, Place, StreamsFirst, Connected, OpenBound
      PROVE  NothingLeaks
  <2>1. pc = "exited" => kept = {} /\ attached = {}
    BY <1>2 DEF Place, StreamsFirst, Connected, On
  <2>2. pc = "exited" => eps = {} /\ open = {}
    BY <1>2, <2>1 DEF Bound, OpenBound
  <2>3. open \ {winner[e] : e \in InUse} \subseteq {d \in Dial : dial[d] = "conn"}
    BY <1>2 DEF Used, TypeOK
  <2>4. {winner[e] : e \in InUse} \subseteq open
    BY <1>2 DEF Used
  <2> QED BY <1>2, <2>2, <2>3, <2>4 DEF NothingLeaks, Bound
<1> QED
  BY <1>1, <1>2

\* An endpoint is given up only when all its dials, one per candidate at least, failed.
LEMMA Lost ==
  ASSUME TypeOK, Numbered, Bound, Raced, Dialed, Balance
  PROVE  LostOnlyIfAllFail
<1>1. ASSUME NEW e \in Ep, e \notin eps, winner[e] = NoDial, NEW d \in Dial, d[1][1] = e
      PROVE  dial[d] \in {"idle", "lost"}
  <2>1. dial[d] \notin {"won", "collected"}
    BY <1>1 DEF Raced
  <2>2. ASSUME dial[d] \in {"dialing", "conn", "err"}
        PROVE  FALSE
    <3>1. d \in Pending(d[1]) /\ d[1] \in Race
      BY <2>2 DEF Pending, Dial
    <3>2. await[d[1]] > 0
      BY <3>1, Finite, FS_CardinalityType, FS_EmptySet DEF Balance
    <3>3. pc = "race" /\ race = d[1]
      BY <1>1, <3>1, <3>2 DEF Raced
    <3> QED BY <1>1, <3>3 DEF Bound
  <2> QED BY <2>1, <2>2 DEF TypeOK
<1>2. ASSUME NEW e \in Ep, e \notin eps, winner[e] = NoDial,
             \E d \in Dial : d[1][1] = e /\ dial[d] # "idle", NEW c \in Cand
      PROVE  \E n \in {1, 2} : dial[<<<<e, n>>, c>>] = "lost"
  <2>1. PICK n \in {1, 2} : dial[<<<<e, n>>, c>>] # "idle"
    BY <1>2 DEF Dialed
  <2>2. <<<<e, n>>, c>> \in Dial
    BY DEF Dial, Race
  <2>3. dial[<<<<e, n>>, c>>] \in {"idle", "lost"}
    BY <1>1, <1>2, <2>2
  <2> QED BY <2>1, <2>3
<1> QED
  BY <1>1, <1>2 DEF LostOnlyIfAllFail

\* The store and the bar at the end, by what is known of each step.
LEMMA Orderly ==
  ASSUME TypeOK, Place, BarWaited
  PROVE  OrderlyEnd
<1>1. store = "closed" => pc # "join" /\ (exporter = "reading" => pc \in {"unwind", "exited"})
  BY DEF Place
<1>2. pc = "exited" => \A call : ~On(call)
  BY DEF Place, On
<1>3. pc = "exited" => store # "open" /\ bar \in {"none", "gone"}
  BY <1>2 DEF Place, BarWaited
<1> QED
  BY <1>1, <1>3 DEF Place, BarWaited, OrderlyEnd

\* A command starts with nothing open.
LEMMA InitIInv == Init => IInv
<1> SUFFICES ASSUME Init
             PROVE  IInv
  OBVIOUS
<1>1. /\ deferred = <<>> /\ store = "none" /\ bar = "none" /\ workers = 0 /\ exporter = "none"
      /\ printed = FALSE /\ result = "none" /\ extra = 0 /\ kept = {} /\ attached = {} /\ eps = {} /\ open = {}
      /\ dial = [d \in Dial |-> "idle"] /\ await = [r \in Race |-> 0]
      /\ winner = [e \in Ep |-> NoDial] /\ race = <<0, 2>>
  BY DEF Init, NoRace
<1>2. \/ cmd = "push" /\ pc = "store"
      \/ cmd = "pull" /\ pc = "store"
      \/ cmd = "refs" /\ pc = "bind"
      \/ cmd = "import" /\ pc = "bar"
      \/ cmd = "restore" /\ pc = "store"
  BY CommandAssumption DEF Init, Program
<1>3. TypeOK
  <2>1. pc \in StepsOf(cmd)
    BY <1>2, PushSteps, PullSteps, RefsSteps, ImportSteps, RestoreSteps
  <2>2. 0 \in Ep /\ <<0, 2>> \in Race /\ 0 \in 0..(Extras + 1) /\ 0 \in 0..Cardinality(Cand)
    BY Finite, CommandAssumption DEF Ep, Race
  <2>3. deferred \in Seq(Call)
    BY <1>1
  <2> QED BY <1>1, <2>1, <2>2, <2>3 DEF Init, TypeOK
<1>4. Place /\ BarWaited /\ StreamsFirst /\ Connected
  BY <1>1, <1>2 DEF Place, BarWaited, StreamsFirst, Connected, On
<1>5. Numbered /\ OpenBound /\ Raced /\ Dialed /\ Bound
  BY <1>1, <1>2, <1>3 DEF Numbered, OpenBound, Raced, Dialed, Bound, TypeOK
<1>6. Used
  BY <1>1, <1>2 DEF Used, InUse
<1>7. Balance
  <2>1. \A r \in Race : Pending(r) = {}
    BY <1>1 DEF Pending
  <2> QED BY <1>1, <2>1, FS_EmptySet DEF Balance
<1> QED
  BY <1>3, <1>4, <1>5, <1>6, <1>7, Leaks, Lost, Orderly DEF IInv

\* Every step preserves the invariant.
LEMMA IInvStep == IInv /\ [Next]_vars => IInv'
<1> SUFFICES ASSUME IInv, [Next]_vars
             PROVE  IInv'
  OBVIOUS
<1>1. /\ TypeOK /\ Place /\ BarWaited /\ StreamsFirst /\ Numbered /\ Connected /\ OpenBound
      /\ Raced /\ Dialed /\ Balance /\ Used /\ Bound
  BY Leaks DEF IInv
<1>2. Counted
  BY <1>1 DEF Counted, TypeOK
<1>3. TypeOK'
  BY <1>1, <1>2, LocatedStep, DeferredStep, LocalStep, NetStep, CountedStep
  DEF TypeOK, Located, LocalType, NetType, Counted
<1>4. Place' /\ BarWaited' /\ StreamsFirst' /\ Numbered' /\ Connected'
  BY <1>1, PlaceStep, BarWaitedStep, StreamsFirstStep, NumberedStep, ConnectedStep
<1>5. Bound' /\ OpenBound' /\ Used'
  BY <1>1, BoundStep, OpenBoundStep, UsedStep
<1>6. Balance' /\ Raced' /\ Dialed'
  BY <1>1, <1>2, CountedStep, RacedStep, DialedStep DEF Counted
<1>7. (TypeOK => (Used /\ Bound /\ Place /\ StreamsFirst /\ Connected /\ OpenBound => NothingLeaks))'
  BY Leaks, PTL
<1>8. (TypeOK /\ Numbered /\ Bound /\ Raced /\ Dialed /\ Balance => LostOnlyIfAllFail)'
  BY Lost, PTL
<1>9. (TypeOK /\ Place /\ BarWaited => OrderlyEnd)'
  BY Orderly, PTL
<1> QED
  BY <1>3, <1>4, <1>5, <1>6, <1>7, <1>8, <1>9 DEF IInv

\* The invariant of one command, whichever step fails and however its races end.
THEOREM Inductive == Spec => []IInv
<1> QED
  BY InitIInv, IInvStep, PTL DEF Spec

\* A connection is in use or will be collected, and at exit nothing is open.
THEOREM NoLeaks == Spec => []NothingLeaks
<1>1. IInv => NothingLeaks
  BY DEF IInv
<1> QED
  BY <1>1, Inductive, PTL

\* The store is closed under nobody but the exporter of a failed restore, and
\* the bar is gone before anything is printed.
THEOREM EndsInOrder == Spec => []OrderlyEnd
<1>1. IInv => OrderlyEnd
  BY DEF IInv
<1> QED
  BY <1>1, Inductive, PTL
=============================================================================
