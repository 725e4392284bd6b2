----------------------------- MODULE ClientCommand -----------------------------
(* One amber command from its start to its exit: what it opens, starts and   *)
(* defers.  A network command races the candidate addresses of the server    *)
(* (raceConnect) for its control connection and for every extra one, and     *)
(* goroutines outlive the races to collect the losers; Send loops, decoders, *)
(* ingest workers and an exporter use the local store; a goroutine draws a   *)
(* progress bar.  Whatever fails, the deferred calls undo it in LIFO order.  *)
EXTENDS Integers, Sequences, FiniteSets

CONSTANTS
  Command,   \* the commands that may be given
  Cand,      \* addresses that reach the control endpoint
  Port,      \* the data port of the server an extra connection is meant for
  Extras,    \* extra connections a sharded transfer asks for
  NoDial

\* An endpoint races twice at most: an extra connection falls back to Cand.
Ep == 0..Extras   \* 0 is the endpoint of the control connection
Race == Ep \X {1, 2}
Dial == Race \X (Cand \cup {Port})
NoRace == <<0, 2>>

ASSUME CommandAssumption ==
  /\ Command \subseteq {"push", "pull", "refs", "import", "restore"}
  /\ Cand # {} /\ IsFiniteSet(Cand) /\ Port \notin Cand
  /\ Extras \in Nat /\ NoDial \notin Dial

VARIABLES
  cmd,        \* the command given
  pc,         \* the step it is at; "unwind" while the deferred calls run
  result,     \* "none", "ok" or "error"
  deferred,   \* the deferred calls, the last one first
  store,      \* "none", "open" or "closed"
  bar,        \* the progress goroutine: "none", "running", "cancelled" or "gone"
  workers,    \* goroutines at work on the store
  failed,     \* one of them failed
  exporter,   \* restore's goroutine: "none", "reading" or "written"
  printed,    \* the result was printed
  ports,      \* the server offers data ports
  extra,      \* extra connections begun
  race,       \* the race the command waits for
  dial,       \* dial[d]: "idle", "dialing", "conn" or "err", then "won", "lost" or "collected"
  await,      \* await[r]: results its receiver still waits for
  winner,     \* winner[e]: the connection of endpoint e
  attached,   \* extra connections with an attached stream
  open,       \* connections nobody closed
  eps,        \* endpoints bound and not shut down
  kept        \* endpoints the serverConn knows of

netVars == <<ports, extra, race, dial, await, winner, attached, open, eps, kept>>
localVars == <<store, bar, workers, failed, exporter, printed>>
vars == <<cmd, pc, result, deferred, localVars, netVars>>

\* The steps of each command in the order of the code.
Program == [
  push    |-> <<"store", "resolve", "bind", "race", "stream", "bar", "request", "extras",
                "transfer", "join", "streams", "record", "cancel", "wait", "print">>,
  pull    |-> <<"store", "bind", "race", "stream", "request", "bar", "extras",
                "transfer", "join", "record", "cancel", "wait", "print">>,
  refs    |-> <<"bind", "race", "stream", "request", "print">>,
  import  |-> <<"bar", "store", "transfer", "join", "record", "close", "cancel", "wait", "print">>,
  restore |-> <<"store", "resolve", "export", "extract">>]

After(step) ==
  LET steps == Program[cmd]
      i == CHOOSE j \in DOMAIN steps : steps[j] = step IN steps[i + 1]

Advance == pc' = After(pc) /\ UNCHANGED result
Return(what) == pc' = "unwind" /\ result' = what
Defer(calls) == deferred' = calls \o deferred

Call == {"closeStore", "closeConn", "waitBar", "cancelBar", "closeStreams"}
StepsOf(c) == {Program[c][i] : i \in DOMAIN Program[c]}

TypeOK ==
  /\ cmd \in Command
  /\ pc \in StepsOf(cmd) \cup {"unwind", "exited"}
             \cup (IF cmd \in {"push", "pull"} THEN {"attach"} ELSE {})
  /\ result \in {"none", "ok", "error"}
  /\ deferred \in Seq(Call)
  /\ store \in {"none", "open", "closed"} /\ bar \in {"none", "running", "cancelled", "gone"}
  /\ workers \in 0..(Extras + 1) /\ failed \in BOOLEAN
  /\ exporter \in {"none", "reading", "written"} /\ printed \in BOOLEAN
  /\ ports \in BOOLEAN /\ extra \in Ep /\ race \in Race
  /\ dial \in [Dial -> {"idle", "dialing", "conn", "err", "won", "lost", "collected"}]
  /\ await \in [Race -> 0..Cardinality(Cand)]
  /\ winner \in [Ep -> Dial \cup {NoDial}] /\ attached \subseteq Ep
  /\ open \subseteq Dial /\ eps \subseteq Ep /\ kept \subseteq Ep

Init ==
  /\ cmd \in Command /\ pc = Program[cmd][1] /\ result = "none" /\ deferred = <<>>
  /\ store = "none" /\ bar = "none" /\ workers = 0 /\ failed = FALSE
  /\ exporter = "none" /\ printed = FALSE
  /\ ports \in BOOLEAN /\ extra = 0 /\ race = NoRace
  /\ dial = [d \in Dial |-> "idle"] /\ await = [r \in Race |-> 0]
  /\ winner = [e \in Ep |-> NoDial] /\ attached = {} /\ open = {} /\ eps = {} /\ kept = {}

-----------------------------------------------------------------------------
(* The store, the bar and the goroutines that use the store                  *)

\* openStore; all commands but import defer closeStore.
OpenStore ==
  /\ pc = "store"
  /\ store' = "open"
  /\ IF cmd = "import" THEN UNCHANGED deferred ELSE Defer(<<"closeStore">>)
  /\ Advance
  /\ UNCHANGED <<cmd, bar, workers, failed, exporter, printed, netVars>>

BarWaitsFirst ==
  /\ pc = "bar"
  /\ bar' \in {"none", "running"}
  /\ Defer(<<"waitBar", "cancelBar">>)
  /\ Advance
  /\ UNCHANGED <<cmd, store, workers, failed, exporter, printed, netVars>>

\* The bar's goroutine, unless --no-progress.  LIFO: cancel, then wait.
StartBar ==
  /\ pc = "bar"
  /\ bar' \in {"none", "running"}
  /\ Defer(<<"cancelBar", "waitBar">>)
  /\ Advance
  /\ UNCHANGED <<cmd, store, workers, failed, exporter, printed, netVars>>

\* runProgressLoop sees its context cancelled.
BarEnds ==
  /\ bar = "cancelled" /\ pc # "exited"
  /\ bar' = "gone"
  /\ UNCHANGED <<cmd, pc, result, deferred, store, workers, failed, exporter, printed, netVars>>

\* Steps that only talk to the server, resolve a ref or record one: a request
\* with what the server answers to it, TOK with the tracking ref.
Pass ==
  /\ pc \in {"resolve", "stream", "request", "record"}
  /\ Advance
  /\ UNCHANGED <<cmd, deferred, localVars, netVars>>

\* An early return: the deferred calls run; import has no deferred closeStore
\* and calls it before it returns.
Abort ==
  /\ pc \in {"store", "resolve", "bind", "stream", "request", "record"}
  /\ Return("error")
  /\ store' = IF cmd = "import" /\ pc = "record" THEN "closed" ELSE store
  /\ UNCHANGED <<cmd, deferred, bar, workers, failed, exporter, printed, netVars>>

\* A Send loop per channel, the decoders of Receive, or the workers of
\* ingest.Dir; sender, decoders and ingest workers alike are joined.
StartTransfer ==
  /\ pc = "transfer"
  /\ workers' = 1 + Cardinality(attached)
  /\ Advance
  /\ UNCHANGED <<cmd, deferred, store, bar, failed, exporter, printed, netVars>>

WorkerEnds ==
  /\ workers > 0 /\ pc # "exited"
  /\ workers' = workers - 1
  /\ failed' \in {failed, TRUE}
  /\ UNCHANGED <<cmd, pc, result, deferred, store, bar, exporter, printed, netVars>>

JoinOnFailure ==
  /\ pc = "join"
  /\ workers = 0 \/ failed
  /\ store' = IF failed /\ cmd = "import" THEN "closed" ELSE store
  /\ IF failed /\ cmd # "push" THEN Return("error") ELSE Advance
  /\ UNCHANGED <<cmd, deferred, bar, workers, failed, exporter, printed, netVars>>

\* All are waited for, also when one has failed.
Join ==
  /\ pc = "join"
  /\ workers = 0
  /\ store' = IF failed /\ cmd = "import" THEN "closed" ELSE store
  /\ IF failed /\ cmd # "push" THEN Return("error") ELSE Advance
  /\ UNCHANGED <<cmd, deferred, bar, workers, failed, exporter, printed, netVars>>

\* import closes the store itself before it prints.
CloseStoreNow ==
  /\ pc = "close"
  /\ store' = "closed"
  /\ Advance \/ Return("error")
  /\ UNCHANGED <<cmd, deferred, bar, workers, failed, exporter, printed, netVars>>

\* The bar is torn down before anything is printed.
CancelBarNow ==
  /\ pc = "cancel"
  /\ bar' = IF bar = "running" THEN "cancelled" ELSE bar
  /\ Advance
  /\ UNCHANGED <<cmd, deferred, store, workers, failed, exporter, printed, netVars>>

WaitBarNow ==
  /\ pc = "wait" /\ bar \in {"none", "gone"}
  /\ Advance
  /\ UNCHANGED <<cmd, deferred, localVars, netVars>>

PrintResult ==
  /\ pc = "print"
  /\ printed' = TRUE
  /\ Return("ok")
  /\ UNCHANGED <<cmd, deferred, store, bar, workers, failed, exporter, netVars>>

\* restore pipes the export into the extraction.
StartExport ==
  /\ pc = "export"
  /\ exporter' = "reading"
  /\ Advance
  /\ UNCHANGED <<cmd, deferred, store, bar, workers, failed, printed, netVars>>

\* tarexport.Write has read what it needs of the store, or failed to; only
\* while somebody reads the pipe does it come this far.
ExporterReads ==
  /\ exporter = "reading" /\ pc = "extract"
  /\ exporter' = "written" /\ failed' \in BOOLEAN
  /\ UNCHANGED <<cmd, pc, result, deferred, store, bar, workers, printed, netVars>>

\* Extract is done when the whole archive is there.  When it fails the read
\* end of the pipe is left open and nobody waits for the exporter.
Extract ==
  /\ pc = "extract"
  /\ \/ exporter = "written" /\ ~failed /\ Return("ok")
     \/ Return("error")
  /\ UNCHANGED <<cmd, deferred, localVars, netVars>>

-----------------------------------------------------------------------------
(* Connecting                                                                *)

\* raceConnect: one goroutine per candidate.
Launch(r, cands) ==
  /\ race' = r
  /\ dial' = [d \in Dial |-> IF d \in {r} \X cands THEN "dialing" ELSE dial[d]]
  /\ await' = [await EXCEPT ![r] = Cardinality(cands)]

\* dialServer.
Bind ==
  /\ pc = "bind"
  /\ eps' = {0}
  /\ Launch(<<0, 1>>, Cand)
  /\ Advance
  /\ UNCHANGED <<cmd, deferred, localVars, ports, extra, winner, attached, open, kept>>

\* serverConn.Extra: an endpoint of its own; the data port on the address the
\* control connection reached, if there is one.
BindExtra ==
  /\ pc = "extras" /\ extra < Extras
  /\ extra' = extra + 1
  /\ eps' = eps \cup {extra'}
  /\ \E cands \in {Cand} \cup (IF ports THEN {{Port}} ELSE {}) : Launch(<<extra', 1>>, cands)
  /\ pc' = "race" /\ UNCHANGED result
  /\ UNCHANGED <<cmd, deferred, localVars, ports, winner, attached, open, kept>>

\* Connect returns and its result goes to the channel, which has room for all.
\* A dial that was cancelled may have succeeded all the same; one whose endpoint
\* is shut down has not.
ConnectReturns(d) ==
  /\ dial[d] = "dialing" /\ pc # "exited"
  /\ \E res \in IF d[1][1] \in eps THEN {"conn", "err"} ELSE {"err"} :
       /\ dial' = [dial EXCEPT ![d] = res]
       /\ open' = IF res = "conn" THEN open \cup {d} ELSE open
  /\ UNCHANGED <<cmd, pc, result, deferred, localVars, ports, extra, race, await, winner,
                 attached, eps, kept>>

\* Results in the channel of a race.
Results(r) == {d \in Dial : d[1] = r /\ dial[d] \in {"conn", "err"}}
Receive(d, as) == dial' = [dial EXCEPT ![d] = as]

\* What the collecting goroutine is told to wait for.
LosersOneShort == await[race] - 2
Losers == await[race] - 1

\* The first connection wins; the losers are cancelled and left to be collected.
Win ==
  /\ pc = "race"
  /\ \E d \in Results(race) :
       /\ dial[d] = "conn" /\ Receive(d, "won")
       /\ winner' = [winner EXCEPT ![race[1]] = d]
  /\ await' = [await EXCEPT ![race] = Losers]
  /\ kept' = kept \cup {race[1]}
  /\ IF race[1] = 0 THEN Defer(<<"closeConn">>) /\ Advance
                    ELSE pc' = "attach" /\ UNCHANGED <<deferred, result>>
  /\ UNCHANGED <<cmd, localVars, ports, extra, race, attached, open, eps>>

NoteError ==
  /\ pc = "race"
  /\ \E d \in Results(race) : dial[d] = "err" /\ Receive(d, "lost")
  /\ await' = [await EXCEPT ![race] = @ - 1]
  /\ UNCHANGED <<cmd, pc, result, deferred, localVars, ports, extra, race, winner, attached,
                 open, eps, kept>>

\* The last error: the data port may be filtered, so an extra connection is
\* tried once more where the control connection is.
FallBack ==
  /\ pc = "race" /\ await[race] = 0 /\ winner[race[1]] = NoDial
  /\ race[1] # 0 /\ race[2] = 1 /\ ports
  /\ Launch(<<race[1], 2>>, Cand)
  /\ UNCHANGED <<cmd, pc, result, deferred, localVars, ports, extra, winner, attached, open,
                 eps, kept>>

GiveUpFiltered ==
  /\ pc = "race" /\ await[race] = 0 /\ winner[race[1]] = NoDial
  /\ eps' = eps \ {race[1]}
  /\ open' = {d \in open : d[1][1] # race[1]}
  /\ IF race[1] = 0 THEN Return("error") /\ UNCHANGED extra
                    ELSE pc' = "extras" /\ extra' = Extras /\ UNCHANGED result
  /\ UNCHANGED <<cmd, deferred, localVars, ports, race, dial, await, winner, attached, kept>>

\* The race is lost: the endpoint goes.  The command fails with its control
\* connection; with an extra one it only stops asking for more.
GiveUp ==
  /\ pc = "race" /\ await[race] = 0 /\ winner[race[1]] = NoDial
  /\ race[1] = 0 \/ race[2] = 2 \/ ~ports
  /\ eps' = eps \ {race[1]}
  /\ open' = {d \in open : d[1][1] # race[1]}
  /\ IF race[1] = 0 THEN Return("error") /\ UNCHANGED extra
                    ELSE pc' = "extras" /\ extra' = Extras /\ UNCHANGED result
  /\ UNCHANGED <<cmd, deferred, localVars, ports, race, dial, await, winner, attached, kept>>

\* The collecting goroutine of a race that was won: a late winner is closed.
Collect(r) ==
  /\ await[r] > 0 /\ ~(pc = "race" /\ race = r) /\ pc # "exited"
  /\ \E d \in Results(r) : Receive(d, "collected") /\ open' = open \ {d}
  /\ await' = [await EXCEPT ![r] = @ - 1]
  /\ UNCHANGED <<cmd, pc, result, deferred, localVars, ports, extra, race, winner, attached,
                 eps, kept>>

AttachFailsOpen ==
  /\ pc = "attach"
  /\ extra' = Extras
  /\ pc' = "extras"
  /\ UNCHANGED <<cmd, result, deferred, localVars, ports, race, dial, await, winner,
                 attached, open, eps, kept>>

\* OpenStreamConn or TAttach fails: this connection is closed, and no more are
\* asked for.
AttachFails ==
  /\ pc = "attach"
  /\ extra' = Extras
  /\ open' = open \ {winner[race[1]]}
  /\ pc' = "extras"
  /\ UNCHANGED <<cmd, result, deferred, localVars, ports, race, dial, await, winner,
                 attached, eps, kept>>

Attach ==
  /\ pc = "attach"
  /\ attached' = attached \cup {race[1]}
  /\ pc' = "extras"
  /\ UNCHANGED <<cmd, result, deferred, localVars, ports, extra, race, dial, await, winner,
                 open, eps, kept>>

\* No more extra connections: all are there, one could not be bound, or none is
\* wanted, by --conns 1 or by an old server.  runPull defers the closer.
ExtrasOver ==
  /\ pc = "extras"
  /\ IF cmd = "pull" THEN Defer(<<"closeStreams">>) ELSE UNCHANGED deferred
  /\ Advance
  /\ UNCHANGED <<cmd, localVars, netVars>>

Closed == {winner[e] : e \in attached}

\* runSenders returns: its own deferred closer runs first.
SendersReturn ==
  /\ pc = "streams"
  /\ open' = open \ Closed /\ attached' = {}
  /\ IF failed THEN Return("error") ELSE Advance
  /\ UNCHANGED <<cmd, deferred, localVars, ports, extra, race, dial, await, winner, eps, kept>>

-----------------------------------------------------------------------------
(* The deferred calls                                                        *)

Deferred(call) ==
  /\ pc = "unwind" /\ deferred # <<>> /\ Head(deferred) = call
  /\ deferred' = Tail(deferred)
  /\ UNCHANGED <<cmd, pc, result>>

CloseStreams ==
  /\ Deferred("closeStreams")
  /\ open' = open \ Closed /\ attached' = {}
  /\ UNCHANGED <<localVars, ports, extra, race, dial, await, winner, eps, kept>>

CancelBar ==
  /\ Deferred("cancelBar")
  /\ bar' = IF bar = "running" THEN "cancelled" ELSE bar
  /\ UNCHANGED <<store, workers, failed, exporter, printed, netVars>>

WaitBar ==
  /\ Deferred("waitBar") /\ bar \in {"none", "gone"}
  /\ UNCHANGED <<localVars, netVars>>

\* serverConn.Close: the control connection and every endpoint with all that
\* is left of its connections.
CloseConn ==
  /\ Deferred("closeConn")
  /\ open' = {d \in open : d[1][1] \notin kept}
  /\ eps' = eps \ kept /\ kept' = {}
  /\ UNCHANGED <<localVars, ports, extra, race, dial, await, winner, attached>>

CloseStore ==
  /\ Deferred("closeStore")
  /\ store' = "closed"
  /\ UNCHANGED <<bar, workers, failed, exporter, printed, netVars>>

Exit ==
  /\ pc = "unwind" /\ deferred = <<>>
  /\ pc' = "exited"
  /\ UNCHANGED <<cmd, result, deferred, localVars, netVars>>

Exited == pc = "exited" /\ UNCHANGED vars

\* The steps of the command's own goroutine.
Main ==
  \/ OpenStore \/ StartBar \/ Pass \/ Abort \/ StartTransfer \/ Join \/ CloseStoreNow
  \/ CancelBarNow \/ WaitBarNow \/ PrintResult \/ StartExport \/ Extract
  \/ Bind \/ BindExtra \/ Win \/ NoteError \/ FallBack \/ GiveUp
  \/ AttachFails \/ Attach \/ ExtrasOver \/ SendersReturn
  \/ CloseStreams \/ CancelBar \/ WaitBar \/ CloseConn \/ CloseStore \/ Exit

Next ==
  \/ Main \/ WorkerEnds \/ BarEnds \/ ExporterReads \/ Exited
  \/ \E d \in Dial : ConnectReturns(d)
  \/ \E r \in Race : Collect(r)

Spec == Init /\ [][Next]_vars

\* Goroutines run on; Connect returns, by its handshake timeout if not before;
\* Send loops, decoders and ingest workers end.
FairSpec ==
  /\ Spec
  /\ WF_vars(Main) /\ WF_vars(WorkerEnds) /\ WF_vars(BarEnds) /\ WF_vars(ExporterReads)
  /\ \A d \in Dial : WF_vars(ConnectReturns(d))

-----------------------------------------------------------------------------
(* Properties                                                                *)

\* Dials of a race whose result nobody has received.
Pending(r) == {d \in Dial : d[1] = r /\ dial[d] \in {"dialing", "conn", "err"}}

\* No result of a race is lost and none is waited for in vain, by the command
\* or by the goroutine that collects the losers.
Balance == \A r \in Race : await[r] = Cardinality(Pending(r))

\* An endpoint that dialed and was given up tried every candidate, and every one
\* failed: one live address among dead ones, or behind a filtered data port, is
\* enough.
LostOnlyIfAllFail ==
  \A e \in Ep :
    LET dials == {d \in Dial : d[1][1] = e} IN
    (e \notin eps /\ winner[e] = NoDial /\ \E d \in dials : dial[d] # "idle") =>
      /\ \A d \in dials : dial[d] \in {"idle", "lost"}
      /\ \A c \in Cand : \E n \in {1, 2} : dial[<<<<e, n>>, c>>] = "lost"

\* The endpoints with a stream of the command on their connection.
InUse ==
  (IF 0 \in kept THEN {0} ELSE {}) \cup attached \cup (IF pc = "attach" THEN {race[1]} ELSE {})

\* A connection is in use or will be collected, and none in use was closed as a
\* loser; every endpoint is known to whoever will shut it down; nothing is left
\* at exit, whichever step failed.
NothingLeaks ==
  /\ {winner[e] : e \in InUse} \subseteq open
  /\ open \ {winner[e] : e \in InUse} \subseteq {d \in Dial : dial[d] = "conn"}
  /\ eps = kept \cup (IF pc = "race" THEN {race[1]} ELSE {})
  /\ pc = "exited" => open = {} /\ eps = {}

\* The store is closed under nobody, except under the exporter of a restore
\* whose extraction failed; the bar is gone before anything is printed; at exit
\* the store is closed.
OrderlyEnd ==
  /\ store = "closed" =>
       workers = 0 /\ (exporter = "reading" => result = "error")
  /\ printed \/ pc = "exited" => bar \in {"none", "gone"}
  /\ pc = "exited" => store # "open"

\* Every command comes to its exit, whichever step failed, as long as the server
\* answers and its own Send loops, decoders and ingest workers end; an exporter
\* left behind by restore does not keep it.
CommandEnds == <>(pc = "exited")

-----------------------------------------------------------------------------
(* The inductive invariant                                                   *)

On(call) == \E i \in DOMAIN deferred : deferred[i] = call

\* Which goroutines there are at each step of a command, and who will close its
\* store: a deferred call, or on an import a step of its own.
Place ==
  /\ pc # "join" => workers = 0
  /\ pc = "exited" => deferred = <<>>
  /\ store = "open" =>
       IF cmd = "import" THEN pc \in {"transfer", "join", "record", "close"} ELSE On("closeStore")
  /\ store = "closed" =>
       pc \in {"unwind", "exited"} \/ (cmd = "import" /\ pc \in {"cancel", "wait", "print"})
  /\ exporter = "reading" =>
       /\ cmd = "restore" /\ pc \in {"extract", "unwind", "exited"}
       /\ pc # "extract" => result = "error"

\* A bar that was started is waited for before the command prints and by a
\* deferred call.
BarWaited ==
  /\ bar \notin {"none", "gone"} => On("waitBar")
  /\ bar # "none" => cmd # "refs"
  /\ pc = "print" => bar \in {"none", "gone"}
  /\ printed => pc \in {"unwind", "exited"} /\ bar \in {"none", "gone"}

\* The streams of a pull are closed before its connections: their closer is the
\* last call deferred.
StreamsFirst ==
  /\ \A i \in DOMAIN deferred : deferred[i] = "closeStreams" =>
       i = 1 /\ cmd = "pull" /\ pc \in {"transfer", "join", "record", "cancel", "wait", "print", "unwind"}
  /\ attached # {} =>
       \/ pc \in {"race", "attach", "extras"}
       \/ cmd = "push" /\ pc \in {"transfer", "join", "streams"}
       \/ On("closeStreams")

\* Endpoints are numbered as they are bound: beyond extra there is nothing, nor
\* before the command connects.
Numbered ==
  /\ cmd \in {"import", "restore"} \/ pc \in {"store", "resolve", "bind"} =>
       /\ extra = 0 /\ kept = {} /\ attached = {} /\ eps = {}
       /\ \A d \in Dial : dial[d] = "idle"
       /\ \A e \in Ep : winner[e] = NoDial
  /\ extra > 0 => cmd \in {"push", "pull"}
  /\ \A d \in Dial : dial[d] # "idle" => d[1][1] <= extra
  /\ \A e \in Ep : winner[e] # NoDial =>
       e <= extra /\ winner[e][1][1] = e /\ dial[winner[e]] = "won"
  /\ attached \subseteq 1..extra
  /\ pc \in {"race", "attach"} => race[1] = extra /\ extra \notin attached
  /\ pc = "race" =>
       /\ winner[extra] = NoDial
       /\ race[2] = 1 => \A d \in Dial : d[1] = <<extra, 2>> => dial[d] = "idle"
  /\ pc = "attach" => extra > 0

\* The control connection stays while the command works, and everything kept is
\* closed by a deferred call.
Connected ==
  /\ \/ pc \in {"stream", "request", "extras", "attach"}
     \/ pc = "bar" /\ cmd # "import"
     \/ pc = "race" /\ extra > 0
     => 0 \in kept
  /\ kept # {} => On("closeConn")
  /\ \A e \in kept \cup attached : winner[e] # NoDial
  /\ pc = "attach" => winner[extra] # NoDial

\* Connections are open on bound endpoints only, until somebody takes them from
\* the channel of their race.
OpenBound ==
  /\ \A d \in open : d[1][1] \in eps
  /\ \A d \in Dial : dial[d] = "conn" /\ d[1][1] \in eps => d \in open

\* A race the command no longer waits for was won if it has results to come or
\* to collect.
Raced ==
  /\ \A d \in Dial : dial[d] \in {"won", "collected"} => winner[d[1][1]] # NoDial
  /\ \A r \in Race : await[r] > 0 => winner[r[1]] # NoDial \/ (pc = "race" /\ race = r)

\* Every candidate is dialed in the running race, unless it is the first one of an
\* extra connection, which may be meant for a data port alone; and every one was in
\* a race of an endpoint that was given up.
Dialed ==
  /\ pc = "race" /\ (race[1] = 0 \/ race[2] = 2 \/ ~ports) =>
       \A c \in Cand : dial[<<race, c>>] # "idle"
  /\ \A e \in Ep :
       (e \notin eps /\ winner[e] = NoDial /\ \E d \in Dial : d[1][1] = e /\ dial[d] # "idle") =>
         \A c \in Cand : \E n \in {1, 2} : dial[<<<<e, n>>, c>>] # "idle"

\* What a command keeps, inductively: no result of a race is lost, nothing it
\* opened leaks, and its store and bar end in order.
IInv ==
  /\ TypeOK /\ Place /\ BarWaited /\ StreamsFirst /\ Numbered /\ Connected /\ OpenBound
  /\ Raced /\ Dialed /\ Balance /\ LostOnlyIfAllFail /\ NothingLeaks /\ OrderlyEnd
=============================================================================
