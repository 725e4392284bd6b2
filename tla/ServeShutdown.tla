----------------------------- MODULE ServeShutdown -----------------------------
(* The life of amber-serve: main binds the data endpoints and starts a Serve *)
(* on each, announces their ports, serves the control endpoint, and on a     *)
(* signal waits for every Serve before the deferred calls shut the endpoints *)
(* down and close the stores.  Serve runs one serveConn per connection and   *)
(* one handler per stream; on a signal it closes the connections under its   *)
(* handlers and waits for them no longer than its grace.                     *)
EXTENDS Integers, FiniteSets

CONSTANTS
  DataEP,    \* data endpoints, numbered in the order main binds them
  Conn,      \* connections clients open, each with one stream
  CanFail    \* a data endpoint may fail to bind

ASSUME ServeAssumption ==
  /\ IsFiniteSet(DataEP) /\ DataEP = 1..Cardinality(DataEP)
  /\ CanFail \in BOOLEAN

Control == 0
EP == {Control} \cup DataEP

VARIABLES
  main,       \* "bind", "ports", "serve", "wait", "defer", "close" or "exited"
  bound,      \* data endpoints bound and served so far
  failed,     \* a bind failed: main returns early
  signalled,  \* the context is cancelled
  ports,      \* SetDataPorts was called
  serve,      \* serve[e]: "off", "accept", "drain" or "returned"
  at,         \* at[c]: the endpoint c connects to
  conn,       \* conn[c]: "new", "live", "closed", or "gone" (serveConn returned)
  handler,    \* handler[c]: "none", "running" or "done"
  offered,    \* connections whose transfer was offered without the data ports
  expired,    \* endpoints whose grace ran out
  stores      \* "open" or "closed"

vars == <<main, bound, failed, signalled, ports, serve, at, conn, handler, offered, expired, stores>>

TypeOK ==
  /\ main \in {"bind", "ports", "serve", "wait", "defer", "close", "exited"}
  /\ bound \in 0..Cardinality(DataEP)
  /\ failed \in BOOLEAN /\ signalled \in BOOLEAN /\ ports \in BOOLEAN
  /\ serve \in [EP -> {"off", "accept", "drain", "returned"}]
  /\ at \in [Conn -> EP]
  /\ conn \in [Conn -> {"new", "live", "closed", "gone"}]
  /\ handler \in [Conn -> {"none", "running", "done"}]
  /\ offered \subseteq Conn
  /\ expired \subseteq EP
  /\ stores \in {"open", "closed"}

Init ==
  /\ main = "bind" /\ bound = 0 /\ failed = FALSE
  /\ signalled = FALSE /\ ports = FALSE
  /\ serve = [e \in EP |-> "off"]
  /\ at \in [Conn -> EP]
  /\ conn = [c \in Conn |-> "new"]
  /\ handler = [c \in Conn |-> "none"]
  /\ offered = {} /\ expired = {}
  /\ stores = "open"

Alive == main # "exited"

-----------------------------------------------------------------------------
(* main                                                                      *)

BindData ==
  /\ main = "bind" /\ bound < Cardinality(DataEP)
  /\ bound' = bound + 1
  /\ serve' = [serve EXCEPT ![bound + 1] = "accept"]
  /\ UNCHANGED <<main, failed, signalled, ports, at, conn, handler, offered, expired, stores>>

\* The error returns from the action while earlier data endpoints are served.
BindFails ==
  /\ CanFail /\ main = "bind" /\ bound < Cardinality(DataEP)
  /\ failed' = TRUE
  /\ main' = "defer"
  /\ UNCHANGED <<bound, signalled, ports, serve, at, conn, handler, offered, expired, stores>>

\* The ports are told after every Serve has been started.
ServeBeforePorts ==
  /\ main = "bind" /\ bound = Cardinality(DataEP)
  /\ \/ serve[Control] = "off" /\ serve' = [serve EXCEPT ![Control] = "accept"]
        /\ UNCHANGED <<main, ports>>
     \/ serve[Control] # "off" /\ ports' = TRUE /\ main' = "serve" /\ UNCHANGED serve
  /\ UNCHANGED <<bound, failed, signalled, at, conn, handler, offered, expired, stores>>

SetDataPorts ==
  /\ main = "bind" /\ bound = Cardinality(DataEP)
  /\ ports' = TRUE
  /\ main' = "ports"
  /\ UNCHANGED <<bound, failed, signalled, serve, at, conn, handler, offered, expired, stores>>

ServeControl ==
  /\ main = "ports"
  /\ serve' = [serve EXCEPT ![Control] = "accept"]
  /\ main' = "serve"
  /\ UNCHANGED <<bound, failed, signalled, ports, at, conn, handler, offered, expired, stores>>

\* The control Serve has returned; dataWG.Wait waits for the others.
WaitData ==
  /\ \/ main = "serve" /\ serve[Control] = "returned" /\ main' = "wait"
     \/ main = "wait" /\ (\A e \in DataEP : serve[e] = "returned") /\ main' = "defer"
  /\ UNCHANGED <<bound, failed, signalled, ports, serve, at, conn, handler, offered, expired, stores>>

\* Deferred: the endpoints shut down, which ends their connections, and the
\* context is cancelled.
ShutDown ==
  /\ main = "defer"
  /\ signalled' = TRUE
  /\ conn' = [c \in Conn |-> IF conn[c] = "live" THEN "closed" ELSE conn[c]]
  /\ main' = "close"
  /\ UNCHANGED <<bound, failed, ports, serve, at, handler, offered, expired, stores>>

\* Deferred: the stores are closed; the process exits.
CloseStores ==
  /\ main = "close"
  /\ \/ stores = "open" /\ stores' = "closed" /\ UNCHANGED main
     \/ stores = "closed" /\ main' = "exited" /\ UNCHANGED stores
  /\ UNCHANGED <<bound, failed, signalled, ports, serve, at, conn, handler, offered, expired>>

Signal ==
  /\ Alive /\ ~signalled
  /\ signalled' = TRUE
  /\ UNCHANGED <<main, bound, failed, ports, serve, at, conn, handler, offered, expired, stores>>

-----------------------------------------------------------------------------
(* Serve and serveConn                                                       *)

Serving(e) == {c \in Conn : at[c] = e /\ conn[c] \in {"live", "closed"}}

\* Accept may return a connection at the moment the context is cancelled, but
\* not from an endpoint that is shut down.
Accept(c) ==
  /\ Alive /\ main # "close" /\ conn[c] = "new" /\ serve[at[c]] = "accept"
  /\ conn' = [conn EXCEPT ![c] = "live"]
  /\ UNCHANGED <<main, bound, failed, signalled, ports, serve, at, handler, offered, expired, stores>>

StopAccepting(e) ==
  /\ Alive /\ serve[e] = "accept" /\ signalled
  /\ serve' = [serve EXCEPT ![e] = "drain"]
  /\ UNCHANGED <<main, bound, failed, signalled, ports, at, conn, handler, offered, expired, stores>>

\* Every serveConn has returned.
Drained(e) ==
  /\ Alive /\ serve[e] = "drain" /\ Serving(e) = {}
  /\ serve' = [serve EXCEPT ![e] = "returned"]
  /\ UNCHANGED <<main, bound, failed, signalled, ports, at, conn, handler, offered, expired, stores>>

GraceNever(e) == FALSE /\ UNCHANGED vars

\* The grace runs out with handlers in flight.
GraceElapses(e) ==
  /\ Alive /\ serve[e] = "drain" /\ Serving(e) # {}
  /\ serve' = [serve EXCEPT ![e] = "returned"]
  /\ expired' = expired \cup {e}
  /\ UNCHANGED <<main, bound, failed, signalled, ports, at, conn, handler, offered, stores>>

\* The peer goes away, or AfterFunc closes the connection on the signal.
ConnEnds(c) ==
  /\ Alive /\ conn[c] = "live"
  /\ conn' = [conn EXCEPT ![c] = "closed"]
  /\ UNCHANGED <<main, bound, failed, signalled, ports, serve, at, handler, offered, expired, stores>>

\* A stream arrives; its handler may offer a sharded transfer with the data
\* ports.  Nothing orders the write of SetDataPorts before a read on a data
\* endpoint, whose Serve was started earlier.
HandleStream(c) ==
  /\ Alive /\ conn[c] = "live" /\ handler[c] = "none"
  /\ handler' = [handler EXCEPT ![c] = "running"]
  /\ \/ UNCHANGED offered
     \/ (~ports \/ at[c] # Control) /\ offered' = offered \cup {c}
  /\ UNCHANGED <<main, bound, failed, signalled, ports, serve, at, conn, expired, stores>>

HandlerEnds(c) ==
  /\ Alive /\ handler[c] = "running"
  /\ handler' = [handler EXCEPT ![c] = "done"]
  /\ UNCHANGED <<main, bound, failed, signalled, ports, serve, at, conn, offered, expired, stores>>

ServeConnLeaves(c) ==
  /\ Alive /\ conn[c] = "closed"
  /\ conn' = [conn EXCEPT ![c] = "gone"]
  /\ UNCHANGED <<main, bound, failed, signalled, ports, serve, at, handler, offered, expired, stores>>

\* serveConn returns when no more streams come and its handlers have ended.
ServeConnReturns(c) ==
  /\ Alive /\ conn[c] = "closed" /\ handler[c] # "running"
  /\ conn' = [conn EXCEPT ![c] = "gone"]
  /\ UNCHANGED <<main, bound, failed, signalled, ports, serve, at, handler, offered, expired, stores>>

Exited == ~Alive /\ UNCHANGED vars

MainStep ==
  BindData \/ BindFails \/ SetDataPorts \/ ServeControl \/ WaitData \/ ShutDown \/ CloseStores

Next ==
  \/ BindData \/ BindFails \/ SetDataPorts \/ ServeControl \/ WaitData \/ ShutDown
  \/ CloseStores \/ Signal \/ Exited
  \/ \E e \in EP : StopAccepting(e) \/ Drained(e) \/ GraceElapses(e)
  \/ \E c \in Conn : Accept(c) \/ ConnEnds(c) \/ HandleStream(c) \/ HandlerEnds(c)
                     \/ ServeConnReturns(c)

Spec == Init /\ [][Next]_vars

\* main and the accept loops run on and the timers fire.  Nothing is assumed of
\* the handlers: one may be stuck in the store or on its peer.
FairSpec ==
  /\ Spec
  /\ WF_vars(MainStep)
  /\ \A e \in EP : WF_vars(StopAccepting(e)) /\ WF_vars(Drained(e) \/ GraceElapses(e))
  /\ \A c \in Conn : WF_vars(ServeConnReturns(c))

-----------------------------------------------------------------------------
(* Properties                                                                *)

\* Serves that main does not wait for: when a bind fails it returns while the
\* data endpoints bound before are being served.
Stray == IF failed THEN 1..bound ELSE {}

\* The stores are closed under a running handler only if the grace of its
\* endpoint ran out, or if its endpoint is served by nobody main waits for:
\* main waits for every other Serve, Serve for every serveConn, serveConn for
\* every handler.  A failed bind never reaches the control endpoint.
StoresOutliveHandlers ==
  stores = "closed" =>
    /\ \A e \in EP \ Stray : serve[e] = IF failed THEN "off" ELSE "returned"
    /\ \A c \in Conn : handler[c] = "running" => at[c] \in expired \cup Stray

\* The server comes down after a signal even if its handlers never end.
ShutdownEnds == signalled ~> (main = "exited")

\* The endpoint clients connect to offers no sharded transfer without the ports
\* of the data endpoints: SetDataPorts is called before its Serve.  (It is not
\* called before those of the data endpoints.)
ControlHasPorts == \A c \in offered : at[c] # Control

-----------------------------------------------------------------------------
(* The inductive invariant                                                   *)

\* What is served and told to clients at each step of main: endpoints are served
\* in order, the control endpoint last and with the ports; past the wait every
\* Serve has returned.
MainOrder ==
  /\ failed => main \in {"defer", "close", "exited"}
  /\ \A e \in EP : (main = "bind" \/ failed) /\ e \notin 1..bound => serve[e] = "off"
  /\ main = "ports" => ports /\ serve[Control] = "off"
  /\ serve[Control] # "off" => ports
  /\ main = "wait" => serve[Control] = "returned"
  /\ (main \in {"defer", "close", "exited"} /\ ~failed) => \A e \in EP : serve[e] = "returned"
  /\ stores = "closed" => main \in {"close", "exited"}

\* Handlers run on connections serveConn has not returned from, and a Serve that
\* returned over one of those ran out of its grace.
Attended ==
  \A c \in Conn :
    /\ handler[c] = "running" => conn[c] \in {"live", "closed"}
    /\ conn[c] \in {"live", "closed"} =>
         serve[at[c]] # "off" /\ (serve[at[c]] = "returned" => at[c] \in expired)

\* What main and Serve keep, inductively: the stores are open under every handler but those
\* whose grace ran out, and the control endpoint is served only with its data ports set.
IInv == TypeOK /\ MainOrder /\ Attended /\ StoresOutliveHandlers /\ ControlHasPorts
=============================================================================
