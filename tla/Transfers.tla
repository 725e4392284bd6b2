------------------------------- MODULE Transfers -------------------------------
(* The registry that routes attaching data streams to the transfer they      *)
(* belong to (type transfers of the server): create, attach, gather and drop *)
(* called by the handlers of several transfers and by one HandleStream per   *)
(* stream.  attach looks its transfer up under the mutex and sends on the    *)
(* transfer's buffered channel after releasing it; drop deletes the entry    *)
(* under the mutex and drains the channel after releasing it.                *)
EXTENDS Integers, Sequences, FiniteSets

CONSTANTS
  Transfer,       \* sharded transfers, each with its token
  Stream,         \* streams whose first frame is a TAttach
  NoTransfer,     \* the target of a stream whose token was never handed out
  DataConns,      \* what each transfer's client asked for
  MaxDataConns    \* maxDataConns, also the capacity of the channel

ASSUME RegistryAssumption ==
  /\ NoTransfer \notin Transfer
  /\ DataConns \in Nat \ {0}
  /\ MaxDataConns \in Nat \ {0}

VARIABLES
  tpc,         \* tpc[t]: where the handler of transfer t is
  registered,  \* the keys of the map pending
  offered,     \* transfers whose token was written to their client
  queue,       \* queue[t]: the buffered channel of t
  gathered,    \* gathered[t]: the streams gather returned
  target,      \* target[s]: the transfer the token on s names
  spc,         \* spc[s]: where HandleStream is with stream s
  open,        \* streams the server has not closed
  overtaken    \* streams sent to a channel after it was drained (history)

vars == <<tpc, registered, offered, queue, gathered, target, spc, open, overtaken>>

PromisedUnclamped == DataConns

\* shardChannels and handlePull clamp what the client asked for.
Promised == IF DataConns > MaxDataConns THEN MaxDataConns ELSE DataConns

TransferSteps == {"idle", "offering", "gathering", "running", "dropping", "draining",
                  "closing", "done"}
StreamSteps == {"none", "lookup", "send", "handed", "refused"}

TypeOK ==
  /\ tpc \in [Transfer -> TransferSteps]
  /\ registered \subseteq Transfer /\ offered \subseteq Transfer
  /\ queue \in [Transfer -> Seq(Stream)]
  /\ \A t \in Transfer : Len(queue[t]) <= MaxDataConns
  /\ gathered \in [Transfer -> SUBSET Stream]
  /\ \A t \in Transfer : IsFiniteSet(gathered[t]) /\ Cardinality(gathered[t]) <= MaxDataConns
  /\ target \in [Stream -> Transfer \cup {NoTransfer}]
  /\ spc \in [Stream -> StreamSteps]
  /\ open \subseteq Stream
  /\ overtaken \subseteq Stream

Init ==
  /\ tpc = [t \in Transfer |-> "idle"]
  /\ registered = {} /\ offered = {}
  /\ queue = [t \in Transfer |-> <<>>]
  /\ gathered = [t \in Transfer |-> {}]
  /\ target \in [Stream -> Transfer \cup {NoTransfer}]
  /\ spc = [s \in Stream |-> "none"]
  /\ open = Stream
  /\ overtaken = {}

-----------------------------------------------------------------------------
(* The handler of a sharded transfer                                         *)

Move(t, from, to) == tpc[t] = from /\ tpc' = [tpc EXCEPT ![t] = to]

Create(t) ==
  /\ Move(t, "idle", "offering")
  /\ registered' = registered \cup {t}
  /\ UNCHANGED <<queue, gathered, offered, target, spc, open, overtaken>>

\* The token goes out in TAccept or TRef.
Offer(t) ==
  /\ Move(t, "offering", "gathering")
  /\ offered' = offered \cup {t}
  /\ UNCHANGED <<registered, queue, gathered, target, spc, open, overtaken>>

\* TAccept or TRef cannot be written, and nobody holds the token: drop at once.
OfferFails(t) ==
  /\ Move(t, "offering", "dropping")
  /\ UNCHANGED <<registered, queue, gathered, offered, target, spc, open, overtaken>>

GatherPeeks(t) ==
  /\ tpc[t] = "gathering" /\ Cardinality(gathered[t]) < Promised
  /\ queue[t] # <<>>
  /\ gathered' = [gathered EXCEPT ![t] = @ \cup {Head(queue[t])}]
  /\ UNCHANGED <<tpc, registered, queue, offered, target, spc, open, overtaken>>

\* gather receives one stream.
Gather(t) ==
  /\ tpc[t] = "gathering" /\ Cardinality(gathered[t]) < Promised
  /\ queue[t] # <<>>
  /\ gathered' = [gathered EXCEPT ![t] = @ \cup {Head(queue[t])}]
  /\ queue' = [queue EXCEPT ![t] = Tail(@)]
  /\ UNCHANGED <<tpc, registered, offered, target, spc, open, overtaken>>

\* gather has all it was promised.
GatherAll(t) ==
  /\ Cardinality(gathered[t]) = Promised
  /\ Move(t, "gathering", "running")
  /\ UNCHANGED <<registered, queue, gathered, offered, target, spc, open, overtaken>>

DeadlineIfSome(t) ==
  /\ gathered[t] # {}
  /\ Move(t, "gathering", "running")
  /\ UNCHANGED <<registered, queue, gathered, offered, target, spc, open, overtaken>>

\* attachWait has passed; a stream may be ready at the same moment.
Deadline(t) ==
  /\ Cardinality(gathered[t]) < Promised
  /\ Move(t, "gathering", "running")
  /\ UNCHANGED <<registered, queue, gathered, offered, target, spc, open, overtaken>>

\* The transfer over the gathered streams ends, well or not; release runs.
Finish(t) ==
  /\ Move(t, "running", "dropping")
  /\ UNCHANGED <<registered, queue, gathered, offered, target, spc, open, overtaken>>

\* drop, under the mutex.
Unregister(t) ==
  /\ Move(t, "dropping", "draining")
  /\ registered' = registered \ {t}
  /\ UNCHANGED <<queue, gathered, offered, target, spc, open, overtaken>>

\* drop, after the mutex: streams never gathered are closed.
Drain(t) ==
  /\ tpc[t] = "draining" /\ queue[t] # <<>>
  /\ queue' = [queue EXCEPT ![t] = Tail(@)]
  /\ open' = open \ {Head(queue[t])}
  /\ UNCHANGED <<tpc, registered, gathered, offered, target, spc, overtaken>>

\* The channel is found empty: drop returns.
DrainEnds(t) ==
  /\ queue[t] = <<>>
  /\ Move(t, "draining", "closing")
  /\ UNCHANGED <<registered, queue, gathered, offered, target, spc, open, overtaken>>

CloseNothing(t) ==
  /\ Move(t, "closing", "done")
  /\ UNCHANGED <<registered, queue, gathered, offered, target, spc, open, overtaken>>

\* release closes the gathered streams.
CloseGathered(t) ==
  /\ Move(t, "closing", "done")
  /\ open' = open \ gathered[t]
  /\ UNCHANGED <<registered, queue, gathered, offered, target, spc, overtaken>>

-----------------------------------------------------------------------------
(* HandleStream on a TAttach                                                 *)

\* A client sends its attach once it holds the token; a stray one at any time.
Arrive(s) ==
  /\ spc[s] = "none"
  /\ target[s] \in Transfer => target[s] \in offered
  /\ spc' = [spc EXCEPT ![s] = "lookup"]
  /\ UNCHANGED <<tpc, registered, queue, gathered, offered, target, open, overtaken>>

\* attach, under the mutex.
Lookup(s) ==
  /\ spc[s] = "lookup" /\ target[s] \in registered
  /\ spc' = [spc EXCEPT ![s] = "send"]
  /\ UNCHANGED <<tpc, registered, queue, gathered, offered, target, open, overtaken>>

SendThenClose(s) ==
  /\ spc[s] = "send" /\ Len(queue[target[s]]) < MaxDataConns
  /\ queue' = [queue EXCEPT ![target[s]] = Append(@, s)]
  /\ spc' = [spc EXCEPT ![s] = "handed"]
  /\ overtaken' = IF tpc[target[s]] \in {"closing", "done"} THEN overtaken \cup {s} ELSE overtaken
  /\ open' = open \ {s}
  /\ UNCHANGED <<tpc, registered, gathered, offered, target>>

\* attach, after the mutex: ownership moves with the send.
Send(s) ==
  /\ spc[s] = "send" /\ Len(queue[target[s]]) < MaxDataConns
  /\ queue' = [queue EXCEPT ![target[s]] = Append(@, s)]
  /\ spc' = [spc EXCEPT ![s] = "handed"]
  /\ overtaken' = IF tpc[target[s]] \in {"closing", "done"} THEN overtaken \cup {s} ELSE overtaken
  /\ UNCHANGED <<tpc, registered, gathered, offered, target, open>>

RefuseOnlyFull(s) ==
  /\ spc[s] = "send" /\ Len(queue[target[s]]) = MaxDataConns
  /\ spc' = [spc EXCEPT ![s] = "refused"]
  /\ open' = open \ {s}
  /\ UNCHANGED <<tpc, registered, queue, gathered, offered, target, overtaken>>

\* The token is unknown or the channel is full: TErr, and the stream is closed.
Refuse(s) ==
  /\ \/ spc[s] = "lookup" /\ target[s] \notin registered
     \/ spc[s] = "send" /\ Len(queue[target[s]]) = MaxDataConns
  /\ spc' = [spc EXCEPT ![s] = "refused"]
  /\ open' = open \ {s}
  /\ UNCHANGED <<tpc, registered, queue, gathered, offered, target, overtaken>>

\* Nothing is left to do: a stream whose client never got its token stays away.
Settled ==
  /\ \A t \in Transfer : tpc[t] = "done"
  /\ \A s \in Stream :
       \/ spc[s] \in {"handed", "refused"}
       \/ spc[s] = "none" /\ target[s] \in Transfer \ offered
Quiet == Settled /\ UNCHANGED vars

Handle(t) ==
  \/ Offer(t) \/ OfferFails(t) \/ Gather(t) \/ GatherAll(t) \/ Deadline(t)
  \/ Finish(t) \/ Unregister(t) \/ Drain(t) \/ DrainEnds(t) \/ CloseGathered(t)
Attach(s) == Lookup(s) \/ Send(s) \/ Refuse(s)

Next ==
  \/ Quiet
  \/ \E t \in Transfer :
       \/ Create(t) \/ Offer(t) \/ OfferFails(t) \/ Gather(t) \/ GatherAll(t) \/ Deadline(t)
       \/ Finish(t) \/ Unregister(t) \/ Drain(t) \/ DrainEnds(t) \/ CloseGathered(t)
  \/ \E s \in Stream : Arrive(s) \/ Lookup(s) \/ Send(s) \/ Refuse(s)

Spec == Init /\ [][Next]_vars

\* Goroutines run on and the timer fires; that a running transfer ends is the
\* want loop's own liveness, taken here as given.
FairSpec ==
  /\ Spec
  /\ \A t \in Transfer : WF_vars(Handle(t))
  /\ \A s \in Stream : WF_vars(Attach(s))

-----------------------------------------------------------------------------
(* Properties                                                                *)

QueuedIn(t) == {queue[t][i] : i \in DOMAIN queue[t]}
NoneTwice == \A t \in Transfer : \A i, j \in DOMAIN queue[t] : queue[t][i] = queue[t][j] => i = j

\* Ownership moves with the hand-over and is never shared: a stream handed over
\* and still open waits in its own transfer's channel, once, or is gathered by
\* that transfer, not both, and no other transfer sees it.
OneOwner ==
  /\ NoneTwice
  /\ \A t \in Transfer : QueuedIn(t) \cap gathered[t] = {}
  /\ \A t \in Transfer : \A s \in QueuedIn(t) \cup gathered[t] :
       target[s] = t /\ spc[s] = "handed"
  /\ \A s \in open : spc[s] = "handed" => s \in QueuedIn(target[s]) \cup gathered[target[s]]

\* A transfer never runs over a stream the server itself has closed: neither
\* HandleStream's close nor drop's reaches a stream that was gathered.
UsableWhileRunning ==
  \A t \in Transfer : tpc[t] \in {"gathering", "running"} => QueuedIn(t) \cup gathered[t] \subseteq open

\* What a finished transfer leaves open is only what was sent to its channel
\* after drop had found it empty.
OnlyOvertakenLeft ==
  \A t \in Transfer : tpc[t] = "done" =>
    /\ gathered[t] \cap open = {}
    /\ QueuedIn(t) \subseteq overtaken

\* No transfer is kept waiting by connections its client failed to open.
TransfersEnd == \A t \in Transfer : (tpc[t] # "idle") ~> (tpc[t] = "done")

\* Every attach is handed over or refused.
AttachesEnd == \A s \in Stream : (spc[s] # "none") ~> (spc[s] \in {"handed", "refused"})

\* What drop's comment says: streams attached but never gathered are closed.
AllClosed == Settled => \A s \in open : spc[s] = "none"

-----------------------------------------------------------------------------
(* The inductive invariant                                                   *)

\* A stream is open until it is handed over; what is handed over stays open
\* until drop drains the channel; what is found in a drained channel overtook it.
HandedOpen ==
  /\ \A s \in Stream : spc[s] \in {"none", "lookup", "send"} => s \in open
  /\ \A s \in Stream : spc[s] \in {"send", "handed"} => target[s] \in Transfer
  /\ \A t \in Transfer : tpc[t] \notin {"draining", "closing", "done"} =>
       QueuedIn(t) \cup gathered[t] \subseteq open
  /\ \A t \in Transfer : tpc[t] = "closing" => QueuedIn(t) \subseteq overtaken

\* What the registry keeps, inductively: a stream has one owner, is handed over open, stays
\* usable while its transfer runs, and is left open only when it overtook the drain. With
\* the types: no channel of streams is ever overfull, no more are gathered than promised.
IInv == TypeOK /\ OneOwner /\ HandedOpen /\ UsableWhileRunning /\ OnlyOvertakenLeft
=============================================================================
