---------------------------- MODULE ShardedTransfer ----------------------------
(* One transfer over several connections, from both ends: the client opens   *)
(* and attaches its data streams (attachExtras) while the server gathers     *)
(* them, and then each end runs over the streams IT counts as attached.  On  *)
(* a push the server receives and the client runs one Send per stream; on a  *)
(* pull it is the other way round.                                           *)
(*                                                                           *)
(* The want loop is reduced to what its channels see: a round asks some      *)
(* channels, always the control one, and waits for all of them; the last     *)
(* round ends every channel with an empty TWants.                            *)
EXTENDS Integers, FiniteSets

CONSTANTS
  Extra,       \* the extra connections, numbered in the order they are opened
  Mode,        \* transfers to choose from: a push or a pull, and whether every
               \* attach reaches the server before gather's deadline
  MaxRounds,   \* bound: rounds of the want loop
  MaxFaults    \* bound: connections not opened or cut, failures of Receive or of the commit

ASSUME ShardAssumption ==
  /\ IsFiniteSet(Extra) /\ Extra = 1..Cardinality(Extra)
  /\ Mode \subseteq [push : BOOLEAN, punctual : BOOLEAN]
  /\ MaxRounds \in Nat \ {0}
  /\ MaxFaults \in Nat

Ctrl == 0
Stream == {Ctrl} \cup Extra

VARIABLES
  mode,
  opening,    \* the next extra the client opens; past the last one when it is done
  attached,   \* extras on which the client wrote TAttach
  server,     \* server[i]: "away", "queued", "gathered", "refused", "dropped" (closed
              \* while queued) or "closed" (gathered and closed at the end)
  gathering,  \* "wait", "over" (gather returned) or "dropped"
  receiver,   \* Receive: "setup", "asking", "waiting", "done" or "failed"
  rounds,     \* rounds so far
  asked,      \* channels the running round waits for
  frame,      \* frame[i]: "none", "wants" or "final", on its way to the sender on i
  sender,     \* sender[i]: "off", "reading", "done" or "failed"
  published,  \* the ref is in the refstore
  answer,     \* push: "none", "TOK", "TErr" or "lost" with the control connection
  client,     \* the command's result: "running", "ok" or "failed"
  faults

vars == <<opening, attached, server, gathering, receiver, rounds, asked, frame, sender,
          published, answer, client, faults, mode>>

TypeOK ==
  /\ mode \in Mode
  /\ opening \in 1..(Cardinality(Extra) + 1)
  /\ attached \subseteq Extra
  /\ server \in [Extra -> {"away", "queued", "gathered", "refused", "dropped", "closed"}]
  /\ gathering \in {"wait", "over", "dropped"}
  /\ receiver \in {"setup", "asking", "waiting", "done", "failed"}
  /\ rounds \in 0..MaxRounds
  /\ asked \subseteq Stream
  /\ frame \in [Stream -> {"none", "wants", "final"}]
  /\ sender \in [Stream -> {"off", "reading", "done", "failed"}]
  /\ published \in BOOLEAN
  /\ answer \in {"none", "TOK", "TErr", "lost"}
  /\ client \in {"running", "ok", "failed"}
  /\ faults \in 0..MaxFaults

Init ==
  /\ mode \in Mode
  /\ opening = 1 /\ attached = {}
  /\ server = [i \in Extra |-> "away"]
  /\ gathering = "wait"
  /\ receiver = "setup" /\ rounds = 0 /\ asked = {}
  /\ frame = [i \in Stream |-> "none"]
  /\ sender = [i \in Stream |-> "off"]
  /\ published = FALSE /\ answer = "none" /\ client = "running" /\ faults = 0

Gathered == {i \in Extra : server[i] = "gathered"}
ClientReady == opening \notin Extra
ServerReady == gathering # "wait"

\* The channels of either end: its control stream and what it counts as attached.
ClientChannels == {Ctrl} \cup attached
ServerChannels == {Ctrl} \cup Gathered
ReceiverChannels == IF mode.push THEN ServerChannels ELSE ClientChannels
SenderChannels == IF mode.push THEN ClientChannels ELSE ServerChannels

-----------------------------------------------------------------------------
(* Attaching                                                                 *)

\* The client opens the next connection and writes TAttach; it hears nothing back.
AttachNext ==
  /\ client = "running" /\ opening \in Extra
  /\ attached' = attached \cup {opening}
  /\ opening' = opening + 1
  /\ UNCHANGED <<server, gathering, receiver, rounds, asked, frame, sender, published,
                 answer, client, faults, mode>>

AttachFailsButListed ==
  /\ client = "running" /\ opening \in Extra
  /\ faults < MaxFaults /\ faults' = faults + 1
  /\ attached' = attached \cup {opening}
  /\ server' = [server EXCEPT ![opening] = "refused"]
  /\ opening' = Cardinality(Extra) + 1
  /\ UNCHANGED <<gathering, receiver, rounds, asked, frame, sender, published, answer,
                 client, mode>>

\* A connection that cannot be opened ends attaching; the transfer goes on with fewer.
AttachFails ==
  /\ client = "running" /\ opening \in Extra
  /\ faults < MaxFaults /\ faults' = faults + 1
  /\ opening' = Cardinality(Extra) + 1
  /\ UNCHANGED <<attached, server, gathering, receiver, rounds, asked, frame, sender,
                 published, answer, client, mode>>

\* TAttach reaches the server: queued for the transfer, or refused once the
\* token is dropped.
AttachArrives(i) ==
  /\ i \in attached /\ server[i] = "away"
  /\ server' = [server EXCEPT ![i] = IF gathering = "dropped" THEN "refused" ELSE "queued"]
  /\ UNCHANGED <<opening, attached, gathering, receiver, rounds, asked, frame, sender,
                 published, answer, client, faults, mode>>

GatherOne(i) ==
  /\ gathering = "wait" /\ server[i] = "queued"
  /\ server' = [server EXCEPT ![i] = "gathered"]
  /\ UNCHANGED <<opening, attached, gathering, receiver, rounds, asked, frame, sender,
                 published, answer, client, faults, mode>>

\* gather has all it was promised, or its deadline passes.  With a punctual client the
\* deadline passes only when no attach is still to come.
GatherOver ==
  /\ gathering = "wait"
  /\ mode.punctual => /\ ClientReady
                 /\ \A i \in attached : server[i] \notin {"away", "queued"}
  /\ gathering' = "over"
  /\ UNCHANGED <<opening, attached, server, receiver, rounds, asked, frame, sender,
                 published, answer, client, faults, mode>>

\* Either end starts its half once its own channels are settled.
StartReceiver ==
  /\ receiver = "setup" /\ (IF mode.push THEN ServerReady ELSE ClientReady)
  /\ receiver' = "asking"
  /\ UNCHANGED <<opening, attached, server, gathering, rounds, asked, frame, sender,
                 published, answer, client, faults, mode>>

StartCtrlSenderOnly ==
  /\ sender[Ctrl] = "off" /\ (IF mode.push THEN ClientReady ELSE ServerReady)
  /\ sender' = [sender EXCEPT ![Ctrl] = "reading"]
  /\ UNCHANGED <<opening, attached, server, gathering, receiver, rounds, asked, frame,
                 published, answer, client, faults, mode>>

StartSenders ==
  /\ sender[Ctrl] = "off" /\ (IF mode.push THEN ClientReady ELSE ServerReady)
  /\ sender' = [i \in Stream |-> IF i \in SenderChannels THEN "reading" ELSE "off"]
  /\ UNCHANGED <<opening, attached, server, gathering, receiver, rounds, asked, frame,
                 published, answer, client, faults, mode>>

-----------------------------------------------------------------------------
(* The want loop                                                             *)

AskRound ==
  /\ receiver = "asking" /\ rounds < MaxRounds
  /\ \E used \in SUBSET ReceiverChannels :
       /\ Ctrl \in used
       /\ asked' = used
       /\ frame' = [i \in Stream |-> IF i \in used THEN "wants" ELSE frame[i]]
  /\ rounds' = rounds + 1
  /\ receiver' = "waiting"
  /\ UNCHANGED <<opening, attached, server, gathering, sender, published, answer,
                 client, faults, mode>>

\* The sender on i answers with a pack.
AnswerRound(i) ==
  /\ sender[i] = "reading" /\ frame[i] = "wants"
  /\ frame' = [frame EXCEPT ![i] = "none"]
  /\ asked' = asked \ {i}
  /\ UNCHANGED <<opening, attached, server, gathering, receiver, rounds, sender,
                 published, answer, client, faults, mode>>

RoundOver ==
  /\ receiver = "waiting" /\ asked = {}
  /\ receiver' = "asking"
  /\ UNCHANGED <<opening, attached, server, gathering, rounds, asked, frame, sender,
                 published, answer, client, faults, mode>>

\* Nothing is missing: the empty TWants goes to every channel of the receiver.
LastRound ==
  /\ receiver = "asking"
  /\ frame' = [i \in Stream |-> IF i \in ReceiverChannels THEN "final" ELSE frame[i]]
  /\ receiver' = "done"
  /\ UNCHANGED <<opening, attached, server, gathering, rounds, asked, sender, published,
                 answer, client, faults, mode>>

\* A push publishes the ref, or the re-check, the collector's guard or the
\* refstore turns it down.
Commit ==
  /\ mode.push /\ receiver = "done" /\ answer = "none" /\ ~published
  /\ \/ published' = TRUE /\ UNCHANGED <<answer, faults>>
     \/ /\ faults < MaxFaults /\ faults' = faults + 1
        /\ answer' = "TErr" /\ UNCHANGED published
  /\ UNCHANGED <<opening, attached, server, gathering, receiver, rounds, asked, frame,
                 sender, client, mode>>

ReplyBeforeCommit ==
  /\ mode.push /\ receiver = "done" /\ answer = "none"
  /\ answer' = "TOK"
  /\ UNCHANGED <<opening, attached, server, gathering, receiver, rounds, asked, frame,
                 sender, published, client, faults, mode>>

\* TOK, which a cut of the control connection takes away with all that is still
\* on its way there.
Reply ==
  /\ mode.push /\ published /\ answer = "none"
  /\ \/ answer' = "TOK" /\ UNCHANGED faults
     \/ faults < MaxFaults /\ faults' = faults + 1 /\ answer' = "lost"
  /\ UNCHANGED <<opening, attached, server, gathering, receiver, rounds, asked, frame,
                 sender, published, client, mode>>

\* Receive fails; a server reports it on the control stream.
ReceiverFails ==
  /\ receiver \in {"asking", "waiting"} /\ faults < MaxFaults
  /\ faults' = faults + 1
  /\ receiver' = "failed"
  /\ answer' = IF mode.push THEN "TErr" ELSE answer
  /\ UNCHANGED <<opening, attached, server, gathering, rounds, asked, frame, sender,
                 published, client, mode>>

SenderDone(i) ==
  /\ sender[i] = "reading" /\ frame[i] = "final"
  /\ sender' = [sender EXCEPT ![i] = "done"]
  /\ frame' = [frame EXCEPT ![i] = "none"]
  /\ UNCHANGED <<opening, attached, server, gathering, receiver, rounds, asked,
                 published, answer, client, faults, mode>>

\* A Send whose stream was refused or closed by the server, that reads a TErr, or
\* whose connection is cut; on a pull, one whose client is gone, with whatever it
\* had still written.
SenderFails(i) ==
  /\ sender[i] = "reading"
  /\ \/ /\ mode.push /\ frame[i] = "none" /\ i \in Extra
        /\ server[i] \in {"refused", "dropped", "closed"}
     \/ mode.push /\ frame[i] = "none" /\ i = Ctrl /\ answer = "TErr"
     \/ mode.push /\ i = Ctrl /\ answer = "lost"
     \/ ~mode.push /\ client # "running"
  /\ sender' = [sender EXCEPT ![i] = "failed"]
  /\ UNCHANGED <<opening, attached, server, gathering, receiver, rounds, asked, frame,
                 published, answer, client, faults, mode>>

-----------------------------------------------------------------------------
(* The ends                                                                  *)

SendersEnded == sender[Ctrl] # "off" /\ \A i \in Stream : sender[i] # "reading"
HandlerDone == IF mode.push THEN answer # "none" ELSE SendersEnded

\* The server's handler ends: the token is dropped, what was queued or gathered
\* is closed.  Frames already written are still delivered.
Release ==
  /\ HandlerDone /\ gathering = "over"
  /\ gathering' = "dropped"
  /\ server' = [i \in Extra |->
       CASE server[i] = "queued" -> "dropped"
         [] server[i] = "gathered" -> "closed"
         [] OTHER -> server[i]]
  /\ UNCHANGED <<opening, attached, receiver, rounds, asked, frame, sender, published,
                 answer, client, faults, mode>>

PushResultOfCtrl ==
  /\ mode.push /\ client = "running" /\ SendersEnded
  /\ \/ sender[Ctrl] = "failed" /\ client' = "failed"
     \/ /\ sender[Ctrl] # "failed"
        /\ answer # "none"
        /\ client' = IF answer = "TOK" THEN "ok" ELSE "failed"
  /\ UNCHANGED <<opening, attached, server, gathering, receiver, rounds, asked, frame,
                 sender, published, answer, faults, mode>>

\* runSenders waits for every Send and joins their errors; only then is TOK read.
PushResult ==
  /\ mode.push /\ client = "running" /\ SendersEnded
  /\ \/ (\E i \in Stream : sender[i] = "failed") /\ client' = "failed"
     \/ /\ \A i \in Stream : sender[i] # "failed"
        /\ answer # "none"
        /\ client' = IF answer = "TOK" THEN "ok" ELSE "failed"
  /\ UNCHANGED <<opening, attached, server, gathering, receiver, rounds, asked, frame,
                 sender, published, answer, faults, mode>>

\* A pull ends with its Receive; the client closes every connection.
PullResult ==
  /\ ~mode.push /\ client = "running" /\ receiver \in {"done", "failed"}
  /\ client' = IF receiver = "done" THEN "ok" ELSE "failed"
  /\ UNCHANGED <<opening, attached, server, gathering, receiver, rounds, asked, frame,
                 sender, published, answer, faults, mode>>

Ended == client # "running" /\ gathering = "dropped"
Quiet == Ended /\ UNCHANGED vars

ClientStep == AttachNext \/ AttachFails \/ PushResult \/ PullResult

Next ==
  \/ AttachNext \/ AttachFails \/ GatherOver \/ StartReceiver \/ StartSenders
  \/ AskRound \/ RoundOver \/ LastRound \/ Commit \/ Reply \/ ReceiverFails
  \/ Release \/ PushResult \/ PullResult \/ Quiet
  \/ \E i \in Extra : AttachArrives(i) \/ GatherOne(i)
  \/ \E i \in Stream : AnswerRound(i) \/ SenderDone(i) \/ SenderFails(i)

Spec == Init /\ [][Next]_vars

\* Both programs run on, frames arrive, gather's timer fires.
FairSpec ==
  /\ Spec
  /\ WF_vars(ClientStep) /\ WF_vars(GatherOver) /\ WF_vars(Release)
  /\ \A i \in Extra : WF_vars(AttachArrives(i)) /\ WF_vars(GatherOne(i))
  /\ WF_vars(StartReceiver) /\ WF_vars(StartSenders)
  /\ WF_vars(AskRound \/ RoundOver \/ LastRound \/ Commit \/ Reply)
  /\ \A i \in Stream : WF_vars(AnswerRound(i) \/ SenderDone(i) \/ SenderFails(i))

-----------------------------------------------------------------------------
(* Properties                                                                *)

\* The streams on which the server's Receive ran.
Received == {i \in Extra : server[i] \in {"gathered", "closed"}}

\* A client reports a push as done only if the ref is published and both ends
\* ran the transfer over the same streams: an attach that came too late for
\* gather, was turned away or was dropped from the queue is never passed over,
\* whatever arrived when.
OkIsAgreed == (mode.push /\ client = "ok") => published /\ attached \subseteq Received

\* If no attach is late, a failure of Receive or of the commit and the loss of the
\* control connection are the only ways to fail: fewer connections than promised
\* do not make a push or a pull fail.
LenientWhenPunctual ==
  (mode.punctual /\ client = "failed") => receiver = "failed" \/ answer \in {"TErr", "lost"}

\* If no attach is late, both ends finish.
TransferEnds == mode.punctual => <>Ended

\* What gather says: a client that fails to open some connections must not
\* stall the transfer.
NeverStalls == <>(client # "running")

-----------------------------------------------------------------------------
(* The inductive invariant                                                   *)

\* With a punctual client both ends count the same streams once gather is over.
SameStreams ==
  mode.punctual =>
    /\ gathering # "wait" => ClientReady /\ \A i \in attached : server[i] \in {"gathered", "closed"}
    /\ \A i \in Extra : server[i] # "refused"

\* Streams are closed under a push only after its answer, which follows the
\* publication, which follows the end of Receive, which follows gather.
ServerOrder ==
  /\ \A i \in Extra : server[i] \in {"refused", "dropped", "closed"} => gathering = "dropped"
  /\ mode.push =>
       /\ gathering = "dropped" => answer # "none"
       /\ receiver # "setup" => gathering # "wait"
  /\ answer # "none" => receiver \in {"done", "failed"}
  /\ answer \in {"TOK", "lost"} => published
  /\ published => receiver = "done"

\* On a push a frame reaches, and ends, only the Send of a stream the server
\* gathered; the client starts a Send on every stream it attached.
SendsMatch ==
  mode.push =>
    /\ \A i \in Extra : frame[i] # "none" \/ sender[i] = "done" => i \in Received
    /\ sender[Ctrl] # "off" => ClientReady /\ \A i \in attached : sender[i] # "off"

\* On a punctual push every Send is given its final TWants before its stream is
\* closed, so none fails but with Receive or with the control connection.
SendersServed ==
  (mode.push /\ mode.punctual) =>
    /\ sender[Ctrl] = "off" => \A i \in Stream : sender[i] = "off"
    /\ \A i \in Stream : sender[i] = "reading" => i \in ClientChannels
    /\ receiver = "done" => \A i \in ClientChannels : frame[i] = "final" \/ sender[i] = "done"
    /\ \A i \in Stream : sender[i] = "failed" => receiver = "failed" \/ answer = "lost"

\* What ties the two ends, inductively: a punctual push serves every stream it
\* attached, its Sends fail only with the receiver or the control connection, and
\* success is announced after the commit and over the streams of both ends.
IInv ==
  /\ TypeOK
  /\ SameStreams
  /\ ServerOrder
  /\ SendsMatch
  /\ SendersServed
  /\ OkIsAgreed
  /\ LenientWhenPunctual
=============================================================================
