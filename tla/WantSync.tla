------------------------------- MODULE WantSync -------------------------------
(* The want loop of package wantsync: one Receive pulling the tree below     *)
(* Root into its store, and one Send per channel answering it.               *)
(*                                                                           *)
(* A round is: Scan the frontier into wants, deal at most MaxWants of them   *)
(* over the channels (TWants), decode every active channel's pack until its  *)
(* terminator, check that all that was asked arrived, and continue below the *)
(* objects received.  A round that wants nothing ends the loop with an empty *)
(* TWants on every channel.                                                  *)
EXTENDS ObjectGraph

CONSTANTS
  Channel,      \* the control stream and the gathered data streams
  Ctrl,         \* channels[0]
  Rogue,        \* channels whose far end need not be our Send (the peer is untrusted)
  RoguePacks,   \* the packs such a peer may send
  SenderStore,  \* the objects the sending side holds
  StartStores,  \* what the receiving store may hold before the first attempt
  OtherKeys,    \* objects other handlers may write to the same store meanwhile
  MaxWants,     \* maxWantsPerRound
  MaxFaults     \* bound: connection losses and crashes

ASSUME SyncAssumption ==
  /\ Ctrl \in Channel
  /\ Rogue \subseteq Channel
  /\ SenderStore \subseteq Key
  /\ StartStores \subseteq SUBSET Key
  /\ OtherKeys \subseteq Key
  /\ MaxWants \in Nat \ {0}
  /\ MaxFaults \in Nat

VARIABLES
  store,     \* objects held by the receiving store
  fresh,     \* of these, the ones the running WriteParallel added: a crash may lose them
  pc,        \* Receive: "idle", "scan", "round", "ok", "remote" or "local" (the error)
  frontier,  \* keys still to be looked at by Wants in this round
  wants,     \* keys Wants found missing so far in this round
  round,     \* keys this round asked for
  carry,     \* keys deferred by splitWants
  next,      \* children of the objects received this round
  received,  \* keys received this round
  active,    \* channels whose decoder is running
  errs,      \* errors of this round: "remote", "decode", "store"
  request,   \* request[c]: the TWants in flight on c, {} or a singleton
  pack,      \* pack[c]: the part of a pack in flight on c that is not decoded yet
  sender,    \* sender[c]: "none", "reading", "done", "failed", or "rogue" for a
             \* far end that is not our Send
  cut,       \* cut[c]: the connection under c is gone
  faults     \* connection losses and crashes so far

recv == <<pc, frontier, wants, round, carry, next, received, active, errs>>
wire == <<request, pack, sender, cut>>
vars == <<store, fresh, recv, wire, faults>>

\* A pack on the wire: genuine objects, objects whose bytes do not hash to the
\* key they claim, and what follows them: nothing yet, TDataEnd, TErr, or an
\* end of stream, a malformed record or a frame that has no place in a pack.
Pack == [objs : SUBSET Key, forged : SUBSET Key, term : {"open", "end", "err", "bad"}]
Empty == [objs |-> {}, forged |-> {}, term |-> "open"]

ASSUME RogueAssumption == \A p \in RoguePacks : p \in Pack /\ p.term # "open"

TypeOK ==
  /\ store \subseteq Key
  /\ fresh \subseteq store
  /\ pc \in {"idle", "scan", "round", "ok", "remote", "local"}
  /\ frontier \subseteq Key
  /\ wants \subseteq Key
  /\ round \subseteq Key
  /\ carry \subseteq Key
  /\ next \subseteq Key
  /\ received \subseteq Key
  /\ active \subseteq Channel
  /\ errs \subseteq {"remote", "decode", "store"}
  /\ request \in [Channel -> SUBSET (SUBSET Key)]
  /\ pack \in [Channel -> Pack]
  /\ sender \in [Channel -> {"none", "reading", "done", "failed", "rogue"}]
  /\ cut \in [Channel -> BOOLEAN]
  /\ faults \in 0..MaxFaults

Init ==
  /\ store \in StartStores
  /\ fresh = {}
  /\ pc = "idle"
  /\ frontier = {} /\ wants = {} /\ round = {} /\ carry = {}
  /\ next = {} /\ received = {} /\ active = {} /\ errs = {}
  /\ request = [c \in Channel |-> {}]
  /\ pack = [c \in Channel |-> Empty]
  /\ sender = [c \in Channel |-> "none"]
  /\ cut = [c \in Channel |-> FALSE]
  /\ faults = 0

-----------------------------------------------------------------------------
(* Receive                                                                   *)

\* A transfer starts, or is run again after it failed: new streams, the
\* frontier is the root, the store is what earlier attempts left.  (The Send
\* loops of the last attempt have seen their streams end; they share nothing
\* with the new ones.)  The far end
\* is our Send, or anything else on some channels of Rogue.
Begin ==
  /\ pc \in {"idle", "remote", "local"}
  /\ \A c \in Channel : sender[c] # "reading"
  /\ pc' = "scan"
  /\ frontier' = {Root}
  /\ wants' = {} /\ round' = {} /\ carry' = {}
  /\ next' = {} /\ received' = {} /\ active' = {} /\ errs' = {}
  /\ request' = [c \in Channel |-> {}]
  /\ pack' = [c \in Channel |-> Empty]
  /\ \E rogues \in SUBSET Rogue :
       sender' = [c \in Channel |-> IF c \in rogues THEN "rogue" ELSE "reading"]
  /\ cut' = [c \in Channel |-> FALSE]
  /\ UNCHANGED <<store, fresh, faults>>

\* One iteration of Wants; other handlers may write between two of them.
Scan(k) ==
  /\ pc = "scan"
  /\ k \in frontier
  /\ frontier' = frontier \ {k}
  /\ wants' = IF MustRequest(store, k) THEN wants \cup {k} ELSE wants
  /\ UNCHANGED <<store, fresh, pc, round, carry, next, received, active, errs, wire, faults>>

\* The store cannot tell whether it holds k: Wants and Receive end with its error.
ScanFails ==
  /\ pc = "scan" /\ frontier # {} /\ faults < MaxFaults
  /\ faults' = faults + 1
  /\ pc' = "local"
  /\ UNCHANGED <<store, fresh, frontier, wants, round, carry, next, received, active,
                 errs, wire>>

\* The channels that get the empty TWants: every one of them.
ReleasedOnlyCtrl == {Ctrl}
Released == Channel

\* Nothing is wanted: the empty TWants goes to every channel in turn, and a
\* write the transport refuses ends Receive with that error.
Finish ==
  /\ pc = "scan" /\ frontier = {} /\ wants = {}
  /\ \E written \in SUBSET Released :
       /\ \/ written = Released /\ pc' = "ok"
          \/ (\E c \in Released \ written : cut[c]) /\ pc' = "local"
       /\ request' = [c \in Channel |->
            IF c \in written /\ ~cut[c] THEN {{}} ELSE request[c]]
  /\ UNCHANGED <<store, fresh, frontier, wants, round, carry, next, received,
                 active, errs, pack, sender, cut, faults>>

\* splitWants: at most MaxWants keys are asked for now, the rest is carried.
Asks(w) == {ask \in SUBSET w :
  Cardinality(ask) = IF Cardinality(w) <= MaxWants THEN Cardinality(w) ELSE MaxWants}

\* dealWants: any distribution the observed throughputs may lead to.  With
\* nothing assigned yet ties go to the lower index, so the first key goes to Ctrl.
Deals(ask) == {deal \in [ask -> Channel] : \E k \in ask : deal[k] = Ctrl}
Shard(deal, c) == {k \in DOMAIN deal : deal[k] = c}

\* The channels that get a frame: an empty one would terminate its sender.
UsedAll(deal) == Channel
Used(deal) == {c \in Channel : Shard(deal, c) # {}}

\* The deal goes out and its decoders start.  A write to a lost connection is
\* refused, which ends Receive, or swallowed, and its decoder then finds the end.
DealRound ==
  /\ pc = "scan" /\ frontier = {} /\ wants # {}
  /\ \E ask \in Asks(wants) : \E deal \in Deals(ask) :
       /\ round' = ask
       /\ carry' = wants \ ask
       /\ request' = [c \in Channel |->
            IF c \in Used(deal) /\ ~cut[c] THEN {Shard(deal, c)} ELSE request[c]]
       /\ \/ pc' = "round" /\ active' = Used(deal)
          \/ (\E c \in Used(deal) : cut[c]) /\ pc' = "local" /\ active' = {}
  /\ wants' = {} /\ next' = {} /\ received' = {} /\ errs' = {}
  /\ UNCHANGED <<store, fresh, frontier, pack, sender, cut, faults>>

\* A decoder hands an object to the consumer, which records the receipt and
\* the children; WriteParallel verifies and stores it.
Deliver(c, k) ==
  /\ pc = "round" /\ c \in active /\ "store" \notin errs
  /\ k \in pack[c].objs
  /\ pack' = [pack EXCEPT ![c].objs = @ \ {k}]
  /\ received' = received \cup {k}
  /\ next' = next \cup Kids[k]
  /\ store' = store \cup {k}
  /\ fresh' = IF k \in store THEN fresh ELSE fresh \cup {k}
  /\ UNCHANGED <<pc, frontier, wants, round, carry, active, errs, request, sender, cut, faults>>

\* Without Verify, a forgery is not noticed.
DeliverForgedUnverified(c, k) ==
  /\ pc = "round" /\ c \in active /\ "store" \notin errs
  /\ k \in pack[c].forged
  /\ pack' = [pack EXCEPT ![c].forged = @ \ {k}]
  /\ received' = received \cup {k}
  /\ UNCHANGED <<store, fresh, pc, frontier, wants, round, carry, next, active, errs,
                 request, sender, cut, faults>>

\* The same for bytes that do not hash to their key.  The receipt is recorded
\* before verification fails; a leaf-shaped forgery, which names no children,
\* is the one that could hide a subtree.
DeliverForged(c, k) ==
  /\ pc = "round" /\ c \in active /\ "store" \notin errs
  /\ k \in pack[c].forged
  /\ pack' = [pack EXCEPT ![c].forged = @ \ {k}]
  /\ received' = received \cup {k}
  /\ errs' = errs \cup {"store"}
  /\ UNCHANGED <<store, fresh, pc, frontier, wants, round, carry, next, active,
                 request, sender, cut, faults>>

\* WriteParallel fails for a reason of its own: a full disk, say.
StoreFails ==
  /\ pc = "round" /\ "store" \notin errs /\ faults < MaxFaults
  /\ faults' = faults + 1
  /\ errs' = errs \cup {"store"}
  /\ UNCHANGED <<store, fresh, pc, frontier, wants, round, carry, next, received, active, wire>>

\* A decoder that stops at the pack's own end marker and leaves TDataEnd unread.
CloseDecoderUndrained(c) ==
  /\ pc = "round" /\ c \in active
  /\ pack[c].objs = {} /\ pack[c].forged = {} /\ pack[c].term # "open"
  /\ active' = active \ {c}
  /\ errs' = errs \cup (CASE pack[c].term = "end" -> {}
                          [] pack[c].term = "err" -> {"remote"}
                          [] pack[c].term = "bad" -> {"decode"})
  /\ UNCHANGED <<store, fresh, pc, frontier, wants, round, carry, next, received,
                 wire, faults>>

\* A decoder reaches what follows its pack's objects and consumes it: the drain
\* through TDataEnd leaves the channel at a frame boundary.
CloseDecoder(c) ==
  /\ pc = "round" /\ c \in active
  /\ pack[c].objs = {} /\ pack[c].forged = {} /\ pack[c].term # "open"
  /\ active' = active \ {c}
  /\ pack' = [pack EXCEPT ![c] = IF cut[c] THEN [Empty EXCEPT !.term = "bad"] ELSE Empty]
  /\ errs' = errs \cup (CASE pack[c].term = "end" -> {}
                          [] pack[c].term = "err" -> {"remote"}
                          [] pack[c].term = "bad" -> {"decode"})
  /\ UNCHANGED <<store, fresh, pc, frontier, wants, round, carry, next, received,
                 request, sender, cut, faults>>

\* After a store error nobody reads merged any more: a decoder that has an object
\* to hand over finds done closed and stops, or leaves it in the buffer and reads
\* on.  One that waits for its peer goes on waiting.
AbandonDecoder(c) ==
  /\ pc = "round" /\ c \in active /\ "store" \in errs
  /\ pack[c].objs \cup pack[c].forged # {}
  /\ \/ active' = active \ {c} /\ UNCHANGED pack
     \/ pack' = [pack EXCEPT ![c] = [Empty EXCEPT !.term = pack[c].term]] /\ UNCHANGED active
  /\ UNCHANGED <<store, fresh, pc, frontier, wants, round, carry, next, received, errs,
                 request, sender, cut, faults>>

\* checkDelivered, judged by what arrived in the packs of this round and not by
\* presence: a key asked for because it is present but incomplete would pass.
DeliveredIfPresent == round \subseteq store
DeliveredWithCarry == round \cup carry \subseteq received
Delivered == round \subseteq received

\* The error precedence of Receive: the peer's own error first, then decode
\* and store errors, then checkDelivered.
RoundFails ==
  /\ pc = "round" /\ active = {}
  /\ errs # {} \/ ~Delivered
  /\ pc' = IF "remote" \in errs THEN "remote" ELSE "local"
  /\ fresh' = {}
  /\ UNCHANGED <<store, frontier, wants, round, carry, next, received, active, errs, wire, faults>>

\* Where the next round looks: below what arrived, and at what was carried over.
NextFrontierNoCarry == next
NextFrontier == next \cup carry

\* Everything asked for arrived: go on below it, with what was carried over.
NextRound ==
  /\ pc = "round" /\ active = {}
  /\ errs = {} /\ Delivered
  /\ pc' = "scan"
  /\ frontier' = NextFrontier
  /\ wants' = {} /\ round' = {} /\ carry' = {} /\ next' = {} /\ received' = {}
  /\ fresh' = {}
  /\ UNCHANGED <<store, active, errs, wire, faults>>

-----------------------------------------------------------------------------
(* Send, one per channel                                                     *)

\* A TWants is answered with exactly the objects asked for.  An object that is
\* absent, or cannot be read (a fault), stops the pack, a TErr takes the place of
\* its end, and Send returns the error; which objects went before it is up to
\* SortByLocation.
SendRound(c) ==
  /\ sender[c] = "reading" /\ ~cut[c] /\ pc \in {"scan", "round"}
  /\ pack[c] = Empty
  /\ \E keys \in request[c] :
       /\ keys # {}
       /\ \/ /\ keys \subseteq SenderStore
             /\ pack' = [pack EXCEPT ![c] = [Empty EXCEPT !.objs = keys, !.term = "end"]]
             /\ UNCHANGED <<sender, faults>>
          \/ /\ \/ ~(keys \subseteq SenderStore) /\ UNCHANGED faults
                \/ faults < MaxFaults /\ faults' = faults + 1
             /\ \E sent \in SUBSET (keys \cap SenderStore) :
                  /\ sent # keys
                  /\ pack' = [pack EXCEPT ![c] = [Empty EXCEPT !.objs = sent, !.term = "err"]]
             /\ sender' = [sender EXCEPT ![c] = "failed"]
  /\ request' = [request EXCEPT ![c] = {}]
  /\ UNCHANGED <<store, fresh, recv, cut>>

\* The empty TWants ends the loop.
SendDone(c) ==
  /\ sender[c] = "reading"
  /\ {} \in request[c]
  /\ sender' = [sender EXCEPT ![c] = "done"]
  /\ request' = [request EXCEPT ![c] = {}]
  /\ UNCHANGED <<store, fresh, recv, pack, cut, faults>>

\* The stream ends under Send: the connection is lost, or Receive returned an
\* error (or died) and the streams were closed.
SendBroken(c) ==
  /\ sender[c] = "reading"
  /\ cut[c] \/ pc \in {"idle", "remote", "local"}
  /\ sender' = [sender EXCEPT ![c] = "failed"]
  /\ request' = [request EXCEPT ![c] = {}]
  /\ UNCHANGED <<store, fresh, recv, pack, cut, faults>>

\* An untrusted peer sends any pack, asked for or not.
RoguePack(c) ==
  /\ sender[c] = "rogue" /\ ~cut[c] /\ pc \in {"scan", "round"}
  /\ pack[c] = Empty
  /\ \E p \in RoguePacks : pack' = [pack EXCEPT ![c] = p]
  /\ request' = [request EXCEPT ![c] = {}]
  /\ UNCHANGED <<store, fresh, recv, sender, cut, faults>>

-----------------------------------------------------------------------------
(* The environment                                                           *)

\* Another handler stores an object it received and verified.
OtherWrite(k) ==
  /\ k \in OtherKeys \ store
  /\ store' = store \cup {k}
  /\ UNCHANGED <<fresh, recv, wire, faults>>

\* The connection under c is lost with some, all or nothing of what it carries.
Cut(c) ==
  /\ faults < MaxFaults /\ ~cut[c] /\ pc \in {"scan", "round"}
  /\ faults' = faults + 1
  /\ cut' = [cut EXCEPT ![c] = TRUE]
  /\ \E kept \in {{}, request[c]} : request' = [request EXCEPT ![c] = kept]
  /\ \/ \E objs \in SUBSET pack[c].objs :
          pack' = [pack EXCEPT ![c] = [@ EXCEPT !.objs = objs, !.term = "bad"]]
     \/ pack[c].term # "open" /\ UNCHANGED pack
  /\ UNCHANGED <<store, fresh, recv, sender>>

CrashKeepsFresh ==
  /\ faults < MaxFaults /\ pc \in {"scan", "round"}
  /\ faults' = faults + 1
  /\ \E lost \in SUBSET fresh : store' = store \ lost
  /\ pc' = "idle"
  /\ active' = {}
  /\ request' = [c \in Channel |-> {}]
  /\ pack' = [c \in Channel |-> Empty]
  /\ UNCHANGED <<fresh, frontier, wants, round, carry, next, received, errs, sender, cut>>

\* The receiving process dies: what WriteParallel had not made durable may be
\* lost, parents and children alike.
Crash ==
  /\ faults < MaxFaults /\ pc \in {"scan", "round"}
  /\ faults' = faults + 1
  /\ \E lost \in SUBSET fresh : store' = store \ lost
  /\ fresh' = {}
  /\ pc' = "idle"
  /\ active' = {}
  /\ request' = [c \in Channel |-> {}]
  /\ pack' = [c \in Channel |-> Empty]
  /\ UNCHANGED <<frontier, wants, round, carry, next, received, errs, sender, cut>>

\* Every transfer has ended and nobody runs it again.
Done ==
  /\ pc = "ok"
  /\ \A c \in Channel : sender[c] # "reading"
  /\ UNCHANGED vars

Decode(c) == CloseDecoder(c) \/ \E k \in Key : Deliver(c, k) \/ DeliverForged(c, k)

Next ==
  \/ Begin \/ ScanFails \/ Finish \/ DealRound \/ StoreFails \/ RoundFails \/ NextRound \/ Crash \/ Done
  \/ \E k \in Key : Scan(k) \/ OtherWrite(k)
  \/ \E c \in Channel :
       \/ SendRound(c) \/ SendDone(c) \/ SendBroken(c) \/ RoguePack(c)
       \/ AbandonDecoder(c) \/ Cut(c)
       \/ CloseDecoder(c)
       \/ \E k \in Key : Deliver(c, k) \/ DeliverForged(c, k)

Spec == Init /\ [][Next]_vars

\* The goroutines of Receive and Send run as long as they can.
RunFairness ==
  /\ WF_vars(Finish \/ DealRound \/ RoundFails \/ NextRound \/ \E k \in Key : Scan(k))
  /\ \A c \in Channel :
       /\ WF_vars(Decode(c) \/ AbandonDecoder(c))
       /\ WF_vars(SendRound(c) \/ SendDone(c) \/ SendBroken(c))

FairSpec == Spec /\ RunFairness

\* The same with a user (or a script) who runs a failed transfer again.
RetrySpec == FairSpec /\ WF_vars(Begin)

-----------------------------------------------------------------------------
(* Properties                                                                *)

Honest == \A c \in Channel : sender[c] # "rogue"

\* A Receive that reports success left the whole tree in the store, whatever
\* the peer sent, whatever was lost and whoever else wrote: Receive's contract.
SyncedOnOk == pc = "ok" => Complete(store, Root)

\* A Send that returned without an error was released by a receiver that has
\* the whole tree, on every channel, even when Receive then failed on another
\* channel: runSenders takes this return as "transferred".
SenderReleased == \A c \in Channel : sender[c] = "done" => Complete(store, Root)

\* Between rounds no channel of an honest peer still carries a frame of the
\* round before: the drain through TDataEnd keeps the streams frame-aligned.
AlignedAtScan ==
  pc = "scan" => \A c \in Channel :
    sender[c] # "rogue" /\ ~cut[c] => request[c] = {} /\ pack[c] = Empty

\* With an honest sender that has the tree, nothing but a fault fails a
\* transfer: no interleaving of channels, of carried-over keys or of other
\* handlers' writes makes Receive report an omission or a protocol error.
NoSpuriousFailure ==
  (Honest /\ Complete(SenderStore, Root) /\ faults = 0)
    => pc \notin {"remote", "local"}

\* Every attempt with our Send at the far ends comes to its end: the decoders of a failed
\* round, of a channel that was cut and of a sender that gave up do not leave
\* Receive waiting.
AttemptEnds == (pc \in {"scan", "round"} /\ Honest) ~> (pc \notin {"scan", "round"})

\* Run again after failures, a transfer from a sender that has the tree
\* completes once the faults and the rogues stop: the store they left, parents
\* without children included, is never a dead end.
EventuallySynced == <>[]Honest => <>(pc = "ok")

\* Every Send loop of an attempt without a rogue returns: none is left reading.
SendersReturn ==
  \A c \in Channel : (sender[c] = "reading" /\ Honest) ~> (sender[c] # "reading")

\* The result a caller of Receive sees.
Result == CASE pc \in {"scan", "round"} -> "running"
            [] pc \in {"remote", "local"} -> "failed"
            [] pc = "ok" -> "ok"
            [] pc = "idle" -> "none"

Abstract == INSTANCE SyncContract WITH result <- Result

\* The want loop implements the contract: rounds, shards, errors, packs and
\* interleavings are steps that either store objects or change nothing.
Contract == Abstract!Spec

-----------------------------------------------------------------------------
(* The inductive invariant behind SyncedOnOk                                 *)

\* The keys the running attempt still has to account for.
Outstanding == IF pc = "scan" THEN frontier \cup wants ELSE round \cup carry

\* If every outstanding key becomes complete, so is the root: pruning, dealing,
\* carrying over and advancing to the children never forget a key.
Accounted ==
  pc \in {"scan", "round"} =>
    \A S \in SUBSET Key :
      (store \subseteq S /\ \A k \in Outstanding : Complete(S, k)) => Complete(S, Root)

\* What was received without a store error is stored, its children noted.
ReceivedStored ==
  (pc = "round" /\ "store" \notin errs) =>
    /\ received \subseteq store
    /\ \A k \in received : Kids[k] \subseteq next

\* An empty TWants is in flight only when the tree is complete.
FinalOnlyWhenSynced == \A c \in Channel : {} \in request[c] => Complete(store, Root)

\* Nobody has been released while the attempt runs, and it has asked for something.
NoneReleased ==
  pc \in {"scan", "round"} => \A c \in Channel : sender[c] # "done" /\ {} \notin request[c]

\* One frame at a time on a channel of our Send that holds: the request until it
\* is answered, then its pack until the decoder is through; what a decoder leaves
\* behind, it leaves after a store error.
Framed ==
  \A c \in Channel : (sender[c] # "rogue" /\ ~cut[c]) =>
    /\ pc = "scan" => request[c] = {} /\ pack[c] = Empty
    /\ pc = "round" =>
         /\ request[c] = {} \/ (c \in active /\ pack[c] = Empty)
         /\ \A x, y \in request[c] : x = y
         /\ c \in active \/ "store" \in errs \/ pack[c] = Empty

\* While nothing has gone wrong: the sender has every key that is asked for or
\* may be, and every key of the round has arrived or is under way to a decoder.
Faultless ==
  (Honest /\ Complete(SenderStore, Root) /\ faults = 0) =>
    /\ pc \notin {"remote", "local"}
    /\ \A c \in Channel : ~cut[c]
    /\ pc \in {"scan", "round"} =>
         /\ errs = {}
         /\ \A c \in Channel : sender[c] = "reading"
         /\ \A k \in Outstanding \cup next : Complete(SenderStore, k)
    /\ pc = "round" =>
         /\ \A c \in Channel :
              /\ \A keys \in request[c] : keys \subseteq round
              /\ pack[c].objs \subseteq round /\ pack[c].forged = {}
              /\ pack[c].term \in {"open", "end"}
         /\ \A k \in round \ received :
              \E c \in active : k \in pack[c].objs \/ \E keys \in request[c] : k \in keys

IInv ==
  /\ TypeOK
  /\ Accounted
  /\ ReceivedStored
  /\ FinalOnlyWhenSynced
  /\ NoneReleased
  /\ SyncedOnOk
  /\ SenderReleased
  /\ Framed
  /\ Faultless
=============================================================================
