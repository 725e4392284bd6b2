------------------------------ MODULE RefService ------------------------------
(* Server.HandleStream: concurrent pushes, pulls, pins and ref lists over    *)
(* one object store and one refstore, with a collector that deletes what no  *)
(* ref names.  A push checks its precondition before the transfer and again  *)
(* under the per-name lock, then publishes the ref inside the collector's    *)
(* write barrier; the process may die between any two of these steps.  The   *)
(* transfer is taken at its contract (SyncContract): success means the whole *)
(* tree is in the object store.                                              *)
EXTENDS Integers, FiniteSets

CONSTANTS
  Handler,     \* HandleStream activations; each serves one request
  Name,        \* ref names
  Tree,        \* root keys
  NoTree,      \* the value of a ref that does not exist
  Request,     \* request frames; as in protocol.Msg, an operation ignores the fields it has no use for
  Workload,    \* which requests are made together
  StartRefs,   \* the refs the server may start with
  Guarded,     \* SetRefGuard was called: a collector runs
  NoHandler,
  MaxCrashes   \* bound

ASSUME ServiceAssumption ==
  /\ NoTree \notin Tree
  /\ NoHandler \notin Handler
  /\ Request \subseteq [op : {"push", "pull", "pin", "list"}, name : Name, names : SUBSET Name,
                        root : Tree, cas : BOOLEAN, old : Tree \cup {NoTree}]
  /\ Workload \subseteq [Handler -> Request]
  /\ StartRefs \subseteq [Name -> Tree \cup {NoTree}]
  /\ Guarded \in BOOLEAN
  /\ MaxCrashes \in Nat

VARIABLES
  value,      \* refstore: value[n]
  stored,     \* root keys whose whole tree is in the object store
  pc,         \* pc[h]: where its handler is
  req,        \* req[h]: its request
  resp,       \* resp[h]: the answer; "lost" when the client cannot have it
  took,       \* took[h]: its Put happened (history)
  lockOf,     \* refLocks: lockOf[n] is the mutex of n, named by who made it
  mutex,      \* mutex[h]: the mutex lockRef handed to h
  owner,      \* owner[m]: who holds mutex m
  guard,      \* guard[h]: "none", "prepared", "committed" or "aborted"
  got,        \* got[h]: the tree a pull resolved
  left,       \* left[h]: the names a pin has not looked up yet
  existed,    \* existed[h]: the names that existed when a pin was read (history)
  accessed,   \* names onAccess was called with
  pinned,     \* names onPin was called with
  crashes

\* What the handlers of pulls and pins change, what those of pushes do, and what both do.
readVars == <<got, left, existed, pinned>>
lockVars == <<lockOf, mutex, owner>>
pushVars == <<value, took, guard>>
vars == <<pc, req, resp, stored, accessed, crashes, pushVars, lockVars, readVars>>

Held == {"locked", "prepare", "put", "commit", "access", "reply", "unlock"}
Waiting == {"blocked"}
Serving == {"serve", "missed"}
Reading == {"pin"} \cup Serving
Steps == {"idle", "early", "transfer", "lookup", "answered"} \cup Waiting \cup Held \cup Reading
Answers == {"none", "ok", "mismatch", "unknown", "missing", "error", "lost"}
Barrier == {"none", "prepared", "committed", "aborted"}

TypeOK ==
  /\ value \in [Name -> Tree \cup {NoTree}]
  /\ stored \subseteq Tree
  /\ pc \in [Handler -> Steps]
  /\ req \in [Handler -> Request]
  /\ resp \in [Handler -> Answers]
  /\ took \in [Handler -> BOOLEAN]
  /\ lockOf \in [Name -> Handler \cup {NoHandler}]
  /\ mutex \in [Handler -> Handler \cup {NoHandler}]
  /\ owner \in [Handler -> Handler \cup {NoHandler}]
  /\ guard \in [Handler -> Barrier]
  /\ got \in [Handler -> Tree \cup {NoTree}]
  /\ left \in [Handler -> SUBSET Name]
  /\ existed \in [Handler -> SUBSET Name]
  /\ accessed \subseteq Name /\ pinned \subseteq Name
  /\ crashes \in 0..MaxCrashes

\* Every ref the server starts with was pushed before: its tree is there.
Init ==
  /\ value \in StartRefs
  /\ stored = {value[n] : n \in Name} \ {NoTree}
  /\ pc = [h \in Handler |-> "idle"]
  /\ req \in Workload
  /\ resp = [h \in Handler |-> "none"]
  /\ took = [h \in Handler |-> FALSE]
  /\ lockOf = [n \in Name |-> NoHandler]
  /\ mutex = [h \in Handler |-> NoHandler]
  /\ owner = [h \in Handler |-> NoHandler]
  /\ guard = [h \in Handler |-> "none"]
  /\ got = [h \in Handler |-> NoTree]
  /\ left = [h \in Handler |-> {}]
  /\ existed = [h \in Handler |-> {}]
  /\ accessed = {} /\ pinned = {}
  /\ crashes = 0

Goto(h, step) == pc' = [pc EXCEPT ![h] = step]
Answer(h, what) == resp' = [resp EXCEPT ![h] = what]
End(h, what) == Goto(h, "answered") /\ Answer(h, what)

\* checkCAS: nil means "the ref must not exist".
CasHolds(h) == req[h].cas => value[req[h].name] = req[h].old

-----------------------------------------------------------------------------
(* handlePush                                                                *)

\* The request is read and well formed; without a precondition the early check
\* is skipped.
Start(h) ==
  /\ pc[h] = "idle" /\ req[h].op = "push"
  /\ Goto(h, IF req[h].cas THEN "early" ELSE "transfer")
  /\ UNCHANGED <<req, resp, stored, accessed, crashes, pushVars, lockVars, readVars>>

\* The early precondition check: a stale request is turned away before any
\* transfer, and so is one whose ref cannot be read.
EarlyCheck(h) ==
  /\ pc[h] = "early"
  /\ \/ CasHolds(h) /\ Goto(h, "transfer") /\ UNCHANGED resp
     \/ ~CasHolds(h) /\ End(h, "mismatch")
     \/ End(h, "error")
  /\ UNCHANGED <<req, stored, accessed, crashes, pushVars, lockVars, readVars>>

\* shardChannels and Receive: success leaves the whole tree in the store, an
\* error of the token, the peer, the wire or the store ends the request.
Transfer(h) ==
  /\ pc[h] = "transfer"
  /\ \/ Goto(h, "lookup") /\ stored' = stored \cup {req[h].root} /\ UNCHANGED resp
     \/ End(h, "error") /\ UNCHANGED stored
  /\ UNCHANGED <<req, accessed, crashes, pushVars, lockVars, readVars>>

\* lockRef, under s.mu: find the mutex of the name or make one.
LookupLock(h) ==
  /\ pc[h] = "lookup"
  /\ LET n == req[h].name
         m == IF lockOf[n] = NoHandler THEN h ELSE lockOf[n] IN
     /\ lockOf' = [lockOf EXCEPT ![n] = m]
     /\ mutex' = [mutex EXCEPT ![h] = m]
  /\ Goto(h, "blocked")
  /\ UNCHANGED <<req, resp, stored, accessed, crashes, pushVars, owner, readVars>>

\* lockRef, after s.mu is released: l.Lock().
Acquire(h) ==
  /\ pc[h] = "blocked"
  /\ owner[mutex[h]] = NoHandler
  /\ owner' = [owner EXCEPT ![mutex[h]] = h]
  /\ Goto(h, "locked")
  /\ UNCHANGED <<req, resp, stored, accessed, crashes, pushVars, lockOf, mutex, readVars>>

RecheckSkipped(h) ==
  /\ pc[h] = "locked"
  /\ Goto(h, "prepare")
  /\ UNCHANGED <<req, resp, stored, accessed, crashes, pushVars, lockVars, readVars>>

RecheckFallsThrough(h) ==
  /\ pc[h] = "locked"
  /\ Goto(h, "prepare")
  /\ IF CasHolds(h) THEN UNCHANGED resp ELSE Answer(h, "mismatch")
  /\ UNCHANGED <<req, stored, accessed, crashes, pushVars, lockVars, readVars>>

\* The authoritative check, under the lock.
Recheck(h) ==
  /\ pc[h] = "locked"
  /\ \/ CasHolds(h) /\ Goto(h, "prepare") /\ UNCHANGED resp
     \/ ~CasHolds(h) /\ Goto(h, "unlock") /\ Answer(h, "mismatch")
     \/ Goto(h, "unlock") /\ Answer(h, "error")
  /\ UNCHANGED <<req, stored, accessed, crashes, pushVars, lockVars, readVars>>

PrepareCommitsAtOnce(h) ==
  /\ pc[h] = "prepare"
  /\ \/ ~Guarded /\ Goto(h, "put") /\ UNCHANGED <<resp, guard>>
     \/ /\ Guarded /\ req[h].root \in stored
        /\ guard' = [guard EXCEPT ![h] = "committed"]
        /\ Goto(h, "put") /\ UNCHANGED resp
     \/ Guarded /\ Goto(h, "unlock") /\ Answer(h, "error") /\ UNCHANGED guard
  /\ UNCHANGED <<req, stored, accessed, crashes, value, took, lockVars, readVars>>

\* guard.PrepareRef raises the collector's barrier around the root; it fails
\* when the collector has taken the tree since the transfer, or for a reason of
\* its own.
Prepare(h) ==
  /\ pc[h] = "prepare"
  /\ \/ ~Guarded /\ Goto(h, "put") /\ UNCHANGED <<resp, guard>>
     \/ /\ Guarded /\ req[h].root \in stored
        /\ guard' = [guard EXCEPT ![h] = "prepared"]
        /\ Goto(h, "put") /\ UNCHANGED resp
     \/ Guarded /\ Goto(h, "unlock") /\ Answer(h, "error") /\ UNCHANGED guard
  /\ UNCHANGED <<req, stored, accessed, crashes, value, took, lockVars, readVars>>

PutOk(h) ==
  /\ pc[h] = "put"
  /\ value' = [value EXCEPT ![req[h].name] = req[h].root]
  /\ took' = [took EXCEPT ![h] = TRUE]
  /\ Goto(h, IF Guarded THEN "commit" ELSE "access")
  /\ UNCHANGED <<req, resp, stored, accessed, crashes, guard, lockVars, readVars>>

\* A failed Put lowers the barrier again.
PutFails(h) ==
  /\ pc[h] = "put"
  /\ guard' = IF Guarded THEN [guard EXCEPT ![h] = "aborted"] ELSE guard
  /\ Goto(h, "unlock") /\ Answer(h, "error")
  /\ UNCHANGED <<req, stored, accessed, crashes, value, took, lockVars, readVars>>

CommitGuard(h) ==
  /\ pc[h] = "commit"
  /\ guard' = [guard EXCEPT ![h] = "committed"]
  /\ Goto(h, "access")
  /\ UNCHANGED <<req, resp, stored, accessed, crashes, value, took, lockVars, readVars>>

Access(h) ==
  /\ pc[h] = "access"
  /\ accessed' = accessed \cup {req[h].name}
  /\ Goto(h, "reply")
  /\ UNCHANGED <<req, resp, stored, crashes, pushVars, lockVars, readVars>>

\* TOK; the client may be gone.
Reply(h) ==
  /\ pc[h] = "reply"
  /\ \E what \in {"ok", "lost"} : Answer(h, what)
  /\ Goto(h, "unlock")
  /\ UNCHANGED <<req, stored, accessed, crashes, pushVars, lockVars, readVars>>

UnlockForgets(h) ==
  /\ pc[h] = "unlock"
  /\ owner' = [owner EXCEPT ![mutex[h]] = NoHandler]
  /\ lockOf' = [lockOf EXCEPT ![req[h].name] = NoHandler]
  /\ Goto(h, "answered")
  /\ UNCHANGED <<req, resp, stored, accessed, crashes, pushVars, mutex, readVars>>

UnlockOnlyOnOk(h) ==
  /\ pc[h] = "unlock"
  /\ owner' = IF resp[h] = "ok" THEN [owner EXCEPT ![mutex[h]] = NoHandler] ELSE owner
  /\ Goto(h, "answered")
  /\ UNCHANGED <<req, resp, stored, accessed, crashes, pushVars, lockOf, mutex, readVars>>

\* The deferred unlock, after the answer is written.  The entry of refLocks
\* stays: others may be waiting on this very mutex.
Unlock(h) ==
  /\ pc[h] = "unlock"
  /\ owner' = [owner EXCEPT ![mutex[h]] = NoHandler]
  /\ Goto(h, "answered")
  /\ UNCHANGED <<req, resp, stored, accessed, crashes, pushVars, lockOf, mutex, readVars>>

-----------------------------------------------------------------------------
(* handlePull, handlePin, handleRefList                                      *)

\* The ref is read once; what it names from then on is of no concern.
Resolve(h) ==
  /\ pc[h] = "idle" /\ req[h].op = "pull"
  /\ LET tree == value[req[h].name] IN
     \/ tree = NoTree /\ End(h, "unknown") /\ UNCHANGED <<got, accessed>>
     \/ /\ tree # NoTree
        /\ got' = [got EXCEPT ![h] = tree]
        /\ accessed' = accessed \cup {req[h].name}
        /\ Goto(h, "serve") /\ UNCHANGED resp
     \/ End(h, "error") /\ UNCHANGED <<got, accessed>>
  /\ UNCHANGED <<req, stored, crashes, pushVars, lockVars, left, existed, pinned>>

\* A Send reads an object that is gone: nothing keeps the collector from a tree
\* that is being served.  TErr goes to that channel; the other Sends go on.
Misses(h) ==
  /\ pc[h] = "serve" /\ got[h] \notin stored
  /\ Goto(h, "missed")
  /\ UNCHANGED <<req, resp, stored, accessed, crashes, pushVars, lockVars, readVars>>

\* The offer fails or the last Send ends.  A Send ends when its peer, the
\* client, lets it: it waits for the next wants without a deadline.
Serve(h) ==
  /\ \/ pc[h] = "serve" /\ \E what \in {"ok", "error", "lost"} : End(h, what)
     \/ pc[h] = "missed" /\ \E what \in {"missing", "lost"} : End(h, what)
  /\ UNCHANGED <<req, stored, accessed, crashes, pushVars, lockVars, readVars>>

StartPin(h) ==
  /\ pc[h] = "idle" /\ req[h].op = "pin"
  /\ left' = [left EXCEPT ![h] = req[h].names]
  /\ existed' = [existed EXCEPT ![h] = {n \in req[h].names : value[n] # NoTree}]
  /\ Goto(h, "pin")
  /\ UNCHANGED <<req, resp, stored, accessed, crashes, pushVars, lockVars, got, pinned>>

PinNextSwallows(h) ==
  /\ pc[h] = "pin"
  /\ \E n \in left[h] :
       /\ left' = [left EXCEPT ![h] = left[h] \ {n}]
       /\ \/ UNCHANGED pinned
          \/ value[n] # NoTree /\ pinned' = pinned \cup {n}
  /\ UNCHANGED <<pc, req, resp, stored, accessed, crashes, pushVars, lockVars, got, existed>>

\* One name: a missing one is passed over, an error of the refstore ends the
\* request after some names were pinned.
PinNext(h) ==
  /\ pc[h] = "pin"
  /\ \E n \in left[h] :
       \/ /\ left' = [left EXCEPT ![h] = left[h] \ {n}]
          /\ pinned' = IF value[n] = NoTree THEN pinned ELSE pinned \cup {n}
          /\ UNCHANGED <<pc, resp>>
       \/ End(h, "error") /\ UNCHANGED <<left, pinned>>
  /\ UNCHANGED <<req, stored, accessed, crashes, pushVars, lockVars, got, existed>>

PinDone(h) ==
  /\ pc[h] = "pin" /\ left[h] = {}
  /\ \E what \in {"ok", "lost"} : End(h, what)
  /\ UNCHANGED <<req, stored, accessed, crashes, pushVars, lockVars, readVars>>

\* handleRefList: one read of all refs; a list too long for a frame is not sent.
List(h) ==
  /\ pc[h] = "idle" /\ req[h].op = "list"
  /\ \E what \in {"ok", "error", "lost"} : End(h, what)
  /\ UNCHANGED <<req, stored, accessed, crashes, pushVars, lockVars, readVars>>

-----------------------------------------------------------------------------
(* The environment                                                           *)

\* The collector takes a tree that no ref names and no barrier protects.
Collect ==
  /\ Guarded
  /\ \E t \in stored :
       /\ \A n \in Name : value[n] # t
       /\ \A h \in Handler : guard[h] = "prepared" => req[h].root # t
       /\ stored' = stored \ {t}
  /\ UNCHANGED <<pc, req, resp, accessed, crashes, pushVars, lockVars, readVars>>

\* The server process dies and is started again: refs and stored trees are
\* durable, handlers, locks and barriers are not.
Crash ==
  /\ crashes < MaxCrashes
  /\ crashes' = crashes + 1
  /\ LET died == {h \in Handler : pc[h] \notin {"idle", "answered"}} IN
     /\ pc' = [h \in Handler |-> IF h \in died THEN "answered" ELSE pc[h]]
     /\ resp' = [h \in Handler |-> IF h \in died /\ resp[h] = "none" THEN "lost" ELSE resp[h]]
     /\ guard' = [h \in Handler |-> IF h \in died THEN "none" ELSE guard[h]]
  /\ lockOf' = [n \in Name |-> NoHandler]
  /\ owner' = [h \in Handler |-> NoHandler]
  /\ UNCHANGED <<req, stored, accessed, value, took, mutex, readVars>>

\* Every request is answered.
Done ==
  /\ \A h \in Handler : pc[h] = "answered"
  /\ UNCHANGED vars

\* The request frame is read.
Begin(h) == Start(h) \/ Resolve(h) \/ StartPin(h) \/ List(h)

\* Steps that need nothing of the client but that a frame of a few bytes can be
\* written to it.
OwnStep(h) ==
  \/ EarlyCheck(h) \/ LookupLock(h) \/ Acquire(h) \/ Recheck(h) \/ Prepare(h)
  \/ PutOk(h) \/ PutFails(h) \/ CommitGuard(h) \/ Access(h) \/ Reply(h) \/ Unlock(h)
  \/ PinNext(h) \/ PinDone(h)

\* Steps that wait for what the client sends, without a deadline.
PeerStep(h) == Transfer(h) \/ Misses(h) \/ Serve(h)

Step(h) == OwnStep(h) \/ PeerStep(h)

Next == Crash \/ Collect \/ Done \/ \E h \in Handler : Begin(h) \/ Step(h)

Spec == Init /\ [][Next]_vars

\* A handler's goroutine runs on, except where it waits for its peer: nothing
\* makes a client send, so PeerStep has no fairness.  sync.Mutex hands itself to
\* the longest waiter (starvation mode), so a handler that finds its mutex free
\* again and again gets it.
FairSpec ==
  /\ Spec
  /\ \A h \in Handler : WF_vars(OwnStep(h)) /\ SF_vars(Acquire(h))

-----------------------------------------------------------------------------
(* Properties                                                                *)

\* Re-check and publication of one name exclude each other (lockRef).
MutualExclusion ==
  \A g, h \in Handler :
    (g # h /\ pc[g] \in Held /\ pc[h] \in Held) => req[g].name # req[h].name

\* A ref names only trees the object store holds completely: the ref is
\* published after the transfer, a crash between the two leaves no ref, and the
\* collector, who may take the tree as soon as the transfer is over, finds the
\* barrier up from before the Put until the ref itself protects it.
RefsComplete == \A n \in Name : value[n] # NoTree => value[n] \in stored

\* The client is told "ok" only of a published ref, and "mismatch" or "error"
\* only of a push that changed nothing.
AnswersTrue ==
  \A h \in Handler : req[h].op = "push" =>
    /\ resp[h] = "ok" => took[h]
    /\ resp[h] \in {"mismatch", "error"} => ~took[h]

\* The collector's barrier is up whenever a ref is being published, and is
\* lowered exactly once: committed if the ref was written, aborted if not.
GuardBrackets ==
  \A h \in Handler :
    /\ (Guarded /\ pc[h] \in {"put", "commit"}) => guard[h] = "prepared"
    /\ pc[h] \notin {"put", "commit"} => guard[h] # "prepared"
    /\ ~Guarded => guard[h] = "none" /\ pc[h] # "commit"
    /\ guard[h] = "committed" => took[h]
    /\ guard[h] = "aborted" => ~took[h]

\* The hooks of handlePin and handlePull hear of refs that exist, whatever is
\* pushed meanwhile; a pin that is answered with TOK has pinned every name that
\* existed when it was read, and nobody is served or told of a commit without
\* onAccess.
HooksTrue ==
  /\ \A n \in accessed \cup pinned : value[n] # NoTree
  /\ \A h \in Handler :
       /\ (req[h].op = "pin" /\ resp[h] = "ok") => existed[h] \subseteq pinned
       /\ (req[h].op # "list" /\ req[h].op # "pin") =>
            (pc[h] \in Serving \/ resp[h] = "ok" => req[h].name \in accessed)

\* A pull misses an object only if its ref no longer names the tree the pull
\* resolved when the read fails: no crash, no collector and no push of another
\* name takes away what the ref still names.
PullStable ==
  [][\A h \in Handler : (pc[h] = "serve" /\ pc'[h] = "missed") =>
       value[req[h].name] # got[h]]_vars

\* The steps at which a handler waits for its own client.
AtPeer == {"transfer"} \cup Serving

\* A handler stops for ever only at its own client: every other handler comes to
\* its answer, or to its client.  No error path keeps a lock, and a client that
\* falls silent in a transfer keeps no handler of another client waiting, for
\* the lock is taken after the transfer and given back before the next one.
OnlyOwnPeerBlocks ==
  \A h \in Handler : (pc[h] # "idle") ~> (pc[h] = "answered" \/ pc[h] \in AtPeer)

PushOutcome(h) ==
  CASE took[h] -> "applied"
    [] ~took[h] /\ resp[h] = "mismatch" -> "rejected"
    [] ~took[h] /\ resp[h] \in {"error", "lost"} -> "failed"
    [] ~took[h] /\ resp[h] = "none" /\ pc[h] # "idle" -> "pending"
    [] OTHER -> "none"

PullOutcome(h) == IF got[h] # NoTree \/ resp[h] = "unknown" THEN "read" ELSE "none"

OutcomeOf(h) ==
  CASE req[h].op = "push" -> PushOutcome(h)
    [] req[h].op = "pull" -> PullOutcome(h)
    [] OTHER -> "none"

Outcome == [h \in Handler |-> OutcomeOf(h)]

Register == INSTANCE CasRegister WITH outcome <- Outcome

\* Concurrent pushes and pulls are compare-and-swaps and reads of a register per
\* name: the early check, the transfer, the lock, the collector and the crash
\* are invisible.
Linearizable == Register!Spec

-----------------------------------------------------------------------------
(* The inductive invariant                                                   *)

\* Between looking up and releasing, the handlers of one name use the one mutex
\* the map holds for it, and two names never share a mutex.
OneMutex ==
  /\ \A h \in Handler : pc[h] \in Held \cup Waiting =>
       mutex[h] # NoHandler /\ mutex[h] = lockOf[req[h].name]
  /\ \A n \in Name : lockOf[n] # NoHandler =>
       req[lockOf[n]].name = n /\ pc[lockOf[n]] \notin {"idle", "early", "transfer", "lookup"}

HolderOwns == \A h \in Handler : pc[h] \in Held => owner[mutex[h]] = h

\* Between the check under the lock and the Put nobody changes the ref.
CheckStands == \A h \in Handler : pc[h] \in {"prepare", "put"} => CasHolds(h)

\* What was transferred stays until the answer when nothing collects, and behind
\* the barrier when something does.
Transferred ==
  \A h \in Handler :
    (IF Guarded THEN guard[h] = "prepared" ELSE pc[h] \in Held \cup Waiting \cup {"lookup"})
      => req[h].root \in stored

\* What has been answered and written so far, by program counter.
Progress ==
  \A h \in Handler :
    /\ pc[h] \notin {"unlock", "answered"} => resp[h] = "none"
    /\ pc[h] \in {"commit", "access", "reply"} => took[h]
    /\ pc[h] \notin {"commit", "access", "reply", "unlock", "answered"} => ~took[h]
    /\ pc[h] \in {"unlock", "answered"} => resp[h] # "none"
    /\ req[h].op # "push" => pc[h] \in {"idle", "answered"} \cup Reading /\ ~took[h]
    /\ took[h] => value[req[h].name] # NoTree
    /\ pc[h] = "reply" => req[h].name \in accessed

\* What the readers have seen: no ref is ever removed, so what existed still does.
Reads ==
  \A h \in Handler :
    /\ pc[h] \in Serving => req[h].op = "pull" /\ got[h] # NoTree
    /\ got[h] # NoTree => pc[h] \in Serving \cup {"answered"} /\ resp[h] # "unknown"
    /\ resp[h] \in {"unknown", "missing"} => req[h].op = "pull"
    /\ pc[h] = "pin" => req[h].op = "pin" /\ existed[h] \subseteq pinned \cup left[h]
    /\ \A n \in existed[h] : value[n] # NoTree

IInv ==
  /\ TypeOK
  /\ OneMutex
  /\ HolderOwns
  /\ MutualExclusion
  /\ CheckStands
  /\ Transferred
  /\ RefsComplete
  /\ Progress
  /\ Reads
  /\ AnswersTrue
  /\ GuardBrackets
  /\ HooksTrue
=============================================================================
