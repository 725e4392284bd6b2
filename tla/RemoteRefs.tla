------------------------------- MODULE RemoteRefs -------------------------------
(* One ref of the server seen by several clients, each with its own store: a *)
(* local ref of that name and the remote-tracking ref that records what the  *)
(* client last saw on the server and is the expectation of its next push.    *)
(* Commands of one client run one at a time (its store has a single owner),  *)
(* commands of different clients interleave, a command may die between any   *)
(* two steps, and the server may carry out a push whose client is gone.  The *)
(* server's side of a push is the atomic compare-and-swap of CasRegister.    *)
EXTENDS Integers, FiniteSets

CONSTANTS
  Client,
  Tree,       \* root keys
  NoTree,     \* no ref
  MaxLost     \* bound: commands that die or lose their connection

ASSUME RemoteAssumption ==
  /\ NoTree \notin Tree
  /\ MaxLost \in Nat

VARIABLES
  value,      \* the server's ref
  local,      \* local[c]: the client's own ref
  tracking,   \* tracking[c]: remotes/<server>/<name> in the client's refstore
  pc,         \* pc[c]: "idle", "push", "acked", "pull" or "named"
  job,        \* job[c]: the running command [root, old, force]
  abandoned,  \* pushes [client, job] the server still carries out after the command died
  held,       \* held[c]: server values whose tree c pushed or had as its own ref (history)
  served,     \* all values the server's ref ever had (history)
  lost

vars == <<value, local, tracking, pc, job, abandoned, held, served, lost>>

Value == Tree \cup {NoTree}
Job == [root : Value, old : Value, force : BOOLEAN]

TypeOK ==
  /\ value \in Value
  /\ local \in [Client -> Value]
  /\ tracking \in [Client -> Value]
  /\ pc \in [Client -> {"idle", "push", "acked", "pull", "named"}]
  /\ job \in [Client -> Job]
  /\ abandoned \subseteq [client : Client, job : Job]
  /\ held \in [Client -> SUBSET Tree]
  /\ served \subseteq Tree
  /\ lost \in 0..MaxLost

Init ==
  /\ value = NoTree
  /\ local = [c \in Client |-> NoTree]
  /\ tracking = [c \in Client |-> NoTree]
  /\ pc = [c \in Client |-> "idle"]
  /\ job = [c \in Client |-> [root |-> NoTree, old |-> NoTree, force |-> FALSE]]
  /\ abandoned = {}
  /\ held = [c \in Client |-> {}]
  /\ served = {}
  /\ lost = 0

\* The command of c ends, or goes on to its next step.
Goto(c, step) == pc' = [pc EXCEPT ![c] = step]

-----------------------------------------------------------------------------
(* Local commands                                                            *)

\* import --ref and ref set: the local ref takes any value.  Both refuse names
\* in the tracking namespace.
SetLocal(c, t) ==
  /\ pc[c] = "idle"
  /\ local' = [local EXCEPT ![c] = t]
  /\ UNCHANGED <<value, tracking, pc, job, abandoned, held, served, lost>>

\* ref rm takes either ref: it does not refuse the tracking namespace.
RemoveLocal(c) ==
  /\ pc[c] = "idle" /\ local[c] # NoTree
  /\ local' = [local EXCEPT ![c] = NoTree]
  /\ UNCHANGED <<value, tracking, pc, job, abandoned, held, served, lost>>

RemoveTracking(c) ==
  /\ pc[c] = "idle" /\ tracking[c] # NoTree
  /\ tracking' = [tracking EXCEPT ![c] = NoTree]
  /\ UNCHANGED <<value, local, pc, job, abandoned, held, served, lost>>

-----------------------------------------------------------------------------
(* push                                                                      *)

\* The expectation is the tracking ref; without one the server must not have the ref.
StartPush(c, force) ==
  /\ pc[c] = "idle" /\ local[c] # NoTree
  /\ job' = [job EXCEPT ![c] = [root |-> local[c], old |-> tracking[c], force |-> force]]
  /\ Goto(c, "push")
  /\ UNCHANGED <<value, local, tracking, abandoned, held, served, lost>>

CheckHolds(j) == j.force \/ value = j.old
Publish(j) == value' = j.root /\ served' = served \cup {j.root}

\* The server transfers, checks and commits; TOK is on its way.
ServePush(c) ==
  /\ pc[c] = "push" /\ CheckHolds(job[c])
  /\ Publish(job[c])
  /\ Goto(c, "acked")
  /\ UNCHANGED <<local, tracking, job, abandoned, held, lost>>

RejectPushRecords(c) ==
  /\ pc[c] = "push" /\ ~CheckHolds(job[c])
  /\ tracking' = [tracking EXCEPT ![c] = job[c].root]
  /\ Goto(c, "idle")
  /\ UNCHANGED <<value, local, job, abandoned, held, served, lost>>

RejectPushRefreshes(c) ==
  /\ pc[c] = "push" /\ ~CheckHolds(job[c])
  /\ tracking' = [tracking EXCEPT ![c] = value]
  /\ Goto(c, "idle")
  /\ UNCHANGED <<value, local, job, abandoned, held, served, lost>>

\* cas-mismatch: the command reports the current value and changes no ref.
RejectPush(c) ==
  /\ pc[c] = "push" /\ ~CheckHolds(job[c])
  /\ Goto(c, "idle")
  /\ UNCHANGED <<value, local, tracking, job, abandoned, held, served, lost>>

\* TOK is read and the pushed root recorded as the server's value.
RecordPush(c) ==
  /\ pc[c] = "acked"
  /\ tracking' = [tracking EXCEPT ![c] = job[c].root]
  /\ held' = [held EXCEPT ![c] = @ \cup {job[c].root}]
  /\ Goto(c, "idle")
  /\ UNCHANGED <<value, local, job, abandoned, served, lost>>

\* The server goes on with a push after its client has died, and nobody hears.
ServeAbandoned(a) ==
  /\ a \in abandoned
  /\ abandoned' = abandoned \ {a}
  /\ \/ CheckHolds(a.job) /\ Publish(a.job)
     \/ UNCHANGED <<value, served>>
  /\ UNCHANGED <<local, tracking, pc, job, held, lost>>

-----------------------------------------------------------------------------
(* pull                                                                      *)

\* TRef carries the server's record; an unknown ref ends the command.
StartPull(c) ==
  /\ pc[c] = "idle" /\ value # NoTree
  /\ job' = [job EXCEPT ![c] = [root |-> value, old |-> NoTree, force |-> FALSE]]
  /\ Goto(c, "pull")
  /\ UNCHANGED <<value, local, tracking, abandoned, held, served, lost>>

\* The tree is received; the record is stored under the local name first ...
PutName(c) ==
  /\ pc[c] = "pull"
  /\ local' = [local EXCEPT ![c] = job[c].root]
  /\ held' = [held EXCEPT ![c] = @ \cup {job[c].root}]
  /\ Goto(c, "named")
  /\ UNCHANGED <<value, tracking, job, abandoned, served, lost>>

\* ... and then under the tracking name.
PutTracking(c) ==
  /\ pc[c] = "named"
  /\ tracking' = [tracking EXCEPT ![c] = job[c].root]
  /\ Goto(c, "idle")
  /\ UNCHANGED <<value, local, job, abandoned, held, served, lost>>

-----------------------------------------------------------------------------
\* The command dies, fails, or loses its connection between two steps.  A push
\* that is under way at the server may still be carried out there.
Die(c) ==
  /\ pc[c] # "idle" /\ lost < MaxLost
  /\ lost' = lost + 1
  /\ Goto(c, "idle")
  /\ \/ pc[c] = "push" /\ abandoned' = abandoned \cup {[client |-> c, job |-> job[c]]}
     \/ UNCHANGED abandoned
  /\ UNCHANGED <<value, local, tracking, job, held, served>>

Next ==
  \/ \E c \in Client :
       \/ RemoveLocal(c) \/ RemoveTracking(c)
       \/ ServePush(c) \/ RejectPush(c) \/ RecordPush(c)
       \/ StartPull(c) \/ PutName(c) \/ PutTracking(c) \/ Die(c)
       \/ \E t \in Tree : SetLocal(c, t)
       \/ \E force \in BOOLEAN : StartPush(c, force)
  \/ \E a \in abandoned : ServeAbandoned(a)

Spec == Init /\ [][Next]_vars

-----------------------------------------------------------------------------
(* Properties                                                                *)

\* The tracking ref is what its name says: a value the server's ref really had.
TrackingServed == \A c \in Client : tracking[c] # NoTree => tracking[c] \in served

\* A push without --force replaces another client's value only if this client
\* has had that value as its own ref, or pushed it itself: commands that died,
\* acknowledgements that were lost and pushes that outlived their client never
\* make a client overwrite what it has not seen.
NoBlindOverwrite ==
  [][/\ \A c \in Client :
          (ServePush(c) /\ ~job[c].force) => value \in held[c] \cup {NoTree}
     /\ \A a \in abandoned :
          (ServeAbandoned(a) /\ value' # value /\ ~a.job.force)
            => value \in held[a.client] \cup {NoTree}]_vars

\* The inductive invariant of the two.  Every value a command is about to record
\* was the server's, and what a push expects its client has had.
KnownServed ==
  /\ value # NoTree => value \in served
  /\ \A c \in Client : pc[c] \in {"acked", "pull", "named"} => job[c].root \in served

ExpectsHeld ==
  /\ \A a \in abandoned : a.job.old \in held[a.client] \cup {NoTree}
  /\ \A c \in Client :
       /\ tracking[c] \in held[c] \cup {NoTree}
       /\ pc[c] = "push" => job[c].old \in held[c] \cup {NoTree}
       /\ pc[c] = "named" => job[c].root \in held[c]

JobsHaveRoots ==
  /\ \A a \in abandoned : a.job.root \in Tree
  /\ \A c \in Client : pc[c] # "idle" => job[c].root \in Tree

IInv == TypeOK /\ TrackingServed /\ KnownServed /\ ExpectsHeld /\ JobsHaveRoots
=============================================================================
