--------------------------- MODULE RemoteRefsProofs ---------------------------
(* Proofs that the remote-tracking refs of RemoteRefs tell the truth, and    *)
(* that a push expects only what its client has had, for every number of     *)
(* clients, roots and lost commands.                                         *)
EXTENDS RemoteRefs, TLAPS

\* No client knows anything in the beginning.
LEMMA InitIInv == Init => IInv
BY RemoteAssumption DEF Init, IInv, TypeOK, Value, Job, TrackingServed, KnownServed, ExpectsHeld, JobsHaveRoots

\* Every step of the program keeps the invariant.
LEMMA IInvStep == IInv /\ [Next]_vars => IInv'
<1> SUFFICES ASSUME IInv, [Next]_vars PROVE IInv'
  OBVIOUS
<1> USE RemoteAssumption
<1> USE DEF IInv, TypeOK, Value, Job, TrackingServed, KnownServed, ExpectsHeld, JobsHaveRoots, Goto
<1>1. ASSUME NEW c \in Client, NEW t \in Tree, SetLocal(c, t) PROVE IInv'
  BY <1>1 DEF SetLocal
<1>2. ASSUME NEW c \in Client, RemoveLocal(c) PROVE IInv'
  BY <1>2 DEF RemoveLocal
<1>3. ASSUME NEW c \in Client, RemoveTracking(c) PROVE IInv'
  BY <1>3 DEF RemoveTracking
<1>4. ASSUME NEW c \in Client, NEW force \in BOOLEAN, StartPush(c, force) PROVE IInv'
  BY <1>4 DEF StartPush
<1>5. ASSUME NEW c \in Client, ServePush(c) PROVE IInv'
  BY <1>5 DEF ServePush, Publish
<1>6. ASSUME NEW c \in Client, RejectPush(c) PROVE IInv'
  BY <1>6 DEF RejectPush
<1>7. ASSUME NEW c \in Client, RecordPush(c) PROVE IInv'
  BY <1>7 DEF RecordPush
<1>8. ASSUME NEW a \in abandoned, ServeAbandoned(a) PROVE IInv'
  BY <1>8 DEF ServeAbandoned, Publish
<1>9. ASSUME NEW c \in Client, StartPull(c) PROVE IInv'
  BY <1>9 DEF StartPull
<1>10. ASSUME NEW c \in Client, PutName(c) PROVE IInv'
  BY <1>10 DEF PutName
<1>11. ASSUME NEW c \in Client, PutTracking(c) PROVE IInv'
  BY <1>11 DEF PutTracking
<1>12. ASSUME NEW c \in Client, Die(c) PROVE IInv'
  BY <1>12 DEF Die
<1>13. CASE UNCHANGED vars
  BY <1>13 DEF vars
<1> QED
  BY <1>1, <1>2, <1>3, <1>4, <1>5, <1>6, <1>7, <1>8, <1>9, <1>10, <1>11, <1>12, <1>13 DEF Next

\* The invariant holds in every reachable state.
THEOREM Inductive == Spec => []IInv
BY InitIInv, IInvStep, PTL DEF Spec

\* A tracking ref always names a value the server's ref really had, whatever
\* commands died, whatever acknowledgements were lost and however late the
\* server carried out a push.
THEOREM TrackingTruthful == Spec => []TrackingServed
<1>1. IInv => TrackingServed
  BY DEF IInv
<1> QED
  BY <1>1, Inductive, PTL

\* A push without --force that the server carries out for a client, gone or not,
\* replaces nothing, or a value this client has had.
THEOREM NothingOverwrittenBlindly == Spec => NoBlindOverwrite
<1> DEFINE Seen == /\ \A c \in Client :
                        (ServePush(c) /\ ~job[c].force) => value \in held[c] \cup {NoTree}
                   /\ \A a \in abandoned :
                        (ServeAbandoned(a) /\ value' # value /\ ~a.job.force)
                          => value \in held[a.client] \cup {NoTree}
<1>1. IInv /\ [Next]_vars => [Seen]_vars
  BY DEF IInv, ExpectsHeld, ServePush, ServeAbandoned, CheckHolds
<1>2. Spec => [][Seen]_vars
  BY <1>1, Inductive, PTL DEF Spec
<1> QED
  BY <1>2 DEF NoBlindOverwrite
=============================================================================
