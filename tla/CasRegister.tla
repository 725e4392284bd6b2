----------------------------- MODULE CasRegister ------------------------------
(* What the server promises about refs: every push takes effect at one       *)
(* instant between its request and its answer, or not at all; a push with a  *)
(* precondition takes effect only on the value it expects; a pull serves the *)
(* value of one instant.                                                     *)
CONSTANTS
  Handler,   \* requests under way
  Name,      \* ref names
  Tree,      \* the keys refs may hold
  NoTree,    \* the value of a ref that does not exist
  Request    \* the requests clients may make: [op, name, root, cas, old, ...]

VARIABLES
  value,     \* value[n]: what ref n holds
  req,       \* req[h]: the request h carries out
  got,       \* got[h]: what h read
  outcome    \* outcome[h]: "none", "pending", "applied", "rejected", "failed" or "read"

vars == <<value, req, got, outcome>>

Init ==
  /\ value \in [Name -> Tree \cup {NoTree}]
  /\ req \in [Handler -> Request]
  /\ got = [h \in Handler |-> NoTree]
  /\ outcome = [h \in Handler |-> "none"]

Call(h) ==
  /\ req[h].op = "push" /\ outcome[h] = "none"
  /\ outcome' = [outcome EXCEPT ![h] = "pending"]
  /\ UNCHANGED <<value, req, got>>

Apply(h) ==
  /\ outcome[h] = "pending"
  /\ req[h].cas => value[req[h].name] = req[h].old
  /\ value' = [value EXCEPT ![req[h].name] = req[h].root]
  /\ outcome' = [outcome EXCEPT ![h] = "applied"]
  /\ UNCHANGED <<req, got>>

Reject(h) ==
  /\ outcome[h] = "pending"
  /\ req[h].cas /\ value[req[h].name] # req[h].old
  /\ outcome' = [outcome EXCEPT ![h] = "rejected"]
  /\ UNCHANGED <<value, req, got>>

Read(h) ==
  /\ req[h].op = "pull" /\ outcome[h] = "none"
  /\ got' = [got EXCEPT ![h] = value[req[h].name]]
  /\ outcome' = [outcome EXCEPT ![h] = "read"]
  /\ UNCHANGED <<value, req>>

\* Any number of pending requests end without effect, at once when the server dies.
Fail ==
  /\ \E hs \in SUBSET Handler :
       /\ \A h \in hs : outcome[h] = "pending"
       /\ outcome' = [h \in Handler |-> IF h \in hs THEN "failed" ELSE outcome[h]]
  /\ UNCHANGED <<value, req, got>>

Next == Fail \/ \E h \in Handler : Call(h) \/ Apply(h) \/ Reject(h) \/ Read(h)

Spec == Init /\ [][Next]_vars
=============================================================================
