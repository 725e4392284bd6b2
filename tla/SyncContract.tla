----------------------------- MODULE SyncContract -----------------------------
(* What a transfer promises to its caller, whichever way it is carried out:  *)
(* the store only gains objects while it runs, a crash may undo gains, and   *)
(* success is reported only when the whole tree is there, for good.          *)
EXTENDS ObjectGraph

CONSTANT StartStores

VARIABLES
  store,    \* the objects held
  result    \* "none", "running", "failed" or "ok"

vars == <<store, result>>

Init == store \in StartStores /\ result = "none"

Start == result \in {"none", "failed"} /\ result' = "running" /\ UNCHANGED store

\* Objects are stored, by the transfer or by others, in any order and at any time.
Gain == store' \in SUBSET Key /\ store \subseteq store' /\ UNCHANGED result

Fail == result = "running" /\ result' = "failed" /\ UNCHANGED store

\* The process dies; what was not durable is gone.
Die == result = "running" /\ result' = "none" /\ store' \in SUBSET store

Succeed == result = "running" /\ Complete(store, Root) /\ result' = "ok" /\ UNCHANGED store

Next == Start \/ Gain \/ Fail \/ Die \/ Succeed

Spec == Init /\ [][Next]_vars
=============================================================================
