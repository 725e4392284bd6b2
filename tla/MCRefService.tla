----------------------------- MODULE MCRefService -----------------------------
(* A small instance of RefService.                                           *)
EXTENDS RefService, TLC

CONSTANTS h1, h2, h3, n1, n2, t1, t2

Push(t) == [op |-> "push", name |-> n1, names |-> {}, root |-> t, cas |-> FALSE, old |-> NoTree]
Cas(t, o) == [Push(t) EXCEPT !.cas = TRUE, !.old = o]
Pull == [Push(t1) EXCEPT !.op = "pull"]
Pin == [Push(t1) EXCEPT !.op = "pin", !.names = {n1, n2}]
Listing == [Push(t1) EXCEPT !.op = "list"]

Refs(a, b) == n1 :> a @@ n2 :> b
Starts == {Refs(NoTree, NoTree), Refs(t1, NoTree), Refs(t2, NoTree), Refs(t1, t1)}

Requests == {Push(t2), Cas(t1, NoTree), Cas(t2, t1), Pull, Pin, Listing}

\* Handlers are interchangeable: each combination of three requests once.
Three(a, b, c) == h1 :> a @@ h2 :> b @@ h3 :> c
Workloads ==
  { Three(Cas(t1, NoTree), Cas(t2, t1), Push(t2)),
    Three(Cas(t1, NoTree), Cas(t1, NoTree), Push(t2)),
    Three(Cas(t1, NoTree), Push(t2), Pull),
    Three(Cas(t1, NoTree), Push(t2), Pin),
    Three(Cas(t2, t1), Pull, Pin),
    Three(Push(t2), Pull, Listing) }
=============================================================================
