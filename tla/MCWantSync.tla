------------------------------ MODULE MCWantSync ------------------------------
(* A small graph for WantSync, and the packs a rogue sends.                  *)
EXTENDS WantSync, TLC

CONSTANTS r, a, b, c, d, ctrl, data

\* b and c are reached at several depths; the second round wants three keys,
\* one more than MaxWants.
Web == r :> {a, b, c} @@ a :> {b, d} @@ b :> {c} @@ c :> {} @@ d :> {}
WebKeys == {r, a, b, c, d}

\* Nothing, or two parents without their children: d is below a alone.
Parts == {{}, {r, a}}

\* A rogue's packs: unasked-for or repeated objects, omissions, a forgery.
Mischief == {p \in Pack : p.objs \cup p.forged = {} /\ p.term # "open"}
            \cup {[objs |-> {c}, forged |-> {}, term |-> t] : t \in {"end", "err"}}
            \cup {[objs |-> {c}, forged |-> {b}, term |-> "end"]}
=============================================================================
