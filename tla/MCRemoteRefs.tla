----------------------------- MODULE MCRemoteRefs -----------------------------
(* Small instances of RemoteRefs.                                            *)
EXTENDS RemoteRefs, TLC

Alike == Permutations(Client) \cup Permutations(Tree)
=============================================================================
