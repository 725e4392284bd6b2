----------------------------- MODULE MCPackFrames -----------------------------
(* Small instances of PackFrames.                                            *)
EXTENDS PackFrames

\* Packs that fill a chunk but for the end marker, or exactly, records that span
\* several chunks, and small ones that share one.
MixedPacks == { <<2>>, <<3>>, <<7>>, <<1, 1, 2>>, <<5, 1>> }
=============================================================================
