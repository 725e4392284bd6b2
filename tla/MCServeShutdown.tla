---------------------------- MODULE MCServeShutdown ----------------------------
(* A small instance of ServeShutdown.                                        *)
EXTENDS ServeShutdown

TwoDataEPs == 1..2
=============================================================================
