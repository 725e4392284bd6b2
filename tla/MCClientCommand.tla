---------------------------- MODULE MCClientCommand ----------------------------
(* A small instance of ClientCommand.                                        *)
EXTENDS ClientCommand
=============================================================================
