----------------------------- MODULE MCReceiver -----------------------------
(* A small instance of Receiver for TLC.                                   *)
EXTENDS Receiver, Streams

=============================================================================
