---------------------------- MODULE MCEchoStreams ----------------------------
(* The instance of EchoStreams for TLC. *)
EXTENDS EchoStreams

\* One chunk fills a pipe: the end-point's input is full after one, and the writer holds the next.
MCPipeCap == 1
===============================================================================
