---------------------------- MODULE MCDccEvents ----------------------------
(* DccEvents with the source's five tries and a decoder that queues two        *)
(* commands: one left over from a call that timed out, and the one in progress. *)
EXTENDS DccEvents
=============================================================================
