----------------------------- MODULE MCRuaPool ------------------------------
(* RuaPool on a small instance: two streams share a pool of three buffers. *)
EXTENDS RuaPool, TLC

CONSTANTS b1, b2, b3, video, audio

MCBuffers == {b1, b2, b3}
MCStreams == {video, audio}
MCLength == (video :> 3) @@ (audio :> 2)

=============================================================================
