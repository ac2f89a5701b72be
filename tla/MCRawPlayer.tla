---------------------------- MODULE MCRawPlayer -----------------------------
(* RawPlayer on a small instance: buffers of 2 bytes, 10 bytes of video, 3    *)
(* bytes of audio (a short last chunk), prebuffering of 4 bytes.  vafactor is  *)
(* 20 / 3, rounded down to 6.                                                 *)
EXTENDS RawPlayer, TLC

CONSTANTS b1, b2, b3, b4

MCBuffers == {b1, b2, b3, b4}
MCStreams == {video, audio}
MCSize == (video :> 10) @@ (audio :> 3)
MCLength == [s \in MCStreams |-> (MCSize[s] + 1) \div 2]

=============================================================================
