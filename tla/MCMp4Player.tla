---------------------------- MODULE MCMp4Player ----------------------------
(* Mp4Player on a file of four video frames of two ticks each, the last two of  *)
(* which are read in the opposite order to the one they are shown in, three     *)
(* packets of audio, two of them in a row, and one of neither.                  *)
EXTENDS Mp4Player

V(t) == [av |-> "video", pts |-> 2 * t]
A(t) == [av |-> "audio", pts |-> 2 * t]
Subtitle == [av |-> "other", pts |-> 0]

MCFile == <<A(0), V(0), V(1), Subtitle, A(2), A(3), V(3), V(2)>>
MCDepth == [video |-> 3, audio |-> 1]

=============================================================================
