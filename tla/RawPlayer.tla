----------------------------- MODULE RawPlayer ------------------------------
(***************************************************************************)
(* The transfer loop of samples/playrawmp4: play_video serves the video    *)
(* and the audio stream in turn from one pool (module RuaPool), lets audio *)
(* through only in proportion to the video already transferred, starts     *)
(* playing once enough video is buffered, and stops on a signal or when    *)
(* the video file is at its end.                                           *)
(*                                                                         *)
(* Every step of the loop is a step of RuaPool or leaves its variables     *)
(* alone, so what is shown of RuaPool holds of this player.                *)
(***************************************************************************)
EXTENDS RuaPool

CONSTANTS
  video, audio,  \* the two streams
  Size,          \* Size[s]: bytes in the file of stream s
  BufferSize,    \* DMA_BUFFER_SIZE
  PreBuffer      \* VID_PRE_BUFFER_SIZE

ASSUME RawAssumption ==
  /\ Streams = {video, audio} /\ video # audio
  /\ BufferSize \in Nat \ {0} /\ PreBuffer \in Nat
  /\ Size \in [Streams -> Nat \ {0}]
  /\ \A s \in Streams : Length[s] = (Size[s] + BufferSize - 1) \div BufferSize

VARIABLES
  at,         \* where play_video's loop is: the next thing it looks at
  playing,    \* playing
  avalue,     \* avalue: audio bytes accounted for
  vvalue,     \* vvalue: video bytes needed before more audio is sent
  signalled   \* the global stopped, set by signalhandler

loop == <<at, playing, avalue, vvalue, signalled>>
allVars == <<vars, loop>>

Smaller(m, n) == IF m < n THEN m ELSE n

\* videotransferred, audiotransferred: in bytes, the last chunk may be short.
Bytes(s) == Smaller(transferred[s] * BufferSize, Size[s])

\* Video bytes per full audio buffer, rounded down.
vafactor == (BufferSize * Size[video]) \div Size[audio]

RawTypeOK ==
  /\ at \in {"video", "audio", "account", "start", "stopvideo", "stopaudio"}
  /\ playing \in BOOLEAN
  /\ avalue \in 0..Size[audio]
  /\ vvalue \in 0..Size[video]
  /\ signalled \in BOOLEAN

RawInit ==
  /\ Init
  /\ at = "video"
  /\ playing = FALSE
  /\ avalue = 0
  /\ vvalue = 0
  /\ signalled = FALSE

-----------------------------------------------------------------------------
InLoop(place) == pc = "ready" /\ at = place
Goto(place) == at' = place

\* Top of the loop: one transfer_data call for video.
VideoTurn ==
  /\ InLoop("video") /\ ~signalled
  /\ BeginTransfer(video)
  /\ Goto("audio")
  /\ UNCHANGED <<playing, avalue, vvalue, signalled>>

\* Faulty (see RuaPool): no share is kept.
AudioDueAlways == transferred[audio] < Length[audio]

AudioDue == transferred[audio] < Length[audio] /\ Bytes(video) >= vvalue

\* One for audio, when enough video has been transferred.
AudioTurn ==
  /\ InLoop("audio") /\ ~signalled
  /\ AudioDue
  /\ BeginTransfer(audio)
  /\ Goto("account")
  /\ UNCHANGED <<playing, avalue, vvalue, signalled>>

AudioNotDue ==
  /\ InLoop("audio") /\ ~signalled
  /\ ~AudioDue
  /\ Goto("start")
  /\ UNCHANGED <<vars, playing, avalue, vvalue, signalled>>

\* Audio did get through: the next audio buffer waits for vafactor more bytes
\* of video.
AccountAudio ==
  /\ InLoop("account")
  /\ Goto("start")
  /\ IF avalue < Bytes(audio)
       THEN /\ vvalue' = Smaller(vvalue + vafactor, Size[video])
            /\ avalue' = Smaller(avalue + BufferSize, Size[audio])
       ELSE UNCHANGED <<avalue, vvalue>>
  /\ UNCHANGED <<vars, playing, signalled>>

StartDue == ~playing /\ Bytes(video) > PreBuffer

\* DCCSTCPlay, DCCPlayVideoSource, DCCPlayAudioSource; each may fail.
StartPlay ==
  /\ InLoop("start") /\ ~signalled
  /\ StartDue
  /\ Goto("video")
  /\ \/ UNCHANGED vars /\ playing' = TRUE
     \/ OtherCallFails /\ UNCHANGED playing
  /\ UNCHANGED <<avalue, vvalue, signalled>>

StartNotDue ==
  /\ InLoop("start") /\ ~signalled
  /\ ~StartDue
  /\ Goto("video")
  /\ UNCHANGED <<vars, playing, avalue, vvalue, signalled>>

\* The while condition, and the three tests of stopped.
LoopEnds ==
  /\ \/ at \in {"video", "audio", "start"} /\ signalled
     \/ at = "video" /\ transferred[video] = Length[video]
  /\ LeaveLoop
  /\ Goto("stopvideo")
  /\ UNCHANGED <<playing, avalue, vvalue, signalled>>

-----------------------------------------------------------------------------
\* After the loop, if it was playing: DCCSTCStop (may fail), then the video and
\* the audio source are stopped (each may fail, DCCStopVideoSource unnoticed),
\* then the pool is closed.
StopVideo ==
  /\ playing /\ at = "stopvideo"
  /\ StopDecoder(video) \/ StopNotSent
  /\ Goto("stopaudio")
  /\ UNCHANGED <<playing, avalue, vvalue, signalled>>

StopAudio ==
  /\ playing /\ at = "stopaudio"
  /\ StopDecoder(audio)
  /\ playing' = FALSE
  /\ UNCHANGED <<at, avalue, vvalue, signalled>>

StopFails ==
  /\ playing /\ pc = "stopping"
  /\ OtherCallFails
  /\ UNCHANGED loop

RawClose ==
  /\ pc = "stopping" => ~playing
  /\ ClosePool
  /\ UNCHANGED loop

PoolStep ==
  /\ \/ \E b \in Buffers : GetBuffer(b)
     \/ GetPending \/ CopyChunk
     \/ AcquireBuffer \/ AcquireFails
     \/ FlushCache \/ FlushFails
     \/ SendAccepted \/ SendRefused
     \/ ReleaseAcquired \/ ReleaseAcquiredFails
     \/ ReleaseHeld \/ ReleaseHeldFails
     \/ Drained \/ \E s \in Streams : DrainHeld(s)
  /\ UNCHANGED loop

PlayerStep ==
  \/ VideoTurn \/ AudioTurn \/ AudioNotDue \/ AccountAudio
  \/ StartPlay \/ StartNotDue \/ LoopEnds
  \/ PoolStep \/ StopVideo \/ StopAudio \/ StopFails \/ RawClose

DecoderStep(s) == Consume(s) /\ UNCHANGED loop

\* signalhandler runs between any two steps of the player.
Signal ==
  /\ ~signalled
  /\ signalled' = TRUE
  /\ UNCHANGED <<vars, at, playing, avalue, vvalue>>

RawNext == PlayerStep \/ Signal \/ \E s \in Streams : DecoderStep(s)

RawSpec == RawInit /\ [][RawNext]_allVars

(* The player never blocks, so its steps are weakly fair.  A decoder is only *)
(* assumed to consume while it plays: before DCCSTCPlay it may just sit on   *)
(* what it was sent.                                                         *)
RawFairness ==
  /\ WF_allVars(PlayerStep)
  /\ \A s \in Streams : WF_allVars(playing /\ DecoderStep(s))

RawFairSpec == RawSpec /\ RawFairness

-----------------------------------------------------------------------------
\* Audio keeps to its share: all but the last audio buffer were due at the
\* video position reached.  vafactor is rounded down, so one byte of video per
\* audio buffer is the slack.
AudioWithinShare ==
  transferred[audio] > 1 =>
    LET full == transferred[audio] - 1 IN
      full * BufferSize * Size[video] <= Size[audio] * (Bytes(video) + full)

\* The player gets to the end, or a signal or a failed call ends it, even when
\* the decoders take nothing before playing starts: audio never takes so many
\* buffers that video cannot be buffered up to PreBuffer.
PlayerFinishes == <>(pc = "closed")

=============================================================================
