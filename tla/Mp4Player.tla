----------------------------- MODULE Mp4Player ------------------------------
(***************************************************************************)
(* The player of samples/playmp4: play_mp4_video reads packets of a file   *)
(* and writes them to the decoders, starts and stops the clock (STC) as    *)
(* the time buffered allows, and obeys the remote control: stop, pause and *)
(* jump.  play_video waits for the end and stops the decoders.             *)
(*                                                                         *)
(* The clock, the decoders and signalhandler run beside the player, so     *)
(* every driver call is a step of its own.  A packet that is written is    *)
(* one transfer; transfer_data itself is the one of RuaPool, and here it   *)
(* has room for the packet or answers RM_PENDING.  Times are counted in    *)
(* ticks of VIDEO_TIME_RES, of which a frame lasts several.  The speed     *)
(* keys change how fast the clock runs; as it runs at any pace here they   *)
(* change nothing.                                                         *)
(***************************************************************************)
EXTENDS Integers, Sequences, FiniteSets

CONSTANTS
  File,        \* the packets as av_read_frame returns them: [av |-> , pts |-> ]
  FrameTime,   \* how long a frame is shown: the duration of a video packet
  StartTimes,  \* what -M and -S may ask for
  Keys,        \* keys pressed: a subset of {"stop", "ok", "up"}
  MaxBuffer, MinBuffer, Rebuffer, JumpTime,  \* play_config_t
  Depth,       \* Depth[av]: packets of av the pool and the decoder hold
  Ahead,       \* ticks a decoder takes a packet before its time
  MaxTime,     \* a bound on the clock for TLC
  MaxFaults    \* failing calls in a behaviour, a bound for TLC

Streams == {"video", "audio"}
Positions == 1..Len(File)
Of(av) == {i \in Positions : File[i].av = av}
Never == 2 * MaxTime  \* LLONG_MAX

ASSUME Mp4Assumption ==
  /\ File \in Seq([av : Streams \cup {"other"}, pts : 0..MaxTime - FrameTime])
  /\ FrameTime \in Nat \ {0}
  /\ StartTimes \subseteq Nat
  /\ Keys \subseteq {"stop", "ok", "up"}
  /\ {MaxBuffer, MinBuffer, Rebuffer, JumpTime, Ahead, MaxTime, MaxFaults} \subseteq Nat
  /\ Depth \in [Streams -> Nat \ {0}]

VARIABLES
  (* the hardware *)
  running,  \* the STC runs
  stc,      \* its time
  queued,   \* the packets written that their decoder has not taken yet
  (* the player *)
  context,  \* app_rua_context_t: its flags and times
  pos,      \* packets read; the last one is the one in hand
  ret,      \* ret of play_mp4_video is an error
  pc,       \* the driver call or test that comes next
  sent,     \* the packets written
  faults    \* failing calls so far

vars == <<running, stc, queued, context, pos, ret, pc, sent, faults>>
hardware == <<running, stc, queued>>

InLoop == {"top", "look", "start", "rebuffer", "read", "jump", "settime", "write"}
AtEnd == {"trailer", "drain", "jump", "settime", "endtime", "endkey", "stopclock",
          "stopvideo", "stopaudio", "close"}

Times == -1..MaxTime

TypeOK ==
  /\ running \in BOOLEAN /\ stc \in 0..MaxTime
  /\ queued \subseteq sent /\ sent \subseteq 1..pos /\ pos \in 0..Len(File)
  /\ \A av \in Streams : Cardinality(queued \cap Of(av)) <= Depth[av]
  /\ context \in [playing : BOOLEAN, paused : BOOLEAN, stopped : BOOLEAN,
                  ending : BOOLEAN, started : BOOLEAN, play_started : BOOLEAN,
                  jump : BOOLEAN, time : 0..MaxTime,
                  last_time : Times, cur_time : Times,
                  startplaypts : 0..MaxTime + JumpTime,
                  startpts : 0..MaxTime \cup {Never}]
  /\ context.playing => context.play_started
  /\ ret \in BOOLEAN
  /\ pc \in {"setup", "closed"} \cup InLoop \cup AtEnd
  /\ faults \in 0..MaxFaults

Init ==
  /\ running = FALSE /\ stc = 0 /\ queued = {}
  /\ \E t \in StartTimes :
       context = [playing |-> FALSE, paused |-> FALSE, stopped |-> FALSE,
                  ending |-> FALSE, started |-> FALSE, play_started |-> FALSE,
                  jump |-> FALSE, time |-> 0, last_time |-> -1, cur_time |-> 0,
                  startplaypts |-> t, startpts |-> Never]
  /\ pos = 0 /\ ret = FALSE /\ pc = "setup" /\ sent = {} /\ faults = 0

-----------------------------------------------------------------------------
At(place) == pc = place
Goto(place) == pc' = place

Fails == faults < MaxFaults /\ faults' = faults + 1

\* The driver call of this step fails: cleanup closes everything, and the context
\* has no pool, source or clock any more.  Every way on from here ends the program,
\* be it by a further call that fails on the missing clock.
GiveUp ==
  /\ Fails
  /\ Goto("closed")
  /\ running' = FALSE /\ queued' = {}
  /\ UNCHANGED <<stc, context, pos, ret, sent>>

\* DCCSTCPlay and DCCSTCStop where a failure is only printed.
Clock(runs) ==
  \/ running' = runs /\ UNCHANGED faults
  \/ Fails /\ UNCHANGED running

\* The time buffered beyond the time played, as of the last DCCSTCGetTime.
BufferedOver(c, n) == c.last_time > 0 /\ c.last_time > c.time + n
BufferedUnder(c, n) == c.last_time > 0 /\ c.last_time < c.time + n

-----------------------------------------------------------------------------
(* get_key *)

NoKey == UNCHANGED <<context, running, faults>>

KeyStop ==
  /\ context' = [context EXCEPT !.stopped = TRUE]
  /\ UNCHANGED <<running, faults>>

\* Faulty: the clock is not started again.
KeyOkLeavesClock ==
  \/ /\ context.paused
     /\ context' = [context EXCEPT !.paused = FALSE]
     /\ UNCHANGED <<running, faults>>
  \/ /\ ~context.paused /\ context.playing
     /\ context' = [context EXCEPT !.paused = TRUE]
     /\ Clock(FALSE)

KeyOk ==
  \/ /\ context.paused
     /\ context' = [context EXCEPT !.paused = FALSE]
     /\ IF context.playing THEN Clock(TRUE) ELSE UNCHANGED <<running, faults>>
  \/ /\ ~context.paused /\ context.playing
     /\ context' = [context EXCEPT !.paused = TRUE]
     /\ Clock(FALSE)

\* Faulty: the frame to jump to is looked for from the beginning.
KeyUpRestarts ==
  /\ context.playing
  /\ context' = [context EXCEPT !.startplaypts = context.time + JumpTime,
                                !.jump = TRUE, !.started = FALSE]
  /\ UNCHANGED <<running, faults>>

KeyUp ==
  /\ context.playing
  /\ context' = [context EXCEPT !.startplaypts = context.time + JumpTime, !.jump = TRUE]
  /\ UNCHANGED <<running, faults>>

GetKey ==
  \/ NoKey
  \/ "stop" \in Keys /\ KeyStop
  \/ "ok" \in Keys /\ KeyOk
  \/ "up" \in Keys /\ KeyUp

-----------------------------------------------------------------------------
(* check_jump *)

\* A jump is asked for, or the first frame to play is looked for, and it is here.
Due(c) ==
  /\ ~c.started \/ c.jump
  /\ c.startplaypts = 0 \/ c.cur_time >= c.startplaypts - c.startpts

\* Enough is buffered at the old place: the clock is stopped, unless it is already
\* (paused) or nothing would start it again (ending).
JumpHalts == context.started /\ BufferedOver(context, MinBuffer) /\ context.playing

StopToJump ==
  /\ At("jump") /\ JumpHalts
  /\ ~context.paused /\ ~context.ending
  /\ \/ /\ running' = FALSE
        /\ context' = [context EXCEPT !.playing = FALSE]
        /\ Goto("settime")
        /\ UNCHANGED <<stc, queued, pos, ret, sent, faults>>
     \/ GiveUp

EndPauseToJump ==
  /\ At("jump") /\ JumpHalts
  /\ context.paused \/ context.ending
  /\ context' = [context EXCEPT !.paused = FALSE, !.playing = FALSE]
  /\ Goto("settime")
  /\ UNCHANGED <<hardware, pos, ret, sent, faults>>

JumpOn ==
  /\ At("jump") /\ ~JumpHalts
  /\ Goto("settime")
  /\ UNCHANGED <<hardware, context, pos, ret, sent, faults>>

\* Faulty: the jump is not taken back, and made again with every packet.
SetTimeAgain ==
  /\ At("settime")
  /\ stc' = context.startplaypts
  /\ context' = [context EXCEPT !.started = TRUE]
  /\ Goto(IF context.ending THEN "endtime" ELSE "write")
  /\ UNCHANGED <<running, queued, pos, ret, sent, faults>>

\* DCCSTCSetTime, a failure of which is only printed.
SetTime ==
  /\ At("settime")
  /\ \/ stc' = context.startplaypts /\ UNCHANGED faults
     \/ Fails /\ UNCHANGED stc
  /\ context' = [context EXCEPT !.started = TRUE, !.jump = FALSE]
  /\ Goto(IF context.ending THEN "endtime" ELSE "write")
  /\ UNCHANGED <<running, queued, pos, ret, sent>>

-----------------------------------------------------------------------------
(* The loop of play_mp4_video *)

\* play_video up to the loop: the pool is opened and the decoders are told to play.
Setup ==
  /\ At("setup")
  /\ \/ /\ GetKey
        /\ Goto(IF context'.stopped THEN "closed" ELSE "top")
        /\ UNCHANGED <<stc, queued, pos, ret, sent>>
     \/ GiveUp

LoopKey ==
  /\ At("top")
  /\ GetKey
  /\ Goto("look")
  /\ UNCHANGED <<stc, queued, pos, ret, sent>>

StopSeen ==
  /\ At("look") /\ context.stopped
  /\ Goto("trailer")
  /\ UNCHANGED <<hardware, context, pos, ret, sent, faults>>

\* The last of the three tests: too little is left, so the clock must wait.
CheckLow(c) == IF c.playing /\ BufferedUnder(c, Rebuffer) THEN "rebuffer" ELSE "read"

\* Faulty: reading goes on in a pause.
NextReads(c) ==
  IF c.started /\ ~c.playing /\ BufferedOver(c, MinBuffer) THEN "start" ELSE CheckLow(c)

\* What the loop does now that it knows the time: wait in a pause, start, read on.
NextInLoop(c) ==
  IF c.paused /\ BufferedOver(c, MaxBuffer) THEN "top"
  ELSE IF c.started /\ ~c.playing /\ BufferedOver(c, MinBuffer) THEN "start"
  ELSE CheckLow(c)

LoopTime ==
  /\ At("look") /\ ~context.stopped
  /\ \/ /\ context' = [context EXCEPT !.time = stc]
        /\ Goto(NextInLoop(context'))
        /\ UNCHANGED <<hardware, pos, ret, sent, faults>>
     \/ GiveUp

\* Read to its end without having been started.
VerySmall == context.started /\ ~context.play_started /\ context.last_time > 0

\* start_play: DCCSTCPlay, and the first time DCCPlayVideoSource and
\* DCCPlayAudioSource, whose decoders play already.  It is called in the loop, and
\* after it for a file too short for the loop to start.
StartPlay ==
  /\ At("start") \/ (At("trailer") /\ VerySmall)
  /\ \/ /\ running' = TRUE
        /\ context' = [context EXCEPT !.playing = TRUE, !.play_started = TRUE]
        /\ Goto(IF At("start") THEN CheckLow(context') ELSE "drain")
        /\ UNCHANGED <<stc, queued, pos, ret, sent, faults>>
     \/ GiveUp

\* Faulty: the player forgets that it has stopped the clock.
StopToRebufferForgets ==
  /\ At("rebuffer")
  /\ running' = FALSE
  /\ Goto("read")
  /\ UNCHANGED <<stc, queued, context, pos, ret, sent, faults>>

StopToRebuffer ==
  /\ At("rebuffer")
  /\ \/ /\ running' = FALSE
        /\ context' = [context EXCEPT !.playing = FALSE]
        /\ Goto("read")
        /\ UNCHANGED <<stc, queued, pos, ret, sent, faults>>
     \/ GiveUp

-----------------------------------------------------------------------------
(* A packet is read and written *)

\* The end of the file, or a failure to read on.
ReadEnds ==
  /\ At("read")
  /\ \/ pos = Len(File) /\ UNCHANGED <<ret, faults>>
     \/ ret' = TRUE /\ Fails
  /\ Goto("trailer")
  /\ UNCHANGED <<hardware, context, pos, sent>>

ReadOther ==
  /\ At("read") /\ pos < Len(File) /\ File[pos + 1].av = "other"
  /\ pos' = pos + 1
  /\ Goto("top")
  /\ UNCHANGED <<hardware, context, ret, sent, faults>>

\* check_jump for the packet read, then write it if the first frame has been found.
JumpOrWrite(c) == Goto(IF Due(c) THEN "jump" ELSE IF c.started THEN "write" ELSE "top")

\* Faulty: last_time is when the frame begins.
ReadVideoBegins ==
  /\ At("read") /\ pos < Len(File) /\ File[pos + 1].av = "video"
  /\ pos' = pos + 1
  /\ LET pts == File[pos + 1].pts IN
       context' = [context EXCEPT !.last_time = pts, !.cur_time = pts,
                                  !.startpts = IF pts < @ /\ ~context.playing THEN pts ELSE @]
  /\ JumpOrWrite(context')
  /\ UNCHANGED <<hardware, ret, sent, faults>>

ReadVideo ==
  /\ At("read") /\ pos < Len(File) /\ File[pos + 1].av = "video"
  /\ pos' = pos + 1
  /\ LET pts == File[pos + 1].pts IN
       context' = [context EXCEPT !.last_time = pts + FrameTime, !.cur_time = pts,
                                  !.startpts = IF pts < @ /\ ~context.playing THEN pts ELSE @]
  /\ JumpOrWrite(context')
  /\ UNCHANGED <<hardware, ret, sent, faults>>

\* A packet of audio is looked at by check_jump only if nothing is to be skipped.
ReadAudio ==
  /\ At("read") /\ pos < Len(File) /\ File[pos + 1].av = "audio"
  /\ pos' = pos + 1
  /\ context' = [context EXCEPT !.cur_time = File[pos + 1].pts]
  /\ IF context.startplaypts = 0 THEN JumpOrWrite(context')
     ELSE Goto(IF context.started THEN "write" ELSE "top")
  /\ UNCHANGED <<hardware, ret, sent, faults>>

Room(av) == Cardinality(queued \cap Of(av)) < Depth[av]

\* write_video_packet and write_audio_packet get the packet through, or the
\* transfer fails.  Without room they try again, video without a look at anything
\* else.
WritePacket ==
  /\ At("write")
  /\ \/ /\ Room(File[pos].av)
        /\ queued' = queued \cup {pos} /\ sent' = sent \cup {pos}
        /\ Goto("top")
        /\ UNCHANGED <<running, stc, context, pos, ret, faults>>
     \/ GiveUp

AudioWaits == At("write") /\ File[pos].av = "audio" /\ ~Room("audio")

\* Faulty: in a pause only keys are looked at.
AudioStopsUnpaused ==
  /\ AudioWaits /\ context.stopped /\ ~context.paused
  /\ ret' = TRUE
  /\ Goto("trailer")
  /\ UNCHANGED <<hardware, context, pos, sent, faults>>

\* An audio packet is given up when the player is stopped,
AudioStops ==
  /\ AudioWaits /\ context.stopped
  /\ ret' = TRUE
  /\ Goto("trailer")
  /\ UNCHANGED <<hardware, context, pos, sent, faults>>

\* and keys are looked at while it waits in a pause.
AudioKey ==
  /\ AudioWaits /\ ~context.stopped /\ context.paused
  /\ GetKey
  /\ UNCHANGED <<stc, queued, pos, ret, pc, sent>>

-----------------------------------------------------------------------------
(* The end of play_video *)

Trailer ==
  /\ At("trailer") /\ ~VerySmall
  /\ Goto("drain")
  /\ UNCHANGED <<hardware, context, pos, ret, sent, faults>>

\* The body of the waiting loop begins with check_jump.
WaitForEnd(c) == IF Due(c) THEN "jump" ELSE "endtime"

\* The kept buffers are released.  Only a player that plays waits for the end and
\* stops the decoders.
Drain ==
  /\ At("drain")
  /\ context' = [context EXCEPT !.ending = TRUE, !.cur_time = context.last_time]
  /\ Goto(CASE ~context.playing -> "close"
            [] context.playing /\ (ret \/ context.stopped) -> "stopclock"
            [] OTHER -> WaitForEnd(context'))
  /\ UNCHANGED <<hardware, pos, ret, sent, faults>>

EndTime ==
  /\ At("endtime")
  /\ \/ /\ context' = [context EXCEPT !.time = stc]
        /\ Goto("endkey")
        /\ UNCHANGED <<hardware, pos, ret, sent, faults>>
     \/ GiveUp

EndKey ==
  /\ At("endkey")
  /\ GetKey
  /\ Goto(IF ~context'.stopped /\ context'.last_time > 0
                               /\ context'.last_time >= context'.time
            THEN WaitForEnd(context') ELSE "stopclock")
  /\ UNCHANGED <<stc, queued, pos, ret, sent>>

StopClock ==
  /\ At("stopclock")
  /\ \/ /\ running' = (running /\ context.paused)
        /\ Goto("stopvideo")
        /\ UNCHANGED <<stc, queued, context, pos, ret, sent, faults>>
     \/ ~context.paused /\ GiveUp

StopVideo ==
  /\ At("stopvideo")
  /\ \/ /\ queued' = queued \ Of("video")
        /\ Goto("stopaudio")
        /\ UNCHANGED <<running, stc, context, pos, ret, sent, faults>>
     \/ GiveUp

StopAudio ==
  /\ At("stopaudio")
  /\ \/ /\ queued' = queued \ Of("audio")
        /\ context' = [context EXCEPT !.playing = FALSE]
        /\ Goto("close")
        /\ UNCHANGED <<running, stc, pos, ret, sent, faults>>
     \/ GiveUp

\* RUAClosePool, and cleanup at the end of main.
Close ==
  /\ At("close")
  /\ Goto("closed")
  /\ running' = FALSE /\ queued' = {}
  /\ UNCHANGED <<stc, context, pos, ret, sent, faults>>

-----------------------------------------------------------------------------
(* What runs beside the player *)

Tick ==
  /\ running /\ stc < MaxTime
  /\ stc' = stc + 1
  /\ UNCHANGED <<running, queued, context, pos, ret, pc, sent, faults>>

\* A decoder takes its next packet when its time is near or past, whether or not the
\* clock runs.
Decode(av) ==
  /\ \E i \in queued \cap Of(av) :
       /\ \A j \in queued \cap Of(av) : i <= j
       /\ File[i].pts <= stc + Ahead
       /\ queued' = queued \ {i}
  /\ UNCHANGED <<running, stc, context, pos, ret, pc, sent, faults>>

\* signalhandler
Signal ==
  /\ ~context.stopped /\ pc # "closed"
  /\ context' = [context EXCEPT !.stopped = TRUE]
  /\ UNCHANGED <<hardware, pos, ret, pc, sent, faults>>

Player ==
  \/ Setup \/ LoopKey \/ StopSeen \/ LoopTime \/ StartPlay \/ StopToRebuffer
  \/ ReadEnds \/ ReadOther \/ ReadVideo \/ ReadAudio
  \/ StopToJump \/ EndPauseToJump \/ JumpOn \/ SetTime
  \/ WritePacket \/ AudioStops \/ AudioKey
  \/ Trailer \/ Drain \/ EndTime \/ EndKey
  \/ StopClock \/ StopVideo \/ StopAudio \/ Close

Next == Player \/ Tick \/ Signal \/ \E av \in Streams : Decode(av)

Spec == Init /\ [][Next]_vars

\* The player never blocks, a running clock goes on, and a decoder takes what is due.
\* Nothing is asked of the user.
FairSpec ==
  /\ Spec
  /\ WF_vars(Player) /\ WF_vars(Tick)
  /\ \A av \in Streams : WF_vars(Decode(av))

-----------------------------------------------------------------------------
(* Properties *)

\* As long as no call has failed, the clock runs whenever playing is set and paused is
\* not, up to the end: keys, rebuffering and jumps, which all start and stop the clock and
\* change the flags, do both together.  (It is about the flags.  A player for which
\* playing is not set may still wait for a clock that stands: a jump made in a pause while
\* the end is waited for takes playing and the pause back and starts no clock.)
PlayingRuns ==
  context.playing /\ ~context.paused /\ faults = 0 =>
    running \/ pc \in {"stopvideo", "stopaudio", "close", "closed"}

\* Once the first frame is found nothing is skipped, whatever is jumped over: the
\* decoders get every packet between the first and the last one they got.
NoGap ==
  \A i, j \in sent : \A k \in i..j : File[k].av \in Streams => k \in sent

\* play_video stops the decoders, when no user asked for it, only after every video frame
\* has come up, though frames are not sent in the order of their times, and after those
\* that end with the last one read or before it have been shown to their end.  (The time
\* waited for is the end of the last frame read: a frame sent before it and shown after it
\* may be cut short when a key ends the last wait of get_key early.)
NothingCutOff ==
  (pc = "stopvideo" /\ ~ret /\ ~context.stopped /\ faults = 0) =>
    \A i \in sent \cap Of("video") :
      /\ File[i].pts < stc
      /\ File[i].pts + FrameTime <= context.last_time => File[i].pts + FrameTime < stc

\* In a pause nothing is read beyond max_buffer_time, the "maximum time to buffer data
\* when paused".
PauseBoundsBuffer ==
  [][context.paused /\ context'.last_time # context.last_time =>
       context.last_time <= stc + MaxBuffer]_vars

\* A stop key or a signal ends the player and closes everything, also in a pause, in
\* the middle of a jump, and with the decoder full of audio.  (The video decoder must
\* hold max_buffer_time: write_video_packet does not look at stopped.)
StopHeeded == context.stopped ~> pc = "closed"

\* A player that is not left paused gets to the end, unless a call has failed (a clock
\* that could not be started again is not tried again) or a jump and a pause meet while
\* the end is waited for (check_jump takes the pause back and leaves the clock stopped).
PlayerEnds ==
  /\ <>[](~context.paused /\ faults = 0)
  /\ [](context.ending /\ context.jump => ~context.paused)
  => <>(pc = "closed")

\* playmp4.c:98 says of playing: "True when video engine plays video."  Then the clock
\* only runs while playing is set.
PlayingTellsTheTruth == running /\ pc # "closed" => context.playing

=============================================================================
