------------------------------- MODULE Session -------------------------------
(***************************************************************************)
(* The life of a player program, from main to its exit handler:            *)
(* playrawmp4, playmp4 or plaympeg gets its handles one after the other,   *)
(* plays, and closes in cleanup what it has.  Any driver call may fail, a   *)
(* signal may ask the program to stop, and a fatal signal may end it at     *)
(* any place, also in the middle of a call of the library and of cleanup:   *)
(* signalcleanup calls exit, and exit runs cleanup (again).                 *)
(*                                                                         *)
(* The functions of the programs are sequences of steps, one per library   *)
(* call; calls in a row that need the same handles are one step.  What is  *)
(* transferred is the matter of RawPlayer and Mp4Player.                    *)
(***************************************************************************)
EXTENDS Naturals, Sequences

CONSTANTS
  Players,   \* the programs started: some of "raw", "mp4", "mpeg"
  MaxFaults  \* failing calls and fatal signals in a behaviour, a bound for TLC

ASSUME SessionAssumption == Players \subseteq {"raw", "mp4", "mpeg"} /\ MaxFaults \in Nat

VARIABLES
  player,
  (* the process *)
  place,    \* the function it is in
  todo,     \* what is left of it
  half,     \* it is inside the library call at the head of todo
  back,     \* what it does after cleanup
  exiting,  \* it is in exit: a signal now kills it
  playing,  \* playing; of playmp4 play_started, which is never taken back
  stopped,
  ctx,      \* the pointers of app_rua_context_t that are not NULL
  live,     \* the structures there are
  (* the driver *)
  hw,       \* the devices it holds open for the program
  (* history *)
  lost,     \* devices whose close failed, or whose open was cut off
  torn,     \* a fatal signal came after a close and before its pointer was reset
  killed,   \* one came in exit
  faults

process == <<place, todo, half, back, exiting, playing, stopped>>
history == <<lost, torn, killed>>
vars == <<player, process, ctx, live, hw, history, faults>>

Devices == {"stc", "video", "audio", "demux"}
Handles == Devices \cup {"rua", "dcc", "pool", "rc"}

-----------------------------------------------------------------------------
(* The steps: to open a handle; to use some, where a failure ends the function; *)
(* to use some, where it is only printed; to close one if the pointer is not     *)
(* NULL, as cleanup does, and without a look at it.                              *)
Open(h) == [do |-> "open", with |-> {h}]
Use(s) == [do |-> "use", with |-> s]
Try(s) == [do |-> "try", with |-> s]
Close(h) == [do |-> "close", with |-> {h}]
Shut(h) == [do |-> "shut", with |-> {h}]

VideoInit == <<Open("rua"), Open("dcc"), Use({"dcc"})>>

\* Codec, scaler, surface.
SetVideo == <<Open("video"), Use({"video"}), Use({"dcc"}), Use({"dcc", "video"})>>
\* Information, format, volume.
SetAudio == <<Open("audio"), Use({"audio"})>>

RawConfigure == <<Open("stc")>> \o SetVideo \o SetAudio \o <<Use({"video"})>>
Mp4Configure == RawConfigure

\* The task with its properties and ciphers, and the streams it takes apart.
DemuxConfigure == <<Open("demux"), Use({"demux"}), Open("stc"), Use({"rua"})>>
DemuxEntries == <<Use({"rua"})>>
MpegConfigure ==
  DemuxConfigure \o DemuxEntries \o SetVideo \o <<Use({"rua"}), Try({"rua"})>>
    \o SetAudio \o <<Use({"dcc"}), Use({"video"})>>

\* play_video up to its loop: clock, decoders, clock again.
RawStart == <<Open("pool"), Use({"stc"}), Use({"video"}), Use({"audio"}), Use({"stc"})>>
Mp4Start == <<Open("pool"), Use({"stc"}), Use({"video"}), Use({"audio"})>>
MpegStart ==
  <<Open("pool"), Use({"rua"}), Use({"stc"}), Use({"video"}), Use({"audio"}),
    Use({"demux"}), Use({"stc"})>>

\* Faulty (not part of the specification): the audio source is forgotten.
CleanupWithoutAudio ==
  <<Close("pool"), Close("video"), Close("stc"), Close("dcc"), Close("rua")>>

RawCleanup ==
  <<Close("pool"), Close("audio"), Close("video"), Close("stc"), Close("dcc"), Close("rua")>>

\* irfd counts as opened as soon as it is not negative, and memset makes it 0.
Mp4Cleanup == RawCleanup \o <<Close("rc")>>

\* The ciphers are freed whether or not there are any, and whether or not pRUA is NULL.
MpegCleanup ==
  <<Close("pool"), Close("audio"), Close("video"), Try({"rua"}), Close("demux"),
    Close("stc"), Close("dcc"), Close("rua")>>

Cleanup ==
  [raw |-> RawCleanup, mp4 |-> Mp4Cleanup, mpeg |-> MpegCleanup][player]

InitScript == IF player = "mp4" THEN VideoInit \o <<Open("rc")>> ELSE VideoInit
Configure ==
  [raw |-> RawConfigure, mp4 |-> Mp4Configure, mpeg |-> MpegConfigure][player]
Start == [raw |-> RawStart, mp4 |-> Mp4Start, mpeg |-> MpegStart][player]
StartPlay == <<Use({"stc"}), Use({"video"}), Use({"audio"})>>

\* The way out of play_video: a kept buffer is released, decoders that play are
\* stopped (stops), the pool is closed.
WayOut(kept, stops) ==
  (IF kept THEN <<Try({"pool"})>> ELSE <<>>)
    \o (IF stops /\ player = "mpeg" THEN <<Use({"demux"})>> ELSE <<>>)
    \o (IF stops THEN StartPlay ELSE <<>>)
    \o <<Shut("pool")>>

-----------------------------------------------------------------------------
TypeOK ==
  /\ player \in Players
  /\ place \in {"begin", "init", "configure", "start", "loop", "play", "last", "out",
                "cleanup", "hung", "gone"}
  /\ half \in BOOLEAN /\ exiting \in BOOLEAN /\ playing \in BOOLEAN /\ stopped \in BOOLEAN
  /\ back \in {"main", "last", "out", "exit"}
  /\ ctx \subseteq Handles /\ live \subseteq Handles
  /\ hw \subseteq Devices /\ lost \subseteq Devices
  /\ torn \in BOOLEAN /\ killed \in BOOLEAN
  /\ faults \in 0..MaxFaults
  /\ half => todo # <<>> /\ Head(todo).do \in {"open", "close"}
  /\ exiting => place \in {"cleanup", "gone"}

\* The handlers are installed, and context_g is zero.
Init ==
  /\ player \in Players
  /\ place = "begin" /\ todo = <<>> /\ half = FALSE /\ back = "exit" /\ exiting = FALSE
  /\ playing = FALSE /\ stopped = FALSE
  /\ ctx = (IF player = "mp4" THEN {"rc"} ELSE {}) /\ live = {} /\ hw = {}
  /\ lost = {} /\ torn = FALSE /\ killed = FALSE /\ faults = 0

Fault == faults < MaxFaults /\ faults' = faults + 1

Goto(p, s) == place' = p /\ todo' = s
Stay == UNCHANGED <<ctx, live, hw>>
Same == UNCHANGED <<player, playing, stopped>>
SameHistory == UNCHANGED history

\* The step at hand is one of kind k.
Now(k) == todo # <<>> /\ Head(todo).do = k
Handle == CHOOSE h \in Head(todo).with : TRUE
Advance == todo' = Tail(todo) /\ UNCHANGED place

\* exit runs exitcleanup.
Exit == Goto("cleanup", Cleanup) /\ half' = FALSE /\ exiting' = TRUE /\ UNCHANGED back

\* A fatal signal: signalcleanup, or the end if the program is in exit already.
Fatal ==
  /\ IF exiting
       THEN /\ Goto("gone", <<>>) /\ half' = FALSE /\ killed' = TRUE
            /\ UNCHANGED <<exiting, back>>
       ELSE Exit /\ UNCHANGED killed
  /\ torn' = (torn \/ (half /\ Now("close")))
  /\ lost' = IF half /\ Now("open") /\ Handle # "video" THEN lost \cup ({Handle} \cap Devices)
             ELSE lost
  /\ Same /\ Stay

\* Faulty: the loop of every program is left with break instead of return.
BreaksAfterFailure ==
  IF place \in {"loop", "play", "last"} THEN "out"
  ELSE IF player = "mp4" /\ place # "init" THEN "main" ELSE "exit"

\* Where a function goes after a failed call and cleanup: out of the program.  main of
\* playmp4 cleans up once more.  play_mp4_video returns to play_video, which goes on.
AfterFailure ==
  IF player # "mp4" \/ place = "init" THEN "exit"
  ELSE IF place \in {"loop", "play", "last"} THEN "out" ELSE "main"

\* A call failed: cleanup, and then where.  RUACreateInstance alone fails without a
\* cleanup.  RCCOpen returns a negative irfd.
GivesUp(where) ==
  /\ IF todo # <<>> /\ Head(todo) = Open("rua")
       THEN Exit
       ELSE /\ Goto("cleanup", Cleanup) /\ back' = where
            /\ half' = FALSE /\ UNCHANGED exiting
  /\ ctx' = IF todo # <<>> /\ Head(todo) = Open("rc") THEN ctx \ {"rc"} ELSE ctx
  /\ UNCHANGED <<live, hw>> /\ Same /\ SameHistory

Fails == GivesUp(AfterFailure)

-----------------------------------------------------------------------------
(* The steps *)

\* A NULL pointer: the functions of libdcc return RM_INVALID_PARAMETER, those of
\* librua use it.
Missing == IF todo = <<>> THEN {} ELSE Head(todo).with \ ctx
Crashes(s) == s \cap {"rua", "pool"} # {}

SetHw == hw' = hw \cup ({Handle} \cap Devices)
SetHandle == ctx' = ctx \cup {Handle} /\ live' = live \cup {Handle}

\* DCCXOpenVideoDecoderSource hands out the structure before it opens the decoder, the
\* other calls open the device first.
BeginOpen ==
  /\ Now("open") /\ ~half /\ half' = TRUE
  /\ IF Handle = "video" THEN SetHandle /\ UNCHANGED hw ELSE SetHw /\ UNCHANGED <<ctx, live>>
  /\ UNCHANGED <<place, todo, back, exiting, faults>> /\ Same /\ SameHistory

EndOpen ==
  /\ Now("open") /\ half /\ half' = FALSE
  /\ IF Handle = "video" THEN SetHw /\ UNCHANGED <<ctx, live>> ELSE SetHandle /\ UNCHANGED hw
  /\ Advance
  /\ UNCHANGED <<back, exiting, faults>> /\ Same /\ SameHistory

\* DCCOpenDemuxTask is not implemented in this libdcc: it may fail at any time.
OpenFails ==
  /\ Now("open") /\ (half => Handle = "video")
  /\ Fault \/ (Handle = "demux" /\ UNCHANGED faults)
  /\ Fails

UseOk ==
  /\ Now("use") \/ Now("try") \/ Now("shut")
  /\ Missing = {}
  /\ Advance
  /\ ctx' = IF Now("shut") THEN ctx \ {Handle} ELSE ctx
  /\ live' = IF Now("shut") THEN live \ {Handle} ELSE live
  /\ UNCHANGED <<half, back, exiting, hw, faults>> /\ Same /\ SameHistory

UseFails ==
  /\ Now("use") /\ ~Crashes(Missing)
  /\ (Missing # {} /\ UNCHANGED faults) \/ (Missing = {} /\ Fault)
  /\ Fails

\* What fails here is printed.
TryFails ==
  /\ Now("try") /\ Missing = {} /\ Fault
  /\ Advance
  /\ UNCHANGED <<half, back, exiting>> /\ Same /\ SameHistory /\ Stay

UseNull ==
  /\ Now("use") \/ Now("try") \/ Now("shut")
  /\ Crashes(Missing)
  /\ Fatal /\ UNCHANGED faults

\* What a call with the handle at hand reads: each structure keeps its pRua.
Reads(s) == s \cup (IF s \subseteq {"rua", "dcc", "rc", "pool"} THEN {} ELSE {"rua"})
Dead == todo # <<>> /\ ~half /\ ~(Reads(Head(todo).with \cap ctx) \subseteq live \cup {"rc"})

CloseSkipped ==
  /\ Now("close") /\ ~half /\ Handle \notin ctx
  /\ Advance
  /\ UNCHANGED <<half, back, exiting, faults>> /\ Same /\ SameHistory /\ Stay

\* The call.  DCCSTCClose frees its structure whatever the driver says.
BeginClose ==
  /\ Now("close") /\ ~half /\ Handle \in ctx /\ ~Dead
  /\ half' = TRUE
  /\ \/ /\ hw' = hw \ {Handle} /\ live' = live \ {Handle}
        /\ UNCHANGED <<lost, faults>>
     \/ /\ Handle \in Devices /\ Fault
        /\ lost' = lost \cup {Handle}
        /\ live' = IF Handle = "stc" THEN live \ {Handle} ELSE live
        /\ UNCHANGED hw
  /\ UNCHANGED <<place, todo, back, exiting, ctx, torn, killed>> /\ Same

\* A structure that is freed already: anything may come of it.
CloseDead ==
  /\ Now("close") /\ ~half /\ Handle \in ctx /\ Dead
  /\ \/ Fatal
     \/ half' = TRUE /\ UNCHANGED <<place, todo, back, exiting>> /\ Same /\ SameHistory /\ Stay
  /\ UNCHANGED faults

\* Faulty: only a successful close resets the pointer.
EndCloseOnSuccess ==
  /\ Now("close") /\ half /\ half' = FALSE
  /\ ctx' = IF Handle \in lost THEN ctx ELSE ctx \ {Handle}
  /\ Advance
  /\ UNCHANGED <<back, exiting, live, hw, faults>> /\ Same /\ SameHistory

\* The pointer is reset whatever the call returned.
EndClose ==
  /\ Now("close") /\ half /\ half' = FALSE
  /\ ctx' = ctx \ {Handle}
  /\ Advance
  /\ UNCHANGED <<back, exiting, live, hw, faults>> /\ Same /\ SameHistory

-----------------------------------------------------------------------------
(* The functions *)

\* memset of the context: the stopped of playmp4 is in it.
Begin ==
  /\ place = "begin" /\ Goto("init", InitScript)
  /\ stopped' = (stopped /\ player # "mp4")
  /\ UNCHANGED <<player, half, back, exiting, playing, faults>> /\ SameHistory /\ Stay

\* A function has returned RM_OK.
Done(p) == place = p /\ todo = <<>>
GoesOn == UNCHANGED <<half, back, exiting, stopped, player, faults>> /\ SameHistory /\ Stay

InitDone == Done("init") /\ Goto("configure", Configure) /\ UNCHANGED playing /\ GoesOn

\* play_video looks at stopped first.
ConfigureDone ==
  /\ Done("configure")
  /\ IF stopped THEN Goto("cleanup", Cleanup) ELSE Goto("start", Start)
  /\ UNCHANGED playing /\ GoesOn

StartDone == Done("start") /\ Goto("loop", <<>>) /\ UNCHANGED playing /\ GoesOn

\* A round of the loop in which everything works changes nothing here.  When the
\* transfer of playmp4 fails, transfer_data has cleaned up, and its loop is only broken
\* off; every other failure there makes play_mp4_video clean up and return.
LoopFails ==
  /\ Done("loop") /\ Fault
  /\ Fails \/ (player = "mp4" /\ GivesUp("last"))

\* write_video_packet of playmp4 sends until the decoder has taken everything, and looks
\* at nothing else.  When the clock could not be started again after a pause, which is
\* only printed, the decoder takes nothing once it is full.  (It holds what is read
\* ahead in a pause, as Mp4Player assumes.)
Hang ==
  /\ player = "mp4" /\ Done("loop") /\ playing /\ Fault
  /\ Goto("hung", <<>>)
  /\ UNCHANGED <<half, back, exiting>> /\ Same /\ SameHistory /\ Stay

LoopStartsPlay ==
  /\ Done("loop") /\ ~playing
  /\ Goto("play", StartPlay) /\ UNCHANGED playing /\ GoesOn

\* Faulty: that video plays now is not noted.
PlayDoneForgets == Done("play") /\ Goto("loop", <<>>) /\ UNCHANGED playing /\ GoesOn

PlayDone == Done("play") /\ Goto("loop", <<>>) /\ playing' = TRUE /\ GoesOn

\* To the way out of play_video, with or without a buffer kept over RM_PENDING.
\* playmp4 plays nothing there while it is buffering.
ToOut ==
  \E kept, stops \in BOOLEAN :
    /\ IF player = "mp4" THEN stops => playing ELSE stops = playing
    /\ Goto("out", WayOut(kept, stops))

\* After the loop of play_mp4_video: a video so small that it does not play yet is
\* started, as long as a frame of it was read.
ToLast == player = "mp4" /\ ~playing /\ Goto("last", StartPlay)

\* Faulty: only the end of the file ends the loop.
LoopEndsWithFile ==
  /\ Done("loop") /\ ~stopped
  /\ ToOut \/ ToLast
  /\ UNCHANGED playing /\ GoesOn

\* The end of the file, or stopped.
LoopEnds ==
  /\ Done("loop")
  /\ ToOut \/ ToLast
  /\ UNCHANGED playing /\ GoesOn

LastDone ==
  /\ Done("last") /\ playing' = TRUE
  /\ \E kept \in BOOLEAN : Goto("out", WayOut(kept, TRUE))
  /\ GoesOn

\* main cleans up, and returns.
OutDone == Done("out") /\ Goto("cleanup", Cleanup) /\ UNCHANGED playing /\ GoesOn

\* ... to the exit handler, to main which cleans up again, to the end of
\* play_mp4_video, or to play_video.
CleanupDone ==
  /\ Done("cleanup")
  /\ IF exiting THEN Goto("gone", <<>>) /\ UNCHANGED <<back, exiting, half>>
     ELSE IF back = "exit" THEN Exit
     ELSE /\ back' = "exit"
          /\ \/ back = "main" /\ Goto("cleanup", Cleanup)
             \/ back = "last" /\ ToLast
             \/ back \in {"last", "out"} /\ ToOut
          /\ UNCHANGED <<half, exiting>>
  /\ UNCHANGED faults /\ Same /\ SameHistory /\ Stay

Program ==
  \/ BeginOpen \/ EndOpen \/ OpenFails \/ UseOk \/ UseFails \/ TryFails \/ UseNull
  \/ CloseSkipped \/ BeginClose \/ CloseDead \/ EndClose
  \/ Begin \/ InitDone \/ ConfigureDone \/ StartDone \/ LoopFails \/ LoopStartsPlay
  \/ PlayDone \/ Hang \/ LoopEnds \/ LastDone \/ OutDone \/ CleanupDone

\* signalhandler
Stop ==
  /\ ~stopped /\ place # "gone"
  /\ stopped' = TRUE
  /\ UNCHANGED <<player, place, todo, half, back, exiting, playing, faults>>
  /\ SameHistory /\ Stay

\* SIGSEGV and its like, from anywhere.
Crash == place # "gone" /\ Fault /\ Fatal

Next == Program \/ Stop \/ Crash

Spec == Init /\ [][Next]_vars

\* The program does not block, but may go round its loop for ever until it is stopped.
\* No call has to fail, and a program that hangs has no steps left.
FairSpec == Spec /\ WF_vars((Done("loop") => stopped) /\ Program /\ UNCHANGED faults)

-----------------------------------------------------------------------------
(* Properties *)

\* Whatever fails wherever, no structure is used after it was freed, by cleanup after
\* cleanup and by the calls that close one structure and read another: unless a fatal
\* signal has come right between a close and the reset of its pointer.
NothingDeadUsed == ~torn => ~Dead

\* No function is called with a NULL pointer, but in three known places: plaympeg frees
\* its ciphers in every cleanup; and playmp4, which goes on when transfer_data has
\* cleaned up on a failure, starts to play what it thinks is a very small video
\* (playmp4.c:1103) and goes the way out of play_video with what is not there any more.
NeverNull ==
  Now("use") \/ Now("try") \/ Now("shut") =>
    \/ Missing = {}
    \/ player = "mpeg" /\ place = "cleanup"
    \/ player = "mp4" /\ place = "last" /\ faults > 0
    \/ player = "mp4" /\ place = "out" /\ faults > 0

\* However the program ends, all devices it had opened are closed, but those whose own
\* close failed or whose opening a fatal signal cut off.  Nothing is said of a program
\* killed by a signal in exit, and of one in which a signal has come right between a
\* close and the reset of its pointer.
EverythingClosed ==
  place = "gone" /\ ~killed /\ ~torn => hw \subseteq lost

\* How far the program is from its end: the function it is in, of those it may still get
\* to, and the half calls left of it.
Phase ==
  IF place = "gone" THEN 0
  ELSE IF exiting THEN 1
  ELSE IF place = "cleanup" THEN [exit |-> 2, main |-> 3, out |-> 5, last |-> 7][back]
  ELSE IF place = "loop" THEN (IF playing THEN 9 ELSE 11)
  ELSE [out |-> 4, last |-> 6, hung |-> 8, play |-> 10, start |-> 12, configure |-> 13,
        init |-> 14, begin |-> 15][place]
Left == 2 * Len(todo) - (IF half THEN 1 ELSE 0)

\* However calls fail and signals come, no program goes back to where it was, from one
\* cleanup to the same with the same way on, or from the end of play_video to its start:
\* but for the rounds of its loop, each step brings it nearer to its end.  playmp4 gets
\* there by up to five cleanups: of the transfer, of the start after the loop, of
\* play_video, of main and of exit.
AlwaysNearer ==
  [][Program \/ Crash => Phase' < Phase \/ (Phase' = Phase /\ Left' < Left)]_vars

\* A program asked to stop ends, whatever it was about and whatever fails, unless it
\* hangs: playmp4, in write_video_packet with a clock that did not start.
StopEnds == stopped /\ place # "begin" ~> place \in {"gone", "hung"}

=============================================================================
