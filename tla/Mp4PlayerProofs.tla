-------------------------- MODULE Mp4PlayerProofs ---------------------------
(* Proofs about playmp4's player: the clock runs when the flags say so, the     *)
(* decoders get the file without a gap, a pause bounds what is read ahead, and  *)
(* the decoders are not stopped before every frame has come up.                 *)
EXTENDS Mp4Player, TLAPS

ContextShape ==
  [playing : BOOLEAN, paused : BOOLEAN, stopped : BOOLEAN, ending : BOOLEAN,
   started : BOOLEAN, play_started : BOOLEAN, jump : BOOLEAN,
   time : Int, last_time : Int, cur_time : Int, startplaypts : Int, startpts : Int]

\* The types, without the bounds of the times: a decoder clock set beyond MaxTime is
\* no concern of these proofs.
Shape ==
  /\ stc \in Int
  /\ context \in ContextShape
  /\ pos \in Nat /\ pos <= Len(File) /\ sent \subseteq 0..pos
  /\ faults \in Nat

LEMMA FileShape ==
  /\ Len(File) \in Nat
  /\ \A i \in 1..Len(File) : File[i].pts \in Nat
  /\ StartTimes \subseteq Nat /\ JumpTime \in Nat /\ MaxTime \in Nat
  /\ FrameTime \in Nat /\ FrameTime >= 1
<1> DEFINE Packets == [av : Streams \cup {"other"}, pts : 0..MaxTime - FrameTime]
<1>0. ASSUME NEW p \in Packets PROVE p.pts \in 0..MaxTime - FrameTime
  OBVIOUS
<1>1. File \in Seq(Packets)
  BY Mp4Assumption
<1> HIDE DEF Packets
<1>2. /\ StartTimes \subseteq Nat /\ JumpTime \in Nat /\ MaxTime \in Nat
      /\ FrameTime \in Nat /\ FrameTime >= 1
  BY Mp4Assumption
<1>3. Len(File) \in Nat
  BY <1>1
<1>4. ASSUME NEW i \in 1..Len(File) PROVE File[i].pts \in Nat
  <2>1. File[i] \in Packets
    BY <1>1
  <2>2. File[i].pts \in 0..MaxTime - FrameTime
    BY <1>0, <2>1
  <2> QED
    BY <2>2, <1>2
<1> QED
  BY <1>2, <1>3, <1>4

LEMMA ShapeInit == Init => Shape
BY FileShape DEF Init, Shape, ContextShape, Never

\* Keys change flags and the time to play from, and the clock may fail.
LEMMA ShapeKey ==
  ASSUME Shape, GetKey
  PROVE  context' \in ContextShape /\ faults' \in Nat
<1>0. context \in ContextShape /\ faults \in Nat /\ JumpTime \in Nat
  BY FileShape DEF Shape
<1>1. CASE NoKey
  BY <1>0, <1>1 DEF NoKey
<1>2. CASE KeyStop
  BY <1>0, <1>2 DEF KeyStop, ContextShape
<1>3. CASE KeyOk
  <2>1. faults' \in Nat
    BY <1>0, <1>3 DEF KeyOk, Clock, Fails
  <2>2. context' = [context EXCEPT !.paused = FALSE] \/ context' = [context EXCEPT !.paused = TRUE]
    BY <1>3 DEF KeyOk
  <2> QED
    BY <1>0, <2>1, <2>2 DEF ContextShape
<1>4. CASE KeyUp
  <2>1. context.time + JumpTime \in Int
    BY <1>0 DEF ContextShape
  <2>2. context' = [context EXCEPT !.startplaypts = context.time + JumpTime, !.jump = TRUE]
    BY <1>4 DEF KeyUp
  <2>3. faults' = faults
    BY <1>4 DEF KeyUp
  <2> HIDE DEF ContextShape
  <2>4. ASSUME NEW t \in Int
        PROVE  [context EXCEPT !.startplaypts = t, !.jump = TRUE] \in ContextShape
    BY <1>0 DEF ContextShape
  <2> QED
    BY <1>0, <2>1, <2>2, <2>3, <2>4
<1> QED
  BY <1>1, <1>2, <1>3, <1>4 DEF GetKey

\* What the player does to its context besides the keys.
LEMMA ShapeContext ==
  ASSUME context \in ContextShape, NEW t \in Int, NEW u \in Int, NEW w \in Int
  PROVE  /\ [context EXCEPT !.playing = FALSE] \in ContextShape
         /\ [context EXCEPT !.stopped = TRUE] \in ContextShape
         /\ [context EXCEPT !.paused = FALSE, !.playing = FALSE] \in ContextShape
         /\ [context EXCEPT !.started = TRUE, !.jump = FALSE] \in ContextShape
         /\ [context EXCEPT !.time = t] \in ContextShape
         /\ [context EXCEPT !.cur_time = t] \in ContextShape
         /\ [context EXCEPT !.playing = TRUE, !.play_started = TRUE] \in ContextShape
         /\ [context EXCEPT !.ending = TRUE, !.cur_time = context.last_time] \in ContextShape
         /\ [context EXCEPT !.last_time = t, !.cur_time = u, !.startpts = w] \in ContextShape
<1>1. context.last_time \in Int
  BY DEF ContextShape
<1>2. [context EXCEPT !.last_time = t, !.cur_time = u, !.startpts = w] \in ContextShape
  BY DEF ContextShape
<1>3. [context EXCEPT !.ending = TRUE, !.cur_time = context.last_time] \in ContextShape
  BY <1>1 DEF ContextShape
<1>4. /\ [context EXCEPT !.playing = FALSE] \in ContextShape
      /\ [context EXCEPT !.stopped = TRUE] \in ContextShape
      /\ [context EXCEPT !.paused = FALSE, !.playing = FALSE] \in ContextShape
      /\ [context EXCEPT !.started = TRUE, !.jump = FALSE] \in ContextShape
  BY DEF ContextShape
<1>5. /\ [context EXCEPT !.time = t] \in ContextShape
      /\ [context EXCEPT !.cur_time = t] \in ContextShape
      /\ [context EXCEPT !.playing = TRUE, !.play_started = TRUE] \in ContextShape
  BY DEF ContextShape
<1> QED
  BY <1>2, <1>3, <1>4, <1>5

\* A step of the player that fails or ends.
LEMMA ShapeGiveUp == ASSUME Shape, GiveUp PROVE Shape'
BY DEF Shape, GiveUp, Fails

LEMMA ShapeLoop ==
  ASSUME Shape,
         Setup \/ LoopKey \/ StopSeen \/ LoopTime \/ StartPlay \/ StopToRebuffer
         \/ StopToJump \/ EndPauseToJump \/ JumpOn \/ SetTime
  PROVE  Shape'
<1>0. /\ context \in ContextShape /\ faults \in Nat /\ stc \in Int
  BY DEF Shape
<1>1. CASE Setup
  <2>1. CASE GiveUp
    BY <2>1, ShapeGiveUp
  <2>2. CASE GetKey /\ UNCHANGED <<stc, queued, pos, ret, sent>>
    BY <2>2, ShapeKey DEF Shape
  <2> QED
    BY <1>1, <2>1, <2>2 DEF Setup
<1>2. CASE LoopKey
  BY <1>2, ShapeKey DEF Shape, LoopKey
<1>3. CASE StopSeen
  BY <1>3 DEF Shape, StopSeen, hardware
<1>4. CASE LoopTime
  BY <1>0, <1>4, ShapeContext, ShapeGiveUp DEF Shape, LoopTime, hardware
<1>5. CASE StartPlay
  BY <1>0, <1>5, ShapeContext, ShapeGiveUp DEF Shape, StartPlay
<1>6. CASE StopToRebuffer
  BY <1>0, <1>6, ShapeContext, ShapeGiveUp DEF Shape, StopToRebuffer
<1>7. CASE StopToJump
  BY <1>0, <1>7, ShapeContext, ShapeGiveUp DEF Shape, StopToJump
<1>8. CASE EndPauseToJump
  BY <1>0, <1>8, ShapeContext DEF Shape, EndPauseToJump, hardware
<1>9. CASE JumpOn
  BY <1>9 DEF Shape, JumpOn, hardware
<1>10. CASE SetTime
  <2>1. stc' \in Int /\ faults' \in Nat
    BY <1>0, <1>10 DEF SetTime, Fails, ContextShape
  <2>2. context' \in ContextShape /\ UNCHANGED <<pos, sent>>
    BY <1>0, <1>10, ShapeContext DEF SetTime
  <2> QED
    BY <2>1, <2>2 DEF Shape
<1> QED
  BY <1>1, <1>2, <1>3, <1>4, <1>5, <1>6, <1>7, <1>8, <1>9, <1>10

LEMMA ShapePacket ==
  ASSUME Shape,
         ReadEnds \/ ReadOther \/ ReadVideo \/ ReadAudio
         \/ WritePacket \/ AudioStops \/ AudioKey
  PROVE  Shape'
<1>0. /\ context \in ContextShape /\ faults \in Nat /\ stc \in Int
      /\ pos \in Nat /\ pos <= Len(File) /\ sent \subseteq 0..pos
  BY DEF Shape
<1>1. ASSUME pos < Len(File), pos' = pos + 1, UNCHANGED <<stc, sent, faults>>,
             context' \in ContextShape
      PROVE  Shape'
  BY <1>0, <1>1, FileShape DEF Shape
<1>2. CASE ReadEnds
  BY <1>0, <1>2 DEF Shape, ReadEnds, Fails, hardware
<1>3. CASE ReadOther
  BY <1>0, <1>1, <1>3 DEF ReadOther, hardware
<1>4. pos < Len(File) => File[pos + 1].pts \in Int
  BY <1>0, FileShape
<1>5. CASE ReadVideo
  <2> DEFINE pts == File[pos + 1].pts
             start == IF pts < context.startpts /\ ~context.playing THEN pts
                      ELSE context.startpts
  <2>2. context' = [context EXCEPT !.last_time = pts + FrameTime, !.cur_time = pts,
                                   !.startpts = start]
    BY <1>5 DEF ReadVideo
  <2>3. pts \in Int /\ pts + FrameTime \in Int /\ start \in Int
    BY <1>0, <1>4, <1>5, FileShape DEF ReadVideo, ContextShape
  <2> HIDE DEF pts, start
  <2>1. context' \in ContextShape
    BY <1>0, <2>2, <2>3, ShapeContext
  <2> QED
    BY <1>1, <1>5, <2>1 DEF ReadVideo, hardware
<1>6. CASE ReadAudio
  <2>1. context' \in ContextShape
    BY <1>0, <1>4, <1>6, ShapeContext DEF ReadAudio
  <2> QED
    BY <1>1, <1>6, <2>1 DEF ReadAudio, hardware
<1>7. CASE WritePacket
  <2>1. CASE GiveUp
    BY <2>1, ShapeGiveUp
  <2>2. CASE sent' = sent \cup {pos}
                            /\ UNCHANGED <<running, stc, context, pos, ret, faults>>
    BY <1>0, <2>2 DEF Shape
  <2> QED
    BY <1>7, <2>1, <2>2 DEF WritePacket
<1>8. CASE AudioStops
  BY <1>0, <1>8 DEF Shape, AudioStops, hardware
<1>9. CASE AudioKey
  BY <1>0, <1>9, ShapeKey DEF Shape, AudioKey
<1> QED
  BY <1>2, <1>3, <1>5, <1>6, <1>7, <1>8, <1>9

LEMMA ShapeEnd ==
  ASSUME Shape,
         Trailer \/ Drain \/ EndTime \/ EndKey \/ StopClock \/ StopVideo \/ StopAudio
         \/ Close \/ Tick \/ Signal \/ \E av \in Streams : Decode(av)
  PROVE  Shape'
<1>0. context \in ContextShape /\ faults \in Nat /\ stc \in Int
  BY DEF Shape
<1>1. CASE Trailer
  BY <1>1 DEF Shape, Trailer, hardware
<1>2. CASE Drain
  BY <1>0, <1>2, ShapeContext DEF Shape, Drain, hardware
<1>3. CASE EndTime
  BY <1>0, <1>3, ShapeContext, ShapeGiveUp DEF Shape, EndTime, hardware
<1>4. CASE EndKey
  BY <1>4, ShapeKey DEF Shape, EndKey
<1>5. CASE StopClock
  BY <1>5, ShapeGiveUp DEF Shape, StopClock
<1>6. CASE StopVideo
  BY <1>6, ShapeGiveUp DEF Shape, StopVideo
<1>7. CASE StopAudio
  BY <1>0, <1>7, ShapeContext, ShapeGiveUp DEF Shape, StopAudio
<1>8. CASE Close
  BY <1>8 DEF Shape, Close
<1>9. CASE Tick
  BY <1>0, <1>9 DEF Shape, Tick
<1>10. CASE Signal
  BY <1>0, <1>10, ShapeContext DEF Shape, Signal, hardware
<1>11. CASE \E av \in Streams : Decode(av)
  BY <1>11 DEF Shape, Decode
<1> QED
  BY <1>1, <1>2, <1>3, <1>4, <1>5, <1>6, <1>7, <1>8, <1>9, <1>10, <1>11

LEMMA ShapeNext == Shape /\ [Next]_vars => Shape'
<1> SUFFICES ASSUME Shape, [Next]_vars PROVE Shape'
  OBVIOUS
<1>1. CASE UNCHANGED vars
  BY <1>1 DEF Shape, vars
<1>2. CASE Next
  BY <1>2, ShapeLoop, ShapePacket, ShapeEnd DEF Next, Player
<1> QED
  BY <1>1, <1>2

-----------------------------------------------------------------------------
\* A key leaves a player that plays with a running clock, unless the clock fails.
LEMMA RunsKey ==
  ASSUME Shape, GetKey, pc \notin {"stopvideo", "stopaudio", "close", "closed"},
         PlayingRuns
  PROVE  context'.playing /\ ~context'.paused /\ faults' = 0 => running'
<1>0. context \in ContextShape /\ faults \in Nat
  BY DEF Shape
<1>1. CASE NoKey
  BY <1>1 DEF NoKey, PlayingRuns
<1>2. CASE KeyStop
  BY <1>0, <1>2 DEF KeyStop, PlayingRuns, ContextShape
<1>3. CASE KeyOk
  BY <1>0, <1>3 DEF KeyOk, Clock, Fails, ContextShape
<1>4. CASE KeyUp
  BY <1>0, <1>4 DEF KeyUp, PlayingRuns, ContextShape
<1> QED
  BY <1>1, <1>2, <1>3, <1>4 DEF GetKey

\* The steps that leave the clock, the two flags and the count of failures alone.
LEMMA RunsQuiet ==
  ASSUME PlayingRuns,
         running' = running, faults' = faults,
         context'.playing = context.playing, context'.paused = context.paused,
         pc \in {"stopvideo", "stopaudio", "close", "closed"}
           => pc' \in {"stopvideo", "stopaudio", "close", "closed"}
  PROVE  PlayingRuns'
BY DEF PlayingRuns

LEMMA RunsNext == Shape /\ PlayingRuns /\ [Next]_vars => PlayingRuns'
<1> SUFFICES ASSUME Shape, PlayingRuns, [Next]_vars PROVE PlayingRuns'
  OBVIOUS
<1>0. context \in ContextShape /\ faults \in Nat
  BY DEF Shape
<1>1. CASE UNCHANGED vars
  BY <1>1, RunsQuiet DEF vars
<1>2. CASE GiveUp
  BY <1>2 DEF GiveUp, PlayingRuns, Goto
<1>3. CASE GetKey /\ pc \notin {"stopvideo", "stopaudio", "close", "closed"}
  BY <1>3, RunsKey DEF PlayingRuns
<1>4. CASE Setup
  BY <1>2, <1>3, <1>4 DEF Setup, At
<1>5. CASE LoopKey \/ EndKey \/ AudioKey
  BY <1>3, <1>5 DEF LoopKey, EndKey, AudioKey, AudioWaits, At
<1>6. CASE StopSeen \/ JumpOn \/ ReadOther \/ AudioStops \/ Trailer
  BY <1>6, RunsQuiet
     DEF StopSeen, JumpOn, ReadOther, AudioStops, AudioWaits, Trailer, hardware, At
<1>7. CASE LoopTime
  <2>1. CASE context' = [context EXCEPT !.time = stc] /\ UNCHANGED <<hardware, faults>>
    BY <1>0, <1>7, <2>1, RunsQuiet DEF LoopTime, hardware, At, ContextShape
  <2> QED
    BY <1>2, <1>7, <2>1 DEF LoopTime
<1>8. CASE StartPlay
  BY <1>2, <1>8 DEF StartPlay, PlayingRuns
<1>9. CASE StopToRebuffer
  BY <1>0, <1>2, <1>9 DEF StopToRebuffer, PlayingRuns, ContextShape
<1>10. CASE StopToJump
  BY <1>0, <1>2, <1>10 DEF StopToJump, PlayingRuns, ContextShape
<1>11. CASE EndPauseToJump
  BY <1>0, <1>11 DEF EndPauseToJump, PlayingRuns, ContextShape
<1>12. CASE SetTime
  <2>1. running' = running /\ pc = "settime"
    BY <1>12 DEF SetTime, At
  <2>2. context'.playing = context.playing /\ context'.paused = context.paused
    BY <1>0, <1>12 DEF SetTime, ContextShape
  <2>3. faults' = 0 => faults = 0
    BY <1>0, <1>12 DEF SetTime, Fails
  <2> QED
    BY <2>1, <2>2, <2>3 DEF PlayingRuns
<1>13. CASE ReadEnds
  <2>1. running' = running /\ context' = context /\ pc = "read"
    BY <1>13 DEF ReadEnds, hardware, At
  <2>2. faults' = 0 => faults = 0
    BY <1>0, <1>13 DEF ReadEnds, Fails
  <2> QED
    BY <2>1, <2>2 DEF PlayingRuns
<1>14. CASE ReadVideo \/ ReadAudio
  <2>1. running' = running /\ faults' = faults /\ pc = "read"
    BY <1>14 DEF ReadVideo, ReadAudio, hardware, At
  <2>2. context'.playing = context.playing /\ context'.paused = context.paused
    BY <1>0, <1>14 DEF ReadVideo, ReadAudio, ContextShape
  <2> QED
    BY <2>1, <2>2, RunsQuiet
<1>15. CASE WritePacket
  BY <1>2, <1>15, RunsQuiet DEF WritePacket, At
<1>16. CASE Drain
  <2>1. running' = running /\ faults' = faults /\ pc = "drain"
    BY <1>16 DEF Drain, hardware, At
  <2>2. context'.playing = context.playing /\ context'.paused = context.paused
    BY <1>0, <1>16 DEF Drain, ContextShape
  <2> QED
    BY <2>1, <2>2, RunsQuiet
<1>17. CASE EndTime
  <2>1. CASE context' = [context EXCEPT !.time = stc] /\ UNCHANGED <<hardware, faults>>
    BY <1>0, <1>17, <2>1, RunsQuiet DEF EndTime, hardware, At, ContextShape
  <2> QED
    BY <1>2, <1>17, <2>1 DEF EndTime
<1>18. CASE StopClock \/ StopVideo \/ StopAudio \/ Close
  <2>1. CASE pc' \in {"stopvideo", "stopaudio", "close", "closed"}
    BY <2>1 DEF PlayingRuns
  <2> QED
    BY <1>2, <1>18, <2>1 DEF StopClock, StopVideo, StopAudio, Close, Goto
<1>19. CASE Tick
  BY <1>19, RunsQuiet DEF Tick
<1>20. CASE Signal
  <2>1. context'.playing = context.playing /\ context'.paused = context.paused
    BY <1>0, <1>20 DEF Signal, ContextShape
  <2> QED
    BY <1>20, <2>1, RunsQuiet DEF Signal, hardware
<1>21. CASE \E av \in Streams : Decode(av)
  BY <1>21, RunsQuiet DEF Decode
<1> QED
  BY <1>1, <1>4, <1>5, <1>6, <1>7, <1>8, <1>9, <1>10, <1>11, <1>12, <1>13, <1>14, <1>15,
     <1>16, <1>17, <1>18, <1>19, <1>20, <1>21 DEF Next, Player

\* As long as no call has failed, context.playing without context.paused means that the
\* clock runs, until play_video has stopped it at the end: start_play, the stop for
\* rebuffering, the two ways of check_jump and the key OK keep the flags and the clock
\* together, in every order and for every file and configuration.
THEOREM PlayingAlwaysRuns == Spec => []PlayingRuns
<1>1. Init => Shape /\ PlayingRuns
  <2> SUFFICES ASSUME Init PROVE Shape /\ PlayingRuns
    OBVIOUS
  <2>1. context.playing = FALSE
    BY DEF Init
  <2> QED
    BY <2>1, ShapeInit DEF PlayingRuns
<1>2. Shape /\ PlayingRuns /\ [Next]_vars => (Shape /\ PlayingRuns)'
  BY ShapeNext, RunsNext
<1> QED
  BY <1>1, <1>2, PTL DEF Spec

-----------------------------------------------------------------------------
(* No gap: a packet in hand is the first one the decoders do not have. *)

\* The packets that have been written or skipped.
Done == IF pc \in {"jump", "settime", "write"} THEN pos - 1 ELSE pos

Reading == ~context.ending /\ pc \in {"setup"} \cup InLoop

\* Every packet after the first one written is written too.
GaplessTo(n) == \A i \in sent : \A k \in i..n : File[k].av \in Streams => k \in sent

GapInv ==
  /\ NoGap
  /\ Reading => GaplessTo(Done)
  /\ sent # {} \/ pc = "write" => context.started
  /\ context.ending => pc \in AtEnd \cup {"closed"}
  /\ pc \in {"endtime", "endkey"} => context.ending

LEMMA GapInit == Init => GapInv
<1> SUFFICES ASSUME Init PROVE GapInv
  OBVIOUS
<1>1. sent = {} /\ pc = "setup" /\ context.ending = FALSE
  BY DEF Init
<1> QED
  BY <1>1 DEF GapInv, NoGap, GaplessTo

\* Steps that write nothing and keep their place in the file.
LEMMA GapQuiet ==
  ASSUME GapInv, sent' = sent, context'.started = context.started \/ context'.started,
         pc' = "write" => context'.started,
         Reading' => Reading /\ Done' = Done,
         context'.ending => pc' \in AtEnd \cup {"closed"},
         pc' \in {"endtime", "endkey"} => context'.ending
  PROVE  GapInv'
<1>1. NoGap'
  BY DEF GapInv, NoGap
<1>2. Reading' => GaplessTo(Done)'
  BY DEF GapInv, GaplessTo
<1> QED
  BY <1>1, <1>2 DEF GapInv

LEMMA GapKey ==
  ASSUME Shape, GetKey
  PROVE  context'.started = context.started /\ context'.ending = context.ending
<1>0. context \in ContextShape
  BY DEF Shape
<1>1. CASE NoKey
  BY <1>1 DEF NoKey
<1>2. CASE KeyStop
  BY <1>0, <1>2 DEF KeyStop, ContextShape
<1>3. CASE KeyOk
  BY <1>0, <1>3 DEF KeyOk, ContextShape
<1>4. CASE KeyUp
  BY <1>0, <1>4 DEF KeyUp, ContextShape
<1> QED
  BY <1>1, <1>2, <1>3, <1>4 DEF GetKey

\* Where the loop goes on is inside the loop.
LEMMA GapPlaces ==
  ASSUME NEW c
  PROVE  /\ CheckLow(c) \in {"rebuffer", "read"}
         /\ NextInLoop(c) \in {"top", "start", "rebuffer", "read"}
         /\ WaitForEnd(c) \in {"jump", "endtime"}
BY DEF CheckLow, NextInLoop, WaitForEnd

\* The end is reached or the loop is left: nothing is written from here on.
LEMMA GapEnds ==
  ASSUME GapInv, sent' = sent, context'.started = context.started,
         pc' \in AtEnd \cup {"closed"},
         pc' \in {"jump", "settime", "endtime", "endkey"} => context'.ending
  PROVE  GapInv'
<1>1. ~Reading' /\ pc' # "write"
  BY DEF Reading, AtEnd, InLoop
<1> QED
  BY <1>1, GapQuiet DEF GapInv

LEMMA GapLoop ==
  ASSUME Shape, GapInv,
         Setup \/ LoopKey \/ StopSeen \/ LoopTime \/ StartPlay \/ StopToRebuffer
         \/ StopToJump \/ EndPauseToJump \/ JumpOn \/ SetTime
  PROVE  GapInv'
<1>0. context \in ContextShape
  BY DEF Shape
<1>1. CASE GiveUp
  BY <1>1, GapEnds DEF GiveUp, Goto, AtEnd
<1>2. ASSUME pc \in {"setup", "top", "look", "start", "rebuffer"},
             pc' \in {"top", "look", "start", "rebuffer", "read"},
             UNCHANGED <<pos, sent>>, context'.started = context.started,
             context'.ending = context.ending
      PROVE  GapInv'
  <2>1. ~context.ending
    BY <1>2 DEF GapInv, AtEnd
  <2>2. Reading /\ Done' = Done
    BY <1>2, <2>1 DEF Reading, InLoop, Done
  <2> QED
    BY <1>2, <2>1, <2>2, GapQuiet
<1>3. ASSUME pc \in {"jump", "settime"}, pc' = "settime" \/ (pc' = "write" /\ ~context.ending),
             pc' = "write" => context'.started,
             UNCHANGED <<pos, sent>>, context'.started = context.started \/ context'.started,
             context'.ending = context.ending
      PROVE  GapInv'
  <2>1. Reading' => Reading
    BY <1>3 DEF Reading, InLoop
  <2>2. Done' = Done
    BY <1>3 DEF Done
  <2>3. context'.ending => pc' \in AtEnd
    BY <1>3 DEF AtEnd
  <2> QED
    BY <1>3, <2>1, <2>2, <2>3, GapQuiet
<1>4. CASE Setup
  <2>1. CASE GetKey /\ pc' = "closed" /\ sent' = sent
    BY <2>1, GapKey, GapEnds DEF AtEnd
  <2>2. CASE GetKey /\ pc' = "top" /\ UNCHANGED <<pos, sent>>
    BY <1>2, <1>4, <2>2, GapKey DEF Setup, At
  <2> QED
    BY <1>1, <1>4, <2>1, <2>2 DEF Setup, Goto
<1>5. CASE LoopKey
  BY <1>2, <1>5, GapKey DEF LoopKey, At, Goto
<1>6. CASE StopSeen
  BY <1>6, GapEnds DEF StopSeen, Goto, AtEnd
<1>7. CASE LoopTime
  <2>1. CASE context' = [context EXCEPT !.time = stc] /\ Goto(NextInLoop(context'))
             /\ UNCHANGED <<pos, sent>>
    <3>1. context'.started = context.started /\ context'.ending = context.ending
      BY <1>0, <2>1 DEF ContextShape
    <3>2. pc' \in {"top", "start", "rebuffer", "read"}
      BY <2>1, GapPlaces DEF Goto
    <3> QED
      BY <1>2, <1>7, <2>1, <3>1, <3>2 DEF LoopTime, At
  <2> QED
    BY <1>1, <1>7, <2>1 DEF LoopTime
<1>8. CASE StartPlay
  <2>1. CASE context' = [context EXCEPT !.playing = TRUE, !.play_started = TRUE]
             /\ Goto(IF At("start") THEN CheckLow(context') ELSE "drain")
             /\ UNCHANGED <<pos, sent>>
    <3>1. context'.started = context.started /\ context'.ending = context.ending
      BY <1>0, <2>1 DEF ContextShape
    <3>2. CASE pc = "start"
      <4>1. pc' \in {"rebuffer", "read"}
        BY <2>1, <3>2, GapPlaces DEF Goto, At
      <4> QED
        BY <1>2, <2>1, <3>1, <3>2, <4>1
    <3>3. CASE pc # "start"
      BY <2>1, <3>1, <3>3, GapEnds DEF Goto, At, AtEnd
    <3> QED
      BY <3>2, <3>3
  <2> QED
    BY <1>1, <1>8, <2>1 DEF StartPlay
<1>9. CASE StopToRebuffer
  <2>1. CASE context' = [context EXCEPT !.playing = FALSE] /\ Goto("read")
             /\ UNCHANGED <<pos, sent>>
    <3>1. context'.started = context.started /\ context'.ending = context.ending
      BY <1>0, <2>1 DEF ContextShape
    <3> QED
      BY <1>2, <1>9, <2>1, <3>1 DEF StopToRebuffer, At, Goto
  <2> QED
    BY <1>1, <1>9, <2>1 DEF StopToRebuffer
<1>10. CASE StopToJump \/ EndPauseToJump \/ JumpOn
  <2>1. ASSUME pc = "jump", pc' = "settime", UNCHANGED <<pos, sent>>,
               context'.started = context.started, context'.ending = context.ending
        PROVE  GapInv'
    <3>1. Reading' => Reading /\ Done' = Done
      BY <2>1 DEF Reading, InLoop, Done
    <3>2. pc' # "write" /\ pc' \in AtEnd
      BY <2>1 DEF AtEnd
    <3> QED
      BY <2>1, <3>1, <3>2, GapQuiet
  <2>2. CASE StopToJump
    <3>1. CASE context' = [context EXCEPT !.playing = FALSE] /\ Goto("settime")
               /\ UNCHANGED <<pos, sent>>
      <4>1. context'.started = context.started /\ context'.ending = context.ending
        BY <1>0, <3>1 DEF ContextShape
      <4> QED
        BY <2>1, <2>2, <3>1, <4>1 DEF StopToJump, Goto, At
    <3> QED
      BY <1>1, <2>2, <3>1 DEF StopToJump
  <2>3. CASE EndPauseToJump
    <3>1. context'.started = context.started /\ context'.ending = context.ending
      BY <1>0, <2>3 DEF EndPauseToJump, ContextShape
    <3> QED
      BY <2>1, <2>3, <3>1 DEF EndPauseToJump, Goto, At
  <2>4. CASE JumpOn
    BY <2>1, <2>4 DEF JumpOn, Goto, At
  <2> QED
    BY <1>10, <2>2, <2>3, <2>4
<1>11. CASE SetTime
  <2>1. context'.started = TRUE /\ context'.ending = context.ending
    BY <1>0, <1>11 DEF SetTime, ContextShape
  <2>2. pc = "settime" /\ UNCHANGED <<pos, sent>>
    BY <1>11 DEF SetTime, At
  <2>3. CASE ~context.ending
    BY <1>3, <1>11, <2>1, <2>2, <2>3 DEF SetTime, Goto
  <2>4. CASE context.ending
    <3>1. pc' = "endtime"
      BY <1>11, <2>4 DEF SetTime, Goto
    <3>2. ~Reading'
      BY <2>1, <2>4 DEF Reading
    <3>3. pc' \in AtEnd /\ context'.ending
      BY <2>1, <2>4, <3>1 DEF AtEnd
    <3> QED
      BY <2>1, <2>2, <3>1, <3>2, <3>3, GapQuiet
  <2> QED
    BY <2>3, <2>4
<1> QED
  BY <1>4, <1>5, <1>6, <1>7, <1>8, <1>9, <1>10, <1>11

\* check_jump and the write come after the packet, unless it is skipped before the
\* first frame is found.
LEMMA GapRead ==
  ASSUME Shape, GapInv, pc = "read", pos' = pos + 1, sent' = sent,
         context'.started = context.started, context'.ending = context.ending,
         \/ pc' = "jump"
         \/ pc' = "write" /\ context.started
         \/ pc' = "top" /\ (~context.started \/ File[pos + 1].av \notin Streams)
  PROVE  GapInv'
<1>1. ~context.ending /\ Reading
  BY DEF GapInv, AtEnd, Reading, InLoop
<1>2. Done = pos /\ GaplessTo(pos) /\ pos \in Nat /\ sent \subseteq 0..pos
  BY <1>1 DEF Done, GapInv, Shape
<1>3. NoGap'
  BY DEF GapInv, NoGap
<1>4. GaplessTo(Done)'
  <2>1. CASE pc' \in {"jump", "write"}
    <3>1. Done' = pos
      BY <1>2, <2>1 DEF Done
    <3> QED
      BY <1>2, <3>1 DEF GaplessTo
  <2>2. CASE pc' = "top" /\ ~context.started
    BY <2>2 DEF GapInv, GaplessTo
  <2>3. CASE pc' = "top" /\ File[pos + 1].av \notin Streams
    <3>1. Done' = pos + 1
      BY <2>3 DEF Done
    <3>2. ASSUME NEW i \in sent, NEW k \in i..pos + 1, File[k].av \in Streams
          PROVE  k \in sent
      <4>1. k # pos + 1
        BY <2>3, <3>2
      <4>2. i \in Nat /\ k \in i..pos
        BY <1>2, <4>1
      <4> QED
        BY <1>2, <3>2, <4>2 DEF GaplessTo
    <3> QED
      BY <3>1, <3>2 DEF GaplessTo
  <2> QED
    BY <2>1, <2>2, <2>3
<1> QED
  BY <1>1, <1>3, <1>4 DEF GapInv

\* The packet written is the next one after those written before.
LEMMA GapWrite ==
  ASSUME Shape, GapInv, pc = "write", pc' = "top", sent' = sent \cup {pos},
         UNCHANGED <<pos, context>>
  PROVE  GapInv'
<1>1. ~context.ending /\ context.started /\ Reading
  BY DEF GapInv, AtEnd, Reading, InLoop
<1>2. Done = pos - 1 /\ Done' = pos
  BY DEF Done
<1>3. GaplessTo(pos - 1) /\ pos \in Nat /\ sent \subseteq 0..pos
  BY <1>1, <1>2 DEF GapInv, Shape
<1>4. ASSUME NEW i \in sent', NEW k \in i..pos, File[k].av \in Streams
      PROVE  k \in sent'
  <2>1. CASE k = pos
    BY <2>1
  <2>2. CASE k # pos
    <3>1. i \in Nat /\ i \in sent /\ k \in i..pos - 1
      BY <1>3, <2>2
    <3> QED
      BY <1>3, <1>4, <3>1 DEF GaplessTo
  <2> QED
    BY <2>1, <2>2
<1>5. GaplessTo(Done)'
  BY <1>2, <1>4 DEF GaplessTo
<1>6. NoGap'
  <2> SUFFICES ASSUME NEW i \in sent', NEW j \in sent', NEW k \in i..j,
                      File[k].av \in Streams
               PROVE  k \in sent'
    BY DEF NoGap
  <2>1. k \in i..pos
    BY <1>3
  <2> QED
    BY <1>4, <2>1
<1> QED
  BY <1>1, <1>5, <1>6 DEF GapInv

LEMMA GapPacket ==
  ASSUME Shape, GapInv,
         ReadEnds \/ ReadOther \/ ReadVideo \/ ReadAudio
         \/ WritePacket \/ AudioStops \/ AudioKey
  PROVE  GapInv'
<1>0. context \in ContextShape
  BY DEF Shape
<1>1. CASE ReadEnds
  BY <1>1, GapEnds DEF ReadEnds, hardware, Goto, AtEnd
<1>2. CASE ReadOther
  <2>1. File[pos + 1].av \notin Streams
    BY <1>2 DEF ReadOther, Streams
  <2>2. pc = "read" /\ pc' = "top" /\ pos' = pos + 1 /\ sent' = sent
    BY <1>2 DEF ReadOther, At, Goto
  <2>3. context'.started = context.started /\ context'.ending = context.ending
    BY <1>2 DEF ReadOther
  <2>4. pc' = "top" /\ (~context.started \/ File[pos + 1].av \notin Streams)
    BY <2>1, <2>2
  <2> HIDE DEF Streams
  <2> QED
    BY <2>2, <2>3, <2>4, GapRead
<1>3. CASE ReadVideo \/ ReadAudio
  <2>1. pc = "read" /\ pos' = pos + 1 /\ sent' = sent
    BY <1>3 DEF ReadVideo, ReadAudio, At, hardware
  <2>2. context'.started = context.started /\ context'.ending = context.ending
    BY <1>0, <1>3 DEF ReadVideo, ReadAudio, ContextShape
  <2>3. context.started \in BOOLEAN
    BY <1>0 DEF ContextShape
  <2>4. \/ pc' = "jump"
        \/ pc' = "write" /\ context.started
        \/ pc' = "top" /\ ~context.started
    <3>1. CASE JumpOrWrite(context')
      BY <2>2, <2>3, <3>1 DEF JumpOrWrite, Goto
    <3>2. CASE Goto(IF context.started THEN "write" ELSE "top")
      BY <2>3, <3>2 DEF Goto
    <3> QED
      BY <1>3, <3>1, <3>2 DEF ReadVideo, ReadAudio
  <2> QED
    BY <2>1, <2>2, <2>4, GapRead
<1>4. CASE WritePacket
  <2>1. CASE GiveUp
    BY <2>1, GapEnds DEF GiveUp, Goto, AtEnd
  <2>2. CASE sent' = sent \cup {pos} /\ Goto("top")
             /\ UNCHANGED <<running, stc, context, pos, ret, faults>>
    BY <1>4, <2>2, GapWrite DEF WritePacket, At, Goto
  <2> QED
    BY <1>4, <2>1, <2>2 DEF WritePacket
<1>5. CASE AudioStops
  BY <1>5, GapEnds DEF AudioStops, hardware, Goto, AtEnd
<1>6. CASE AudioKey
  <2>1. context'.started = context.started /\ context'.ending = context.ending
    BY <1>6, GapKey DEF AudioKey
  <2>2. UNCHANGED <<pc, pos, sent>>
    BY <1>6 DEF AudioKey
  <2>3. Reading' => Reading /\ Done' = Done
    BY <2>1, <2>2 DEF Reading, Done
  <2> QED
    BY <2>1, <2>2, <2>3, GapQuiet DEF GapInv
<1> QED
  BY <1>1, <1>2, <1>3, <1>4, <1>5, <1>6

LEMMA GapEnd ==
  ASSUME Shape, GapInv,
         Trailer \/ Drain \/ EndTime \/ EndKey \/ StopClock \/ StopVideo \/ StopAudio
         \/ Close \/ Tick \/ Signal \/ \E av \in Streams : Decode(av)
  PROVE  GapInv'
<1>0. context \in ContextShape
  BY DEF Shape
<1>1. CASE GiveUp
  BY <1>1, GapEnds DEF GiveUp, Goto, AtEnd
<1>2. CASE Trailer
  BY <1>2, GapEnds DEF Trailer, hardware, Goto, AtEnd
<1>3. CASE Drain
  <2>1. context'.started = context.started /\ context'.ending /\ sent' = sent
    BY <1>0, <1>3 DEF Drain, ContextShape, hardware
  <2>2. pc' \in AtEnd
    BY <1>3, GapPlaces DEF Drain, Goto, AtEnd
  <2> QED
    BY <2>1, <2>2, GapEnds
<1>4. CASE EndTime
  <2>1. CASE context' = [context EXCEPT !.time = stc] /\ Goto("endkey")
             /\ UNCHANGED <<hardware, pos, ret, sent, faults>>
    <3>1. context'.started = context.started /\ context'.ending = context.ending
      BY <1>0, <2>1 DEF ContextShape
    <3>2. context.ending
      BY <1>4 DEF EndTime, At, GapInv
    <3> QED
      BY <2>1, <3>1, <3>2, GapEnds DEF Goto, AtEnd
  <2> QED
    BY <1>1, <1>4, <2>1 DEF EndTime
<1>5. CASE EndKey
  <2>1. context'.started = context.started /\ context'.ending = context.ending
    BY <1>5, GapKey DEF EndKey
  <2>2. context.ending
    BY <1>5 DEF EndKey, At, GapInv
  <2>3. pc' \in AtEnd /\ sent' = sent
    BY <1>5, GapPlaces DEF EndKey, Goto, AtEnd
  <2> QED
    BY <2>1, <2>2, <2>3, GapEnds
<1>6. CASE StopClock \/ StopVideo \/ Close
  <2>1. CASE pc' \in {"stopvideo", "stopaudio", "closed"} /\ UNCHANGED <<context, sent>>
    BY <2>1, GapEnds DEF AtEnd
  <2> QED
    BY <1>1, <1>6, <2>1 DEF StopClock, StopVideo, Close, Goto
<1>7. CASE StopAudio
  <2>1. CASE context' = [context EXCEPT !.playing = FALSE] /\ Goto("close")
             /\ UNCHANGED <<running, stc, pos, ret, sent, faults>>
    <3>1. context'.started = context.started /\ context'.ending = context.ending
      BY <1>0, <2>1 DEF ContextShape
    <3> QED
      BY <2>1, <3>1, GapEnds DEF Goto, AtEnd
  <2> QED
    BY <1>1, <1>7, <2>1 DEF StopAudio
<1>8. CASE Tick \/ Signal \/ \E av \in Streams : Decode(av)
  <2>1. UNCHANGED <<pc, pos, sent>>
    BY <1>8 DEF Tick, Signal, Decode
  <2>2. context'.started = context.started /\ context'.ending = context.ending
    BY <1>0, <1>8 DEF Tick, Signal, Decode, ContextShape
  <2>3. Reading' => Reading /\ Done' = Done
    BY <2>1, <2>2 DEF Reading, Done
  <2> QED
    BY <2>1, <2>2, <2>3, GapQuiet DEF GapInv
<1> QED
  BY <1>2, <1>3, <1>4, <1>5, <1>6, <1>7, <1>8

\* Once the first frame is found nothing is skipped: no jump, no rebuffering and no way
\* of starting or ending makes write_video_packet and write_audio_packet miss a packet
\* between two that they have written.  Until a packet is written everything up to the
\* first frame may be skipped; from then on started holds and stays, so that the only
\* packet not written yet is the one in hand, and after the loop none is written.
THEOREM NoGapEver == Spec => []NoGap
<1>1. Init => Shape /\ GapInv
  BY ShapeInit, GapInit
<1>2. Shape /\ GapInv /\ [Next]_vars => (Shape /\ GapInv)'
  <2> SUFFICES ASSUME Shape, GapInv, [Next]_vars PROVE GapInv'
    BY ShapeNext
  <2>1. CASE UNCHANGED vars
    BY <2>1 DEF vars, GapInv, NoGap, Reading, GaplessTo, Done
  <2>2. CASE Next
    BY <2>2, GapLoop, GapPacket, GapEnd DEF Next, Player
  <2> QED
    BY <2>1, <2>2
<1>3. GapInv => NoGap
  BY DEF GapInv
<1> QED
  BY <1>1, <1>2, <1>3, PTL DEF Spec

-----------------------------------------------------------------------------
(* In a pause the loop reads on only while little is buffered. *)

Filling == {"start", "rebuffer", "read"}

\* The time is that of this turn of the loop, which went on though it is a pause.
TurnBounded ==
  pc \in Filling =>
    context.time <= stc /\ ~(context.paused /\ BufferedOver(context, MaxBuffer))

PauseInv ==
  /\ stc >= 0 /\ context.time >= 0 /\ context.startplaypts >= 0
  /\ TurnBounded

\* Keys leave the times read so far alone and never take a stop back.
LEMMA KeyTimes ==
  ASSUME Shape, GetKey
  PROVE  /\ context'.time = context.time
         /\ context'.last_time = context.last_time
         /\ context'.ending = context.ending
         /\ \/ context'.startplaypts = context.startplaypts
            \/ context'.startplaypts = context.time + JumpTime
         /\ context.stopped => context'.stopped
<1>0. context \in ContextShape
  BY DEF Shape
<1>1. CASE NoKey
  BY <1>1 DEF NoKey
<1>2. CASE KeyStop
  BY <1>0, <1>2 DEF KeyStop, ContextShape
<1>3. CASE KeyOk
  BY <1>0, <1>3 DEF KeyOk, ContextShape
<1>4. CASE KeyUp
  <2>1. context' = [context EXCEPT !.startplaypts = context.time + JumpTime, !.jump = TRUE]
    BY <1>4 DEF KeyUp
  <2> QED
    BY <1>0, <2>1 DEF ContextShape
<1> QED
  BY <1>1, <1>2, <1>3, <1>4 DEF GetKey

LEMMA PauseInit == Init => Shape /\ PauseInv
<1> SUFFICES ASSUME Init PROVE Shape /\ PauseInv
  OBVIOUS
<1>1. pc = "setup" /\ stc = 0 /\ context.time = 0
  BY DEF Init
<1>2. context.startplaypts \in Nat
  BY FileShape DEF Init
<1> QED
  BY <1>1, <1>2, ShapeInit DEF PauseInv, TurnBounded, Filling

\* Steps that leave the turn of the loop, or happen outside of it.
LEMMA PauseOut ==
  ASSUME stc' >= 0, context'.time >= 0, context'.startplaypts >= 0, pc' \notin Filling
  PROVE  PauseInv'
BY DEF PauseInv, TurnBounded

\* Steps within a turn: the clock goes on, and what is compared stays.
LEMMA PauseStays ==
  ASSUME Shape, PauseInv, stc' \in Int, stc' >= stc,
         context'.time = context.time, context'.last_time = context.last_time,
         context'.paused = context.paused, context'.startplaypts = context.startplaypts,
         pc' \in Filling => pc \in Filling
  PROVE  PauseInv'
<1>1. stc \in Int /\ context.time \in Int
  BY DEF Shape, ContextShape
<1> QED
  BY <1>1 DEF PauseInv, TurnBounded, BufferedOver

LEMMA PauseLoop ==
  ASSUME Shape, PauseInv,
         Setup \/ LoopKey \/ StopSeen \/ LoopTime \/ StartPlay \/ StopToRebuffer
         \/ StopToJump \/ EndPauseToJump \/ JumpOn \/ SetTime
  PROVE  PauseInv'
<1>0. context \in ContextShape /\ stc \in Int /\ JumpTime \in Nat
  BY FileShape DEF Shape
<1>1. stc >= 0 /\ context.time >= 0 /\ context.startplaypts >= 0
  BY DEF PauseInv
<1>2. CASE GiveUp
  BY <1>1, <1>2, PauseOut DEF GiveUp, Goto, Filling
<1>3. CASE Setup \/ LoopKey
  <2>1. CASE GetKey /\ UNCHANGED stc /\ pc' \in {"closed", "top", "look"}
    <3>1. context.time \in Int /\ context'.time >= 0 /\ context'.startplaypts >= 0
      BY <1>0, <1>1, <2>1, KeyTimes DEF ContextShape
    <3> QED
      BY <1>1, <2>1, <3>1, PauseOut DEF Filling
  <2> QED
    BY <1>2, <1>3, <2>1 DEF Setup, LoopKey, Goto
<1>4. CASE StopSeen \/ JumpOn
  BY <1>1, <1>4, PauseOut DEF StopSeen, JumpOn, hardware, Goto, Filling
<1>5. CASE LoopTime
  <2>1. CASE context' = [context EXCEPT !.time = stc] /\ Goto(NextInLoop(context'))
             /\ UNCHANGED stc
    <3>1. context'.time = stc /\ context'.startplaypts = context.startplaypts
      BY <1>0, <2>1 DEF ContextShape
    <3>2. pc' \in Filling => ~(context'.paused /\ BufferedOver(context', MaxBuffer))
      BY <2>1 DEF Goto, NextInLoop, Filling
    <3> QED
      BY <1>0, <1>1, <2>1, <3>1, <3>2 DEF PauseInv, TurnBounded
  <2> QED
    BY <1>2, <1>5, <2>1 DEF LoopTime, hardware
<1>6. CASE StartPlay
  <2>1. CASE /\ context' = [context EXCEPT !.playing = TRUE, !.play_started = TRUE]
             /\ Goto(IF At("start") THEN CheckLow(context') ELSE "drain")
             /\ UNCHANGED stc
    <3>1. /\ context'.time = context.time /\ context'.last_time = context.last_time
          /\ context'.paused = context.paused
          /\ context'.startplaypts = context.startplaypts
      BY <1>0, <2>1 DEF ContextShape
    <3>2. pc' \in Filling => pc \in Filling
      BY <2>1 DEF Goto, At, Filling
    <3> QED
      BY <1>0, <2>1, <3>1, <3>2, PauseStays
  <2> QED
    BY <1>2, <1>6, <2>1 DEF StartPlay
<1>7. CASE StopToRebuffer
  <2>1. CASE /\ context' = [context EXCEPT !.playing = FALSE]
             /\ At("rebuffer") /\ UNCHANGED stc
    <3>1. /\ context'.time = context.time /\ context'.last_time = context.last_time
          /\ context'.paused = context.paused
          /\ context'.startplaypts = context.startplaypts
      BY <1>0, <2>1 DEF ContextShape
    <3> QED
      BY <1>0, <2>1, <3>1, PauseStays DEF At, Filling
  <2> QED
    BY <1>2, <1>7, <2>1 DEF StopToRebuffer
<1>8. CASE StopToJump \/ EndPauseToJump
  <2>1. CASE /\ \/ context' = [context EXCEPT !.playing = FALSE]
                \/ context' = [context EXCEPT !.paused = FALSE, !.playing = FALSE]
             /\ Goto("settime") /\ UNCHANGED stc
    <3>1. context'.time = context.time /\ context'.startplaypts = context.startplaypts
      BY <1>0, <2>1 DEF ContextShape
    <3> QED
      BY <1>1, <2>1, <3>1, PauseOut DEF Goto, Filling
  <2> QED
    BY <1>2, <1>8, <2>1 DEF StopToJump, EndPauseToJump, hardware
<1>9. CASE SetTime
  <2>1. context'.time = context.time /\ context'.startplaypts = context.startplaypts
    BY <1>0, <1>9 DEF SetTime, ContextShape
  <2>2. stc' = context.startplaypts \/ stc' = stc
    BY <1>9 DEF SetTime
  <2>3. pc' \notin Filling
    BY <1>9 DEF SetTime, Goto, Filling
  <2> QED
    BY <1>1, <2>1, <2>2, <2>3, PauseOut
<1> QED
  BY <1>3, <1>4, <1>5, <1>6, <1>7, <1>8, <1>9

LEMMA PausePacket ==
  ASSUME Shape, PauseInv,
         ReadEnds \/ ReadOther \/ ReadVideo \/ ReadAudio
         \/ WritePacket \/ AudioStops \/ AudioKey
  PROVE  PauseInv'
<1>0. context \in ContextShape /\ stc \in Int /\ JumpTime \in Nat
  BY FileShape DEF Shape
<1>1. stc >= 0 /\ context.time >= 0 /\ context.startplaypts >= 0
  BY DEF PauseInv
<1>2. CASE ReadEnds \/ ReadOther \/ AudioStops
  BY <1>1, <1>2, PauseOut DEF ReadEnds, ReadOther, AudioStops, hardware, Goto, Filling
<1>3. CASE ReadVideo \/ ReadAudio
  <2>1. context'.time = context.time /\ context'.startplaypts = context.startplaypts
    BY <1>0, <1>3 DEF ReadVideo, ReadAudio, ContextShape
  <2>2. pc' \notin Filling /\ stc' = stc
    BY <1>3 DEF ReadVideo, ReadAudio, JumpOrWrite, hardware, Goto, Filling
  <2> QED
    BY <1>1, <2>1, <2>2, PauseOut
<1>4. CASE WritePacket
  BY <1>1, <1>4, PauseOut DEF WritePacket, GiveUp, Goto, Filling
<1>5. CASE AudioKey
  <2>1. context.time \in Int /\ context'.time >= 0 /\ context'.startplaypts >= 0
    BY <1>0, <1>1, <1>5, KeyTimes DEF AudioKey, ContextShape
  <2>2. pc' = "write" /\ stc' = stc
    BY <1>5 DEF AudioKey, AudioWaits, At
  <2> QED
    BY <1>1, <2>1, <2>2, PauseOut DEF Filling
<1> QED
  BY <1>2, <1>3, <1>4, <1>5

LEMMA PauseEnd ==
  ASSUME Shape, PauseInv,
         Trailer \/ Drain \/ EndTime \/ EndKey \/ StopClock \/ StopVideo \/ StopAudio
         \/ Close \/ Tick \/ Signal \/ \E av \in Streams : Decode(av)
  PROVE  PauseInv'
<1>0. context \in ContextShape /\ stc \in Int /\ JumpTime \in Nat
  BY FileShape DEF Shape
<1>1. stc >= 0 /\ context.time >= 0 /\ context.startplaypts >= 0
  BY DEF PauseInv
<1>2. CASE GiveUp
  BY <1>1, <1>2, PauseOut DEF GiveUp, Goto, Filling
<1>3. CASE Trailer \/ StopClock \/ StopVideo \/ Close
  <2>1. CASE UNCHANGED <<stc, context>> /\ pc' \in AtEnd \cup {"closed"}
    BY <1>1, <2>1, PauseOut DEF AtEnd, Filling
  <2> QED
    BY <1>2, <1>3, <2>1 DEF Trailer, StopClock, StopVideo, Close, hardware, Goto, AtEnd
<1>4. CASE Drain \/ EndTime \/ StopAudio
  <2>1. CASE /\ \/ context' = [context EXCEPT !.ending = TRUE, !.cur_time = context.last_time]
                \/ context' = [context EXCEPT !.time = stc]
                \/ context' = [context EXCEPT !.playing = FALSE]
             /\ UNCHANGED stc /\ pc' \in AtEnd
    <3>1. context'.time >= 0 /\ context'.startplaypts >= 0
      BY <1>0, <1>1, <2>1 DEF ContextShape
    <3> QED
      BY <1>1, <2>1, <3>1, PauseOut DEF AtEnd, Filling
  <2>2. CASE Drain
    BY <2>1, <2>2, GapPlaces DEF Drain, hardware, Goto, AtEnd
  <2> QED
    BY <1>2, <1>4, <2>1, <2>2 DEF EndTime, StopAudio, hardware, Goto, AtEnd
<1>5. CASE EndKey
  <2>1. context.time \in Int /\ context'.time >= 0 /\ context'.startplaypts >= 0
    BY <1>0, <1>1, <1>5, KeyTimes DEF EndKey, ContextShape
  <2>2. pc' \in AtEnd /\ stc' = stc
    BY <1>5, GapPlaces DEF EndKey, Goto, AtEnd
  <2> QED
    BY <1>1, <2>1, <2>2, PauseOut DEF AtEnd, Filling
<1>6. CASE Tick \/ Signal \/ \E av \in Streams : Decode(av)
  <2>1. stc' \in Int /\ stc' >= stc /\ pc' = pc
    BY <1>0, <1>6 DEF Tick, Signal, Decode, hardware
  <2>2. /\ context'.time = context.time /\ context'.last_time = context.last_time
        /\ context'.paused = context.paused
        /\ context'.startplaypts = context.startplaypts
    BY <1>0, <1>6 DEF Tick, Signal, Decode, ContextShape
  <2> QED
    BY <2>1, <2>2, PauseStays
<1> QED
  BY <1>3, <1>4, <1>5, <1>6

LEMMA PauseNext == Shape /\ PauseInv /\ [Next]_vars => PauseInv'
<1> SUFFICES ASSUME Shape, PauseInv, [Next]_vars PROVE PauseInv'
  OBVIOUS
<1>1. CASE UNCHANGED vars
  BY <1>1 DEF vars, PauseInv, TurnBounded, BufferedOver
<1>2. CASE Next
  BY <1>2, PauseLoop, PausePacket, PauseEnd DEF Next, Player
<1> QED
  BY <1>1, <1>2

\* Only a video packet that is read moves last_time.
LEMMA OnlyReadsMove ==
  ASSUME Shape, [Next]_vars, ~ReadVideo
  PROVE  context'.last_time = context.last_time
<1>0. context \in ContextShape
  BY DEF Shape
<1>1. CASE UNCHANGED vars
  BY <1>1 DEF vars
<1>2. CASE GiveUp
  BY <1>2 DEF GiveUp
<1>3. CASE GetKey
  BY <1>3, KeyTimes
<1>4. CASE Setup \/ LoopKey \/ StopSeen \/ LoopTime \/ StartPlay \/ StopToRebuffer
  BY <1>0, <1>2, <1>3, <1>4
     DEF Setup, LoopKey, StopSeen, LoopTime, StartPlay, StopToRebuffer, ContextShape
<1>5. CASE StopToJump \/ EndPauseToJump \/ JumpOn \/ SetTime
  BY <1>0, <1>2, <1>5 DEF StopToJump, EndPauseToJump, JumpOn, SetTime, ContextShape
<1>6. CASE ReadEnds \/ ReadOther \/ ReadAudio \/ WritePacket \/ AudioStops \/ AudioKey
  BY <1>0, <1>2, <1>3, <1>6
     DEF ReadEnds, ReadOther, ReadAudio, WritePacket, AudioStops, AudioKey, ContextShape
<1>7. CASE Trailer \/ Drain \/ EndTime \/ EndKey
  BY <1>0, <1>2, <1>3, <1>7 DEF Trailer, Drain, EndTime, EndKey, ContextShape
<1>8. CASE StopClock \/ StopVideo \/ StopAudio \/ Close
  BY <1>0, <1>2, <1>8 DEF StopClock, StopVideo, StopAudio, Close, ContextShape
<1>9. CASE Tick \/ Signal \/ \E av \in Streams : Decode(av)
  BY <1>0, <1>9 DEF Tick, Signal, Decode, ContextShape
<1> QED
  BY <1>1, <1>4, <1>5, <1>6, <1>7, <1>8, <1>9 DEF Next, Player

\* In a pause play_mp4_video reads a video frame only as long as what it has read ends
\* within max_buffer_time of the clock.  Keys are looked at before the clock is read in
\* every turn of the loop, so a pause that begins is seen by the very turn that would
\* read on, and from the reading of the clock to the reading of the packet the clock
\* can only advance.
THEOREM PauseAlwaysBounds == Spec => PauseBoundsBuffer
<1>1. Init => Shape /\ PauseInv
  BY PauseInit
<1>2. Shape /\ PauseInv /\ [Next]_vars => (Shape /\ PauseInv)'
  BY ShapeNext, PauseNext
<1>3. Shape /\ PauseInv /\ [Next]_vars
      => [context.paused /\ context'.last_time # context.last_time =>
            context.last_time <= stc + MaxBuffer]_vars
  <2> SUFFICES ASSUME Shape, PauseInv, [Next]_vars, context.paused,
                      context'.last_time # context.last_time
               PROVE  context.last_time <= stc + MaxBuffer
    OBVIOUS
  <2>1. ReadVideo
    BY OnlyReadsMove
  <2>2. context.time <= stc /\ ~BufferedOver(context, MaxBuffer)
    BY <2>1 DEF PauseInv, TurnBounded, Filling, ReadVideo, At
  <2>3. stc \in Int /\ stc >= 0 /\ context.time \in Int /\ context.last_time \in Int
    BY DEF Shape, ContextShape, PauseInv
  <2>4. MaxBuffer \in Nat
    BY Mp4Assumption
  <2> QED
    BY <2>2, <2>3, <2>4 DEF BufferedOver
<1> QED
  BY <1>1, <1>2, <1>3, PTL DEF Spec, PauseBoundsBuffer

-----------------------------------------------------------------------------
(* The wait for the end outlasts every frame written. *)

\* A frame is read before one of an earlier time only if it comes up no later than that
\* one ends: the end of the last packet read, which the player waits for, is then not
\* before any frame sent comes up.
ReorderedByOne ==
  \A i, j \in Of("video") : i <= j => File[i].pts <= File[j].pts + FrameTime

\* last_time is that of the last video packet read, if there is one.
LastTimeKnown ==
  \/ context.last_time = -1 /\ \A i \in Of("video") : pos < i
  \/ \E i \in Of("video") :
       /\ i <= pos /\ context.last_time = File[i].pts + FrameTime
       /\ \A j \in Of("video") : j <= pos => j <= i

GaveUp == ret \/ context.stopped

Leaving == {"trailer", "drain", "endtime", "endkey", "stopclock", "stopvideo"}

\* A loop that is left, not given up, has read the file to its end.
ReadToEnd == pc \in Leaving \/ context.ending => GaveUp \/ pos = Len(File)

\* The time is not ahead of the clock, and it has passed last_time.
Waited ==
  /\ pc = "endkey" => context.time <= stc
  /\ pc \in {"stopclock", "stopvideo"} =>
       \/ GaveUp
       \/ context.last_time <= 0
       \/ context.last_time < context.time /\ context.time <= stc

EndInv == LastTimeKnown /\ ReadToEnd /\ Waited

LEMMA EndInit == Init => EndInv
<1> SUFFICES ASSUME Init PROVE EndInv
  OBVIOUS
<1>1. /\ pc = "setup" /\ pos = 0
      /\ context.last_time = -1 /\ context.ending = FALSE
  BY DEF Init
<1>2. \A i \in Of("video") : pos < i
  BY <1>1, FileShape DEF Of, Positions
<1> QED
  BY <1>1, <1>2 DEF EndInv, LastTimeKnown, ReadToEnd, Waited, Leaving

\* Steps that read nothing and neither begin the end nor the wait.
LEMMA EndQuiet ==
  ASSUME EndInv, context'.last_time = context.last_time, pos' = pos,
         GaveUp => GaveUp',
         pc' \in Leaving => pc \in Leaving \/ context.ending \/ GaveUp',
         context'.ending => context.ending \/ pc \in Leaving,
         Waited'
  PROVE  EndInv'
<1>1. LastTimeKnown'
  BY DEF EndInv, LastTimeKnown, Of, Positions
<1>2. ReadToEnd'
  BY DEF EndInv, ReadToEnd
<1> QED
  BY <1>1, <1>2 DEF EndInv

LEMMA EndGiveUp == ASSUME EndInv, GiveUp PROVE EndInv'
<1>1. UNCHANGED <<context, pos, ret>> /\ pc' = "closed"
  BY DEF GiveUp, Goto
<1> QED
  BY <1>1, EndQuiet DEF Waited, Leaving, GaveUp

LEMMA EndKeyPart ==
  ASSUME Shape, EndInv, GetKey, UNCHANGED <<stc, pos, ret>>
  PROVE  /\ context'.time = context.time
         /\ context'.last_time = context.last_time
         /\ context'.ending = context.ending
         /\ GaveUp => GaveUp'
BY KeyTimes DEF GaveUp

LEMMA EndLoop ==
  ASSUME Shape, EndInv,
         Setup \/ LoopKey \/ StopSeen \/ LoopTime \/ StartPlay \/ StopToRebuffer
         \/ StopToJump \/ EndPauseToJump \/ JumpOn \/ SetTime
  PROVE  EndInv'
<1>0. context \in ContextShape
  BY DEF Shape
<1>1. CASE GiveUp
  BY <1>1, EndGiveUp
\* Steps within the loop, or those that say themselves where they lead.
<1>2. ASSUME UNCHANGED <<pos, ret>>, context'.last_time = context.last_time,
             context'.ending = context.ending, context.stopped => context'.stopped,
             pc' \in Leaving => pc \in Leaving \/ context.ending \/ GaveUp',
             pc' \notin {"endkey", "stopclock", "stopvideo"}
      PROVE  EndInv'
  <2>1. Waited'
    BY <1>2 DEF Waited
  <2>2. GaveUp => GaveUp'
    BY <1>2 DEF GaveUp
  <2> QED
    BY <1>2, <2>1, <2>2, EndQuiet
<1>3. CASE Setup \/ LoopKey
  <2>1. CASE GetKey /\ UNCHANGED <<stc, pos, ret>> /\ pc' \in {"closed", "top", "look"}
    BY <1>2, <2>1, KeyTimes DEF Leaving
  <2> QED
    BY <1>1, <1>3, <2>1 DEF Setup, LoopKey, Goto
<1>4. CASE StopSeen
  BY <1>2, <1>4 DEF StopSeen, hardware, Goto, GaveUp, At
<1>5. CASE LoopTime
  <2>1. CASE context' = [context EXCEPT !.time = stc] /\ Goto(NextInLoop(context'))
             /\ UNCHANGED <<pos, ret>>
    <3>1. /\ context'.last_time = context.last_time /\ context'.ending = context.ending
          /\ context'.stopped = context.stopped
      BY <1>0, <2>1 DEF ContextShape
    <3>2. pc' \notin Leaving
      BY <2>1, GapPlaces DEF Goto, Leaving
    <3> QED
      BY <1>2, <2>1, <3>1, <3>2 DEF Leaving
  <2> QED
    BY <1>1, <1>5, <2>1 DEF LoopTime
<1>6. CASE StartPlay
  <2>1. CASE /\ context' = [context EXCEPT !.playing = TRUE, !.play_started = TRUE]
             /\ Goto(IF At("start") THEN CheckLow(context') ELSE "drain")
             /\ UNCHANGED <<pos, ret>>
    <3>1. /\ context'.last_time = context.last_time /\ context'.ending = context.ending
          /\ context'.stopped = context.stopped
      BY <1>0, <2>1 DEF ContextShape
    <3>2. pc' \in {"rebuffer", "read"} \/ (pc' = "drain" /\ pc = "trailer")
      BY <1>6, <2>1, GapPlaces DEF StartPlay, Goto, At
    <3> QED
      BY <1>2, <2>1, <3>1, <3>2 DEF Leaving
  <2> QED
    BY <1>1, <1>6, <2>1 DEF StartPlay
<1>7. CASE StopToRebuffer \/ StopToJump \/ EndPauseToJump
  <2>1. CASE /\ \/ context' = [context EXCEPT !.playing = FALSE]
                \/ context' = [context EXCEPT !.paused = FALSE, !.playing = FALSE]
             /\ pc' \in {"read", "settime"} /\ UNCHANGED <<pos, ret>>
    <3>1. /\ context'.last_time = context.last_time /\ context'.ending = context.ending
          /\ context'.stopped = context.stopped
      BY <1>0, <2>1 DEF ContextShape
    <3> QED
      BY <1>2, <2>1, <3>1 DEF Leaving
  <2> QED
    BY <1>1, <1>7, <2>1 DEF StopToRebuffer, StopToJump, EndPauseToJump, Goto
<1>8. CASE JumpOn
  BY <1>2, <1>8 DEF JumpOn, Goto, Leaving
<1>9. CASE SetTime
  <2>1. /\ context'.last_time = context.last_time /\ context'.ending = context.ending
        /\ context'.stopped = context.stopped
    BY <1>0, <1>9 DEF SetTime, ContextShape
  <2>2. pc' = "write" \/ (pc' = "endtime" /\ context.ending)
    BY <1>9 DEF SetTime, Goto
  <2>3. UNCHANGED <<pos, ret>>
    BY <1>9 DEF SetTime
  <2> QED
    BY <1>2, <2>1, <2>2, <2>3 DEF Leaving
<1> QED
  BY <1>3, <1>4, <1>5, <1>6, <1>7, <1>8, <1>9

\* A packet is read: it is the last one, and no other video packet comes with it.
LEMMA EndRead ==
  ASSUME Shape, EndInv, pos < Len(File), pos' = pos + 1, ret' = ret,
         context'.stopped = context.stopped, context'.ending = context.ending,
         pc' \in {"top", "jump", "write"},
         IF File[pos + 1].av = "video" THEN context'.last_time = File[pos + 1].pts + FrameTime
         ELSE context'.last_time = context.last_time
  PROVE  EndInv'
<1>0. pos \in Nat /\ Len(File) \in Nat
  BY FileShape DEF Shape
<1>1. \A i \in Of("video") : i \in Nat /\ i <= Len(File) /\ File[i].av = "video"
  BY <1>0 DEF Of, Positions
<1>2. CASE File[pos + 1].av = "video"
  <2>1. pos + 1 \in Of("video")
    BY <1>0, <1>2 DEF Of, Positions
  <2>2. \A j \in Of("video") : j <= pos' => j <= pos + 1
    OBVIOUS
  <2>3. pos + 1 <= pos'
    BY <1>0
  <2>4. context'.last_time = File[pos + 1].pts + FrameTime
    BY <1>2
  <2>5. LastTimeKnown'
    <3> DEFINE Last(v, i) == /\ i <= pos' /\ v = File[i].pts + FrameTime
                             /\ \A j \in Of("video") : j <= pos' => j <= i
    <3>1. Last(context'.last_time, pos + 1)
      BY <2>2, <2>3, <2>4
    <3>2. \E i \in Of("video") : Last(context'.last_time, i)
      BY <2>1, <3>1
    <3> QED
      BY <3>2 DEF LastTimeKnown, Of, Positions
  <2> QED
    BY <1>0, <2>5 DEF EndInv, ReadToEnd, Waited, Leaving, GaveUp
<1>3. CASE File[pos + 1].av # "video"
  <2>1. \A j \in Of("video") : j <= pos + 1 => j <= pos
    BY <1>0, <1>1, <1>3
  <2>2. context'.last_time = context.last_time
    BY <1>3
  <2>3. ASSUME context.last_time = -1 /\ \A i \in Of("video") : pos < i
        PROVE  LastTimeKnown'
    <3>1. \A i \in Of("video") : pos' < i
      BY <1>0, <1>1, <2>1, <2>3
    <3> QED
      BY <2>2, <2>3, <3>1 DEF LastTimeKnown, Of, Positions
  <2>4. ASSUME \E i \in Of("video") :
                 /\ i <= pos /\ context.last_time = File[i].pts + FrameTime
                 /\ \A j \in Of("video") : j <= pos => j <= i
        PROVE  LastTimeKnown'
    <3>1. PICK i \in Of("video") :
            /\ i <= pos /\ context.last_time = File[i].pts + FrameTime
            /\ \A j \in Of("video") : j <= pos => j <= i
      BY <2>4
    <3>2. i <= pos' /\ \A j \in Of("video") : j <= pos' => j <= i
      BY <1>0, <1>1, <2>1, <3>1
    <3> QED
      BY <2>2, <3>1, <3>2 DEF LastTimeKnown, Of, Positions
  <2>5. LastTimeKnown'
    BY <2>3, <2>4 DEF EndInv, LastTimeKnown
  <2> QED
    BY <1>0, <2>5 DEF EndInv, ReadToEnd, Waited, Leaving, GaveUp
<1> QED
  BY <1>2, <1>3

LEMMA EndPacket ==
  ASSUME Shape, EndInv,
         ReadEnds \/ ReadOther \/ ReadVideo \/ ReadAudio
         \/ WritePacket \/ AudioStops \/ AudioKey
  PROVE  EndInv'
<1>0. context \in ContextShape
  BY DEF Shape
<1>1. CASE ReadEnds
  <2>1. UNCHANGED <<context, pos>> /\ pc' = "trailer"
    BY <1>1 DEF ReadEnds, hardware, Goto
  <2>2. (pos = Len(File) /\ ret' = ret) \/ ret'
    BY <1>1 DEF ReadEnds
  <2> QED
    BY <2>1, <2>2 DEF EndInv, LastTimeKnown, Of, Positions, ReadToEnd, Waited, GaveUp
<1>2. CASE ReadOther
  <2>1. /\ pos < Len(File) /\ pos' = pos + 1 /\ UNCHANGED <<ret, context>>
        /\ pc' = "top" /\ File[pos + 1].av # "video"
    BY <1>2 DEF ReadOther, Goto
  <2> QED
    BY <2>1, EndRead
<1>3. CASE ReadVideo
  <2> DEFINE pts == File[pos + 1].pts
  <2>1. /\ pos < Len(File) /\ pos' = pos + 1 /\ ret' = ret
        /\ File[pos + 1].av = "video"
    BY <1>3 DEF ReadVideo
  <2>2. /\ context'.stopped = context.stopped /\ context'.ending = context.ending
        /\ context'.last_time = pts + FrameTime
    BY <1>0, <1>3 DEF ReadVideo, ContextShape
  <2>3. pc' \in {"top", "jump", "write"}
    BY <1>3 DEF ReadVideo, JumpOrWrite, Goto
  <2> QED
    BY <2>1, <2>2, <2>3, EndRead
<1>4. CASE ReadAudio
  <2>1. /\ pos < Len(File) /\ pos' = pos + 1 /\ ret' = ret
        /\ File[pos + 1].av # "video"
    BY <1>4 DEF ReadAudio
  <2>2. /\ context'.stopped = context.stopped /\ context'.ending = context.ending
        /\ context'.last_time = context.last_time
    BY <1>0, <1>4 DEF ReadAudio, ContextShape
  <2>3. pc' \in {"top", "jump", "write"}
    BY <1>4 DEF ReadAudio, JumpOrWrite, Goto
  <2> QED
    BY <2>1, <2>2, <2>3, EndRead
<1>5. CASE WritePacket
  <2>1. CASE UNCHANGED <<context, pos, ret>> /\ pc' = "top"
    BY <2>1, EndQuiet DEF Waited, Leaving, GaveUp
  <2> QED
    BY <1>5, <2>1, EndGiveUp DEF WritePacket, Goto
<1>6. CASE AudioStops
  <2>1. UNCHANGED <<context, pos>> /\ pc' = "trailer" /\ ret'
    BY <1>6 DEF AudioStops, hardware, Goto
  <2> QED
    BY <2>1, EndQuiet DEF Waited, GaveUp
<1>7. CASE AudioKey
  <2>1. GetKey /\ UNCHANGED <<stc, pos, ret>> /\ pc' = "write"
    BY <1>7 DEF AudioKey, AudioWaits, At
  <2> QED
    BY <2>1, EndKeyPart, EndQuiet DEF Waited, Leaving
<1> QED
  BY <1>1, <1>2, <1>3, <1>4, <1>5, <1>6, <1>7

LEMMA EndEnd ==
  ASSUME Shape, EndInv,
         Trailer \/ Drain \/ EndTime \/ EndKey \/ StopClock \/ StopVideo \/ StopAudio
         \/ Close \/ Tick \/ Signal \/ \E av \in Streams : Decode(av)
  PROVE  EndInv'
<1>0. context \in ContextShape /\ stc \in Int
  BY DEF Shape
<1>1. CASE Trailer
  BY <1>1, EndQuiet DEF Trailer, hardware, Goto, At, Leaving, Waited, GaveUp
<1>2. CASE Drain
  <2>1. /\ context'.last_time = context.last_time
        /\ context'.stopped = context.stopped /\ UNCHANGED <<pos, ret>>
    BY <1>0, <1>2 DEF Drain, ContextShape
  <2>2. pc = "drain" /\ pc' \notin {"endkey", "stopvideo"}
    BY <1>2, GapPlaces DEF Drain, At, Goto
  <2>3. pc' = "stopclock" => GaveUp
    BY <1>2, GapPlaces DEF Drain, Goto, GaveUp
  <2> QED
    BY <2>1, <2>2, <2>3, EndQuiet DEF Leaving, Waited, GaveUp
<1>3. CASE EndTime
  <2>1. CASE context' = [context EXCEPT !.time = stc] /\ Goto("endkey")
             /\ UNCHANGED <<hardware, pos, ret, sent, faults>>
    <3>1. /\ context'.last_time = context.last_time /\ context'.ending = context.ending
          /\ context'.stopped = context.stopped /\ context'.time = stc
      BY <1>0, <2>1 DEF ContextShape
    <3>2. pc = "endtime" /\ pc' = "endkey" /\ UNCHANGED <<stc, pos, ret>>
      BY <1>3, <2>1 DEF EndTime, At, Goto, hardware
    <3>3. Waited'
      BY <1>0, <3>1, <3>2 DEF Waited
    <3> QED
      BY <3>1, <3>2, <3>3, EndQuiet DEF Leaving, GaveUp
  <2> QED
    BY <1>3, <2>1, EndGiveUp DEF EndTime
<1>4. CASE EndKey
  <2>1. GetKey /\ UNCHANGED <<stc, pos, ret>> /\ pc = "endkey"
    BY <1>4 DEF EndKey, At
  <2>2. pc' \in {"jump", "endtime", "stopclock"}
    BY <1>4, GapPlaces DEF EndKey, Goto
  <2>3. pc' = "stopclock" =>
          \/ context'.stopped \/ ~(context'.last_time > 0)
          \/ ~(context'.last_time >= context'.time)
    BY <1>4, GapPlaces DEF EndKey, Goto
  <2>4. /\ context'.time = context.time /\ context'.last_time = context.last_time
        /\ context'.ending = context.ending /\ (GaveUp => GaveUp')
    BY <2>1, EndKeyPart
  <2>5. context.time <= stc /\ context.time \in Int /\ context.last_time \in Int
    BY <1>0, <2>1 DEF EndInv, Waited, ContextShape
  <2>6. Waited'
    BY <2>1, <2>2, <2>3, <2>4, <2>5 DEF Waited, GaveUp
  <2> QED
    BY <2>1, <2>4, <2>6, EndQuiet DEF Leaving
<1>5. CASE StopClock
  <2>1. CASE UNCHANGED <<stc, context, pos, ret>> /\ pc = "stopclock" /\ pc' = "stopvideo"
    BY <2>1, EndQuiet DEF EndInv, Leaving, Waited, GaveUp
  <2> QED
    BY <1>5, <2>1, EndGiveUp DEF StopClock, Goto, At
<1>6. CASE StopVideo \/ StopAudio \/ Close
  <2>1. CASE /\ \/ context' = context \/ context' = [context EXCEPT !.playing = FALSE]
             /\ UNCHANGED <<pos, ret>> /\ pc' \in {"stopaudio", "close", "closed"}
    <3>1. /\ context'.last_time = context.last_time /\ context'.ending = context.ending
          /\ context'.stopped = context.stopped
      BY <1>0, <2>1 DEF ContextShape
    <3> QED
      BY <2>1, <3>1, EndQuiet DEF Leaving, Waited, GaveUp
  <2> QED
    BY <1>6, <2>1, EndGiveUp DEF StopVideo, StopAudio, Close, Goto
<1>7. CASE Tick \/ Signal \/ \E av \in Streams : Decode(av)
  <2>1. stc' \in Int /\ stc' >= stc /\ UNCHANGED <<pc, pos, ret>>
    BY <1>0, <1>7 DEF Tick, Signal, Decode, hardware
  <2>2. /\ context'.time = context.time /\ context'.last_time = context.last_time
        /\ context'.ending = context.ending /\ (context.stopped => context'.stopped)
    BY <1>0, <1>7 DEF Tick, Signal, Decode, ContextShape
  <2>3. context.time \in Int
    BY <1>0 DEF ContextShape
  <2>4. GaveUp => GaveUp'
    BY <2>1, <2>2 DEF GaveUp
  <2>5. Waited'
    BY <1>0, <2>1, <2>2, <2>3, <2>4 DEF EndInv, Waited
  <2> QED
    BY <2>1, <2>2, <2>4, <2>5, EndQuiet
<1> QED
  BY <1>1, <1>2, <1>3, <1>4, <1>5, <1>6, <1>7

LEMMA EndNext == Shape /\ EndInv /\ [Next]_vars => EndInv'
<1> SUFFICES ASSUME Shape, EndInv, [Next]_vars PROVE EndInv'
  OBVIOUS
<1>1. CASE UNCHANGED vars
  BY <1>1 DEF vars, EndInv, LastTimeKnown, ReadToEnd, Waited, GaveUp, Of, Positions
<1>2. CASE Next
  BY <1>2, EndLoop, EndPacket, EndEnd DEF Next, Player
<1> QED
  BY <1>1, <1>2

\* The decoders are stopped only when every video frame they got has come up, and those
\* that end with the last one read or before it are over, if the file sends a frame at
\* most one frame early.  play_video waits for the last packet read, which need not be the
\* last one shown, until the clock is a tick beyond its end: a frame shown after it has
\* come up by then, but it may be cut short when a key ends the wait of get_key early.  No
\* jump spoils that: the time that ends the wait is read after every jump, and nothing
\* sets the clock from there to the stop.
THEOREM NothingIsCutOff ==
  ASSUME ReorderedByOne
  PROVE  Spec => []NothingCutOff
<1>1. Init => Shape /\ EndInv
  BY ShapeInit, EndInit
<1>2. Shape /\ EndInv /\ [Next]_vars => (Shape /\ EndInv)'
  BY ShapeNext, EndNext
<1>3. Shape /\ EndInv => NothingCutOff
  <2> SUFFICES ASSUME Shape, EndInv, pc = "stopvideo", ~GaveUp,
                      NEW i \in sent \cap Of("video")
               PROVE  /\ File[i].pts < stc
                      /\ File[i].pts + FrameTime <= context.last_time
                           => File[i].pts + FrameTime < stc
    BY DEF NothingCutOff, GaveUp
  <2>1. /\ pos \in Nat /\ sent \subseteq 0..pos /\ stc \in Int
        /\ context.time \in Int /\ context.last_time \in Int
    BY DEF Shape, ContextShape
  <2>2. i <= pos /\ i \in Of("video") /\ i \in Nat
    BY <2>1
  <2>3. PICK j \in Of("video") :
          /\ j <= pos /\ context.last_time = File[j].pts + FrameTime
          /\ \A k \in Of("video") : k <= pos => k <= j
    <3>1. ~(\A k \in Of("video") : pos < k)
      BY <2>1, <2>2
    <3> QED
      BY <3>1 DEF EndInv, LastTimeKnown
  <2>4. File[i].pts \in Nat /\ File[j].pts \in Nat /\ FrameTime \in Nat /\ FrameTime >= 1
    BY FileShape DEF Of, Positions
  <2>5. File[i].pts <= context.last_time
    BY <2>2, <2>3 DEF ReorderedByOne
  <2>6. context.last_time < context.time /\ context.time <= stc
    BY <2>3, <2>4 DEF EndInv, Waited
  <2> QED
    BY <2>1, <2>4, <2>5, <2>6
<1> QED
  BY <1>1, <1>2, <1>3, PTL DEF Spec

=============================================================================
