----------------------------- MODULE DccEvents ------------------------------
(***************************************************************************)
(* How libdcc drives the video decoder and the display: send_video_command *)
(* and set_property, which wait for events of the driver with a timeout,   *)
(* and the calls built on them: DCCPlayVideoSource, DCCStopVideoSource,    *)
(* DCCXSetVideoDecoderSourceCodec.                                         *)
(*                                                                         *)
(* The library is one thread.  The decoder executes commands in the order  *)
(* it got them and raises an event after each; the display takes one       *)
(* property at a time, shows it later and raises its event then.  Other    *)
(* users of the display set properties too.  All three are external.       *)
(***************************************************************************)
EXTENDS Naturals, Sequences

CONSTANTS
  MaxTries,   \* tries of set_property: 5
  MaxQueued   \* commands the driver queues for the decoder before it refuses one

ASSUME EventsAssumption == MaxTries \in Nat \ {0} /\ MaxQueued \in Nat \ {0}

VARIABLES
  (* the decoder and the display *)
  decQueue,  \* commands the decoder has not executed yet
  decDone,   \* the command it executed last
  decEvent,  \* its event is set
  shown,     \* the last property the display has made visible
  pending,   \* the property it will make visible next, or "none"
  dispEvent, \* its event is set
  (* the library *)
  call,      \* the DCC call in progress or last made
  todo,      \* what is left of it
  pc,        \* where in the first of todo it is
  tries,     \* n of set_property
  taken,     \* times the property being set was accepted
  status,    \* what the last call returned
  failed,    \* a driver call has failed
  timedOut   \* a wait has timed out

device == <<decQueue, decDone, decEvent, shown, pending, dispEvent>>
vars == <<device, call, todo, pc, tries, taken, status, failed, timedOut>>

Commands == {"uninit", "init", "play", "stop"}
Command(c) == [do |-> "command", arg |-> c]
Display(v) == [do |-> "property", arg |-> v]
Codec == [do |-> "codec", arg |-> "codec"]
Await == [do |-> "await", arg |-> "stop"]

\* The calls, each as the parts it is made of.  A source without a scaler has no
\* display part to stop.
Script == [play |-> <<Command("play")>>,
           step |-> <<Display("step")>>,
           stop |-> <<Command("stop"), Display("stop"), Await>>,
           stopbare |-> <<Command("stop")>>,
           codec |-> <<Command("uninit"), Codec, Command("init")>>]

First(part) == CASE part.do = "command" -> "reset"
                 [] part.do = "property" -> "preset"
                 [] part.do = "codec" -> "cset"
                 [] part.do = "await" -> "areset"

TypeOK ==
  /\ decQueue \in Seq(Commands) /\ Len(decQueue) <= MaxQueued
  /\ decDone \in Commands \cup {"none"}
  /\ decEvent \in BOOLEAN /\ dispEvent \in BOOLEAN
  /\ {shown, pending} \subseteq {"none", "step", "stop", "other"}
  /\ call \in DOMAIN Script
  /\ pc \in {"ready", "reset", "issue", "wait", "state", "preset", "pset", "pwait",
             "pagain", "cset", "areset", "await"}
  /\ tries \in 0..MaxTries - 1
  /\ status \in {"none", "ok", "error"}
  /\ failed \in BOOLEAN /\ timedOut \in BOOLEAN

Init ==
  /\ decQueue = <<>> /\ decDone = "none" /\ decEvent = FALSE
  /\ shown = "none" /\ pending = "none" /\ dispEvent = FALSE
  /\ call = "stop" /\ todo = <<>> /\ pc = "ready"
  /\ tries = 0 /\ taken = 0 /\ status = "none"
  /\ failed = FALSE /\ timedOut = FALSE

-----------------------------------------------------------------------------
Part == Head(todo)
Goto(place) == pc' = place /\ UNCHANGED <<call, todo, status>>

Return(s) == pc' = "ready" /\ todo' = <<>> /\ status' = s /\ UNCHANGED call

\* The part is done: on to the next one, or return RM_OK.
PartDone ==
  /\ IF Len(todo) = 1
       THEN Return("ok")
       ELSE /\ todo' = Tail(todo)
            /\ pc' = First(todo[2])
            /\ UNCHANGED <<call, status>>
  /\ tries' = 0

\* The part has failed, and with it the call; but DCCStopVideoSource returns
\* RM_OK when its command fails.
PartFails ==
  /\ IF call \in {"stop", "stopbare"} /\ Part.do = "command" THEN Return("ok") ELSE Return("error")
  /\ tries' = 0

\* The driver call of this step fails.
CallFails ==
  /\ PartFails
  /\ failed' = TRUE
  /\ UNCHANGED <<device, taken, timedOut>>

Begin(c) ==
  /\ pc = "ready"
  /\ call' = c
  /\ todo' = Script[c]
  /\ pc' = First(Script[c][1])
  /\ taken' = 0
  /\ UNCHANGED <<device, tries, status, failed, timedOut>>

-----------------------------------------------------------------------------
(* send_video_command *)

\* Faulty (see RuaPool): an old event is not reset.
CommandNotReset ==
  /\ pc = "reset"
  /\ Goto("issue")
  /\ UNCHANGED <<device, tries, taken, failed, timedOut>>

CommandReset ==
  /\ pc = "reset"
  /\ \/ /\ decEvent' = FALSE
        /\ Goto("issue")
        /\ UNCHANGED <<decQueue, decDone, shown, pending, dispEvent, tries, taken,
                       failed, timedOut>>
     \/ CallFails

CommandIssue ==
  /\ pc = "issue"
  /\ \/ /\ Len(decQueue) < MaxQueued
        /\ decQueue' = Append(decQueue, Part.arg)
        /\ Goto("wait")
        /\ UNCHANGED <<decDone, decEvent, shown, pending, dispEvent, tries, taken,
                       failed, timedOut>>
     \/ CallFails

\* RUAWaitForMultipleEvents finds the event set.  Whether the driver clears it
\* then does not show in the code.
CommandAnswered ==
  /\ pc = "wait"
  /\ decEvent
  /\ decEvent' \in BOOLEAN
  /\ Goto("state")
  /\ UNCHANGED <<decQueue, decDone, shown, pending, dispEvent, tries, taken, failed,
                 timedOut>>

\* It waits for a second in vain: RM_PENDING, which the callers take as a failure.
CommandTimesOut ==
  /\ pc = "wait"
  /\ ~decEvent
  /\ PartFails
  /\ timedOut' = TRUE
  /\ UNCHANGED <<device, taken, failed>>

CommandWaitFails == pc = "wait" /\ CallFails

\* The state and the status of the command are read, and not looked at.
CommandState ==
  /\ pc = "state"
  /\ \/ PartDone /\ UNCHANGED <<device, taken, failed, timedOut>>
     \/ CallFails

-----------------------------------------------------------------------------
(* set_property on a module of the display, one that get_event_mask knows an  *)
(* event for.                                                                 *)

PropertyReset ==
  /\ pc = "preset"
  /\ \/ /\ dispEvent' = FALSE
        /\ Goto("pset")
        /\ UNCHANGED <<decQueue, decDone, decEvent, shown, pending, tries, taken,
                       failed, timedOut>>
     \/ CallFails

\* RUASetProperty is accepted.
PropertyTaken ==
  /\ pending = "none"
  /\ pending' = Part.arg
  /\ taken' = taken + 1
  /\ PartDone
  /\ UNCHANGED <<decQueue, decDone, decEvent, shown, dispEvent, failed, timedOut>>

\* Faulty: the property is set again though it was taken.
PropertySetTwice ==
  /\ pc = "pset"
  /\ Goto("pwait")
  /\ IF pending = "none"
       THEN pending' = Part.arg /\ taken' = taken + 1
       ELSE UNCHANGED <<pending, taken>>
  /\ UNCHANGED <<decQueue, decDone, decEvent, shown, dispEvent, tries, failed, timedOut>>

PropertySet ==
  /\ pc = "pset"
  /\ \/ PropertyTaken
     \/ /\ pending # "none"
        /\ Goto("pwait")
        /\ UNCHANGED <<device, tries, taken, failed, timedOut>>
     \/ CallFails

\* Faulty: the event is reset after the property was refused, right before the wait.
PropertyWaitResets ==
  /\ pc = "pwait"
  /\ \/ /\ dispEvent' = FALSE
        /\ Goto("pwait")
     \/ /\ dispEvent
        /\ Goto("pagain")
        /\ UNCHANGED dispEvent
  /\ UNCHANGED <<decQueue, decDone, decEvent, shown, pending, tries, taken, failed,
                 timedOut>>

\* The display has time again, or the wait timed out: try again either way.
PropertyWait ==
  /\ pc = "pwait"
  /\ \/ /\ dispEvent
        /\ dispEvent' \in BOOLEAN
        /\ Goto("pagain")
        /\ UNCHANGED <<decQueue, decDone, decEvent, shown, pending, tries, taken,
                       failed, timedOut>>
     \/ /\ ~dispEvent
        /\ Goto("pagain")
        /\ timedOut' = TRUE
        /\ UNCHANGED <<device, tries, taken, failed>>
     \/ CallFails

\* Faulty: n is not counted.
PropertyAgainForEver ==
  /\ pc = "pagain"
  /\ \/ PropertyTaken
     \/ /\ pending # "none"
        /\ Goto("preset")
        /\ UNCHANGED <<device, tries, taken, failed, timedOut>>
     \/ CallFails

PropertyAgain ==
  /\ pc = "pagain"
  /\ \/ PropertyTaken
     \/ /\ pending # "none" /\ tries + 1 < MaxTries
        /\ tries' = tries + 1
        /\ Goto("preset")
        /\ UNCHANGED <<device, taken, failed, timedOut>>
     \/ /\ pending # "none" /\ tries + 1 = MaxTries
        /\ PartFails
        /\ UNCHANGED <<device, taken, failed, timedOut>>
     \/ CallFails

\* set_property on the decoder, which get_event_mask knows no event for: tried
\* again at once.
CodecSet ==
  /\ pc = "cset"
  /\ \/ PartDone /\ UNCHANGED <<device, taken, failed, timedOut>>
     \/ /\ tries + 1 < MaxTries
        /\ tries' = tries + 1
        /\ Goto("cset")
        /\ UNCHANGED <<device, taken, failed, timedOut>>
     \/ /\ tries + 1 = MaxTries
        /\ PartFails
        /\ UNCHANGED <<device, taken, failed, timedOut>>
     \/ CallFails

-----------------------------------------------------------------------------
(* The end of DCCStopVideoSource: the event is reset after the display has    *)
(* taken the property, and then waited for.                                   *)

\* Faulty: the event is not reset.
AwaitNotReset ==
  /\ pc = "areset"
  /\ Goto("await")
  /\ UNCHANGED <<device, tries, taken, failed, timedOut>>

AwaitReset ==
  /\ pc = "areset"
  /\ \/ /\ dispEvent' = FALSE
        /\ Goto("await")
        /\ UNCHANGED <<decQueue, decDone, decEvent, shown, pending, tries, taken,
                       failed, timedOut>>
     \/ CallFails

AwaitEvent ==
  /\ pc = "await"
  /\ \/ /\ dispEvent
        /\ dispEvent' \in BOOLEAN
        /\ PartDone
        /\ UNCHANGED <<decQueue, decDone, decEvent, shown, pending, taken, failed, timedOut>>
     \/ /\ ~dispEvent
        /\ PartFails
        /\ timedOut' = TRUE
        /\ UNCHANGED <<device, taken, failed>>
     \/ CallFails

-----------------------------------------------------------------------------
(* The decoder, the display, and its other users. *)

Execute ==
  /\ decQueue # <<>>
  /\ decDone' = Head(decQueue)
  /\ decQueue' = Tail(decQueue)
  /\ decEvent' = TRUE
  /\ UNCHANGED <<shown, pending, dispEvent, call, todo, pc, tries, taken, status,
                 failed, timedOut>>

Show ==
  /\ pending # "none"
  /\ shown' = pending
  /\ pending' = "none"
  /\ dispEvent' = TRUE
  /\ UNCHANGED <<decQueue, decDone, decEvent, call, todo, pc, tries, taken, status,
                 failed, timedOut>>

OtherSets ==
  /\ pending = "none"
  /\ pending' = "other"
  /\ UNCHANGED <<decQueue, decDone, decEvent, shown, dispEvent, call, todo, pc, tries,
                 taken, status, failed, timedOut>>

Library ==
  \/ CommandReset \/ CommandIssue \/ CommandAnswered \/ CommandTimesOut
  \/ CommandWaitFails \/ CommandState
  \/ PropertyReset \/ PropertySet \/ PropertyWait \/ PropertyAgain
  \/ CodecSet \/ AwaitReset \/ AwaitEvent

Next ==
  \/ \E c \in DOMAIN Script : Begin(c)
  \/ Library
  \/ Execute \/ Show \/ OtherSets

Spec == Init /\ [][Next]_vars

\* A call in progress goes on; nothing is asked of the decoder or the display.
FairSpec == Spec /\ WF_vars(Library)

-----------------------------------------------------------------------------
(* Properties *)

\* As long as no driver call has failed and no wait has timed out, a call that
\* returns RM_OK leaves the decoder idle with the call's last command executed:
\* send_video_command never takes the event of an earlier command for its own.
LastCommand == [play |-> "play", stop |-> "stop", stopbare |-> "stop", codec |-> "init"]

OkMeansExecuted ==
  (pc = "ready" /\ status = "ok" /\ ~failed /\ ~timedOut /\ call \in DOMAIN LastCommand)
     => decQueue = <<>> /\ decDone = LastCommand[call]

\* A wait of send_video_command or set_property has something to wake it: the event
\* is set already, or the decoder or the display still has work to raise it after.
\* (DCCStopVideoSource's own wait at "await" does not have this: the display may
\* have shown the property before the event is reset.)
NoLostWakeup ==
  /\ pc = "wait" => decEvent \/ decQueue # <<>>
  /\ pc = "pwait" => dispEvent \/ pending # "none"

\* set_property's retries hand the property to the display once if the call
\* succeeds, and not at all if set_property gives up: a property refused with
\* RM_PENDING is set again, one that was taken is not.
SetOnce ==
  /\ taken <= 1
  /\ pc \in {"preset", "pset", "pwait", "pagain"} => taken = 0
  /\ pc = "ready" /\ status = "ok" /\ call = "step" => taken = 1

\* DCCStopVideoSource, when it returns RM_OK after the display took the stop, returns
\* with the stop shown and not just noted: the event it waited for was not an old one.
StopIsShown ==
  pc = "ready" /\ call = "stop" /\ status = "ok" /\ taken = 1 => pending # "stop"

\* Every call returns, whatever the decoder, the display and its other users do:
\* the waits time out and set_property gives up after five tries.
CallReturns == (pc # "ready") ~> (pc = "ready")

=============================================================================
