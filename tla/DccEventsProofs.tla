-------------------------- MODULE DccEventsProofs ---------------------------
(***************************************************************************)
(* Proofs about the calls that wait for the decoder and the display, for   *)
(* any number of tries and any length of the decoder's queue.              *)
(***************************************************************************)
EXTENDS DccEvents, SequenceTheorems, TLAPS

CommandPlaces == {"reset", "issue", "wait", "state"}
PropertyPlaces == {"preset", "pset", "pwait", "pagain"}
AwaitPlaces == {"areset", "await"}

(* What is left of a call, and where in its first part the library is. *)
Todo ==
  \/ pc = "ready" /\ todo = <<>> /\ call \in DOMAIN Script
  \/ pc \in CommandPlaces /\ \/ call = "play" /\ todo = <<Command("play")>>
                             \/ call = "stopbare" /\ todo = <<Command("stop")>>
                             \/ call = "stop" /\ todo = <<Command("stop"), Display("stop"), Await>>
                             \/ call = "codec" /\ todo = <<Command("uninit"), Codec, Command("init")>>
                             \/ call = "codec" /\ todo = <<Command("init")>>
  \/ pc \in PropertyPlaces /\ \/ call = "step" /\ todo = <<Display("step")>>
                              \/ call = "stop" /\ todo = <<Display("stop"), Await>>
  \/ pc = "cset" /\ call = "codec" /\ todo = <<Codec, Command("init")>>
  \/ pc \in AwaitPlaces /\ call = "stop" /\ todo = <<Await>>

\* As long as nothing has gone wrong the decoder has at most the command that is waited
\* for, and the event is the one of that command.
InStep ==
  ~failed /\ ~timedOut =>
    /\ pc # "wait" => decQueue = <<>>
    /\ pc = "issue" => ~decEvent
    /\ pc = "wait" => \/ decQueue = <<Part.arg>> /\ ~decEvent
                      \/ decQueue = <<>> /\ decEvent /\ decDone = Part.arg
    /\ pc = "state" => decDone = Part.arg
    /\ pc \in PropertyPlaces \cup AwaitPlaces /\ call = "stop" => decDone = "stop"
    /\ pc = "ready" /\ status = "ok" /\ call \in DOMAIN LastCommand =>
         decDone = LastCommand[call]

\* The property is taken on the way from set_property to the end of the call.
Taken ==
  /\ pc \in CommandPlaces \cup PropertyPlaces \cup {"cset"} => taken = 0
  /\ pc \in AwaitPlaces => taken = 1
  /\ pc = "ready" => taken \in {0, 1}
  /\ pc = "ready" /\ status = "ok" /\ call = "step" => taken = 1

\* The event DCCStopVideoSource waits for is raised after the stop is shown.
Stopping ==
  /\ pc = "await" /\ dispEvent => pending # "stop"
  /\ pc = "ready" /\ call = "stop" /\ status = "ok" /\ taken = 1 => pending # "stop"

EventsInv == TypeOK /\ Todo /\ InStep /\ NoLostWakeup /\ Taken /\ Stopping

\* What is left of the part at hand.
Left == IF pc \in {"reset", "preset"} THEN 4
        ELSE IF pc \in {"issue", "pset"} THEN 3
        ELSE IF pc \in {"wait", "pwait", "areset"} THEN 2
        ELSE 1

\* A part less to do, or one more of the tries used up, or less left of a try.
Nearer ==
  \/ Len(todo') < Len(todo)
  \/ /\ Len(todo') = Len(todo)
     /\ \/ tries < tries' /\ tries' < MaxTries
        \/ tries' = tries /\ Left' < Left

-----------------------------------------------------------------------------
(* The parts of a call. *)

LEMMA Parts ==
  ASSUME Todo
  PROVE  /\ pc \in CommandPlaces => Part.do = "command" /\ Part.arg \in Commands
         /\ pc \in PropertyPlaces => Part.do = "property" /\ Part.arg \in {"step", "stop"}
         /\ pc = "cset" => Part.do = "codec"
         /\ pc \in AwaitPlaces => Part.do = "await"
<1> USE DEF Part, Command, Display, Codec, Await
<1>1. CASE pc \in CommandPlaces
  BY <1>1 DEF Todo, CommandPlaces, PropertyPlaces, AwaitPlaces, Commands
<1>2. CASE pc \in PropertyPlaces
  BY <1>2 DEF Todo, CommandPlaces, PropertyPlaces, AwaitPlaces
<1>3. CASE pc = "cset"
  BY <1>3 DEF Todo, CommandPlaces, PropertyPlaces, AwaitPlaces
<1>4. CASE pc \in AwaitPlaces
  BY <1>4 DEF Todo, CommandPlaces, PropertyPlaces, AwaitPlaces
<1>5. \A p \in CommandPlaces : p \notin PropertyPlaces /\ p \notin AwaitPlaces /\ p # "cset"
  BY DEF CommandPlaces, PropertyPlaces, AwaitPlaces
<1>6. \A p \in PropertyPlaces : p \notin AwaitPlaces /\ p # "cset"
  BY DEF PropertyPlaces, AwaitPlaces
<1> QED
  BY <1>1, <1>2, <1>3, <1>4, <1>5, <1>6

LEMMA Firsts ==
  /\ \A c : First(Command(c)) = "reset"
  /\ \A v : First(Display(v)) = "preset"
  /\ First(Codec) = "cset" /\ First(Await) = "areset"
<1>1. ASSUME NEW c PROVE First(Command(c)) = "reset"
  <2>1. Command(c).do = "command"
    BY DEF Command
  <2> QED
    BY <2>1 DEF First
<1>2. ASSUME NEW v PROVE First(Display(v)) = "preset"
  <2>1. Display(v).do = "property"
    BY DEF Display
  <2> QED
    BY <2>1 DEF First
<1>3. First(Codec) = "cset"
  <2>1. Codec.do = "codec"
    BY DEF Codec
  <2> QED
    BY <2>1 DEF First
<1>4. First(Await) = "areset"
  <2>1. Await.do = "await"
    BY DEF Await
  <2> QED
    BY <2>1 DEF First
<1> QED
  BY <1>1, <1>2, <1>3, <1>4

LEMMA Longer ==
  ASSUME PartDone, Len(todo) \in Nat, Len(todo) > 1
  PROVE  todo' = Tail(todo) /\ pc' = First(todo[2])
BY DEF PartDone

\* Where a part that is done leads to.
Onward ==
  \/ /\ pc' = "ready" /\ status' = "ok"
     /\ \/ pc \in CommandPlaces /\ call # "stop" /\ call \in DOMAIN LastCommand
           /\ Part.arg = LastCommand[call]
        \/ pc \in PropertyPlaces /\ call = "step"
        \/ pc \in AwaitPlaces /\ call = "stop"
  \/ pc' = "preset" /\ pc \in CommandPlaces /\ call = "stop" /\ Part.arg = "stop"
  \/ pc' = "areset" /\ pc \in PropertyPlaces /\ call = "stop"
  \/ pc' = "cset" /\ pc \in CommandPlaces /\ call = "codec"
  \/ pc' = "reset" /\ pc = "cset" /\ call = "codec"

LEMMA DoneStep ==
  ASSUME Todo, pc # "ready", PartDone
  PROVE  Todo' /\ call' = call /\ Onward /\ tries' = 0 /\ status' \in {status, "ok"}
<1>1. call' = call /\ tries' = 0 /\ status' \in {status, "ok"}
  BY DEF PartDone, Return
<1>8. ASSUME todo = <<Command("stop"), Display("stop"), Await>> PROVE pc' = "preset" /\ todo' = <<Display("stop"), Await>>
  <2>1. /\ Len(todo) \in Nat /\ Len(todo) > 1
        /\ Tail(todo) = <<Display("stop"), Await>> /\ todo[2] = Display("stop")
    BY <1>8
  <2> QED
    BY <2>1, Firsts, Longer
<1>9. ASSUME todo = <<Display("stop"), Await>> PROVE pc' = "areset" /\ todo' = <<Await>>
  <2>1. /\ Len(todo) \in Nat /\ Len(todo) > 1
        /\ Tail(todo) = <<Await>> /\ todo[2] = Await
    BY <1>9
  <2> QED
    BY <2>1, Firsts, Longer
<1>10. ASSUME todo = <<Command("uninit"), Codec, Command("init")>> PROVE pc' = "cset" /\ todo' = <<Codec, Command("init")>>
  <2>1. /\ Len(todo) \in Nat /\ Len(todo) > 1
        /\ Tail(todo) = <<Codec, Command("init")>> /\ todo[2] = Codec
    BY <1>10
  <2> QED
    BY <2>1, Firsts, Longer
<1>11. ASSUME todo = <<Codec, Command("init")>> PROVE pc' = "reset" /\ todo' = <<Command("init")>>
  <2>1. /\ Len(todo) \in Nat /\ Len(todo) > 1
        /\ Tail(todo) = <<Command("init")>> /\ todo[2] = Command("init")
    BY <1>11
  <2> QED
    BY <2>1, Firsts, Longer
<1> USE DEF Part, Command, Display, Codec, Await, CommandPlaces, PropertyPlaces, AwaitPlaces,
        PartDone, Return, First, Onward, LastCommand, Script
<1>2. CASE call = "play"
  <2>1. todo = <<Command("play")>> /\ pc \in CommandPlaces
    BY <1>2 DEF Todo
  <2> QED
    BY <1>1, <1>2, <2>1 DEF Todo
<1>3. CASE call = "stopbare"
  <2>1. todo = <<Command("stop")>> /\ pc \in CommandPlaces
    BY <1>3 DEF Todo
  <2> QED
    BY <1>1, <1>3, <2>1 DEF Todo
<1>4. CASE call = "step"
  <2>1. todo = <<Display("step")>> /\ pc \in PropertyPlaces
    BY <1>4 DEF Todo
  <2> QED
    BY <1>1, <1>4, <2>1 DEF Todo
<1>5. CASE call = "stop"
  <2>1. CASE pc \in CommandPlaces /\ todo = <<Command("stop"), Display("stop"), Await>>
    <3>1. /\ Len(todo) = 3 /\ Tail(todo) = <<Display("stop"), Await>>
          /\ todo[2] = Display("stop") /\ Part = Command("stop")
      BY <2>1
    <3>2. pc' = "preset" /\ todo' = <<Display("stop"), Await>>
      BY <2>1, <1>8
    <3> QED
      BY <1>1, <1>5, <2>1, <3>1, <3>2 DEF Todo
  <2>2. CASE pc \in PropertyPlaces /\ todo = <<Display("stop"), Await>>
    <3>1. Len(todo) = 2 /\ Tail(todo) = <<Await>> /\ todo[2] = Await /\ Part = Display("stop")
      BY <2>2
    <3>2. pc' = "areset" /\ todo' = <<Await>>
      BY <2>2, <1>9
    <3> QED
      BY <1>1, <1>5, <2>2, <3>1, <3>2 DEF Todo
  <2>3. CASE pc \in AwaitPlaces /\ todo = <<Await>>
    BY <1>1, <1>5, <2>3 DEF Todo
  <2> QED
    BY <1>5, <2>1, <2>2, <2>3 DEF Todo
<1>6. CASE call = "codec"
  <2>1. CASE pc \in CommandPlaces /\ todo = <<Command("uninit"), Codec, Command("init")>>
    <3>1. /\ Len(todo) = 3 /\ Tail(todo) = <<Codec, Command("init")>>
          /\ todo[2] = Codec /\ Part = Command("uninit")
      BY <2>1
    <3>2. pc' = "cset" /\ todo' = <<Codec, Command("init")>>
      BY <2>1, <1>10
    <3> QED
      BY <1>1, <1>6, <2>1, <3>1, <3>2 DEF Todo
  <2>2. CASE pc = "cset" /\ todo = <<Codec, Command("init")>>
    <3>1. Len(todo) = 2 /\ Tail(todo) = <<Command("init")>> /\ todo[2] = Command("init")
      BY <2>2
    <3>2. pc' = "reset" /\ todo' = <<Command("init")>>
      BY <2>2, <1>11
    <3> QED
      BY <1>1, <1>6, <2>2, <3>1, <3>2 DEF Todo
  <2>3. CASE pc \in CommandPlaces /\ todo = <<Command("init")>>
    BY <1>1, <1>6, <2>3 DEF Todo
  <2> QED
    BY <1>6, <2>1, <2>2, <2>3 DEF Todo
<1>7. call \in {"play", "step", "stop", "stopbare", "codec"}
  BY DEF Todo
<1> QED
  BY <1>2, <1>3, <1>4, <1>5, <1>6, <1>7

LEMMA FailStep ==
  ASSUME Todo, pc # "ready", PartFails
  PROVE  /\ Todo' /\ pc' = "ready" /\ call' = call /\ tries' = 0
         /\ \/ status' = "error"
            \/ status' = "ok" /\ pc \in CommandPlaces
<1>1. pc' = "ready" /\ todo' = <<>> /\ call' = call /\ tries' = 0
  BY DEF PartFails, Return
<1>2. call \in DOMAIN Script
  BY DEF Todo, Script
<1>3. Part.do = "command" => pc \in CommandPlaces
  <2>1. pc \in CommandPlaces \cup PropertyPlaces \cup AwaitPlaces \cup {"cset"}
    BY DEF Todo
  <2> QED
    BY <2>1, Parts
<1>4. \/ status' = "error"
      \/ status' = "ok" /\ pc \in CommandPlaces
  BY <1>3 DEF PartFails, Return
<1> QED
  BY <1>1, <1>2, <1>4 DEF Todo

LEMMA GotoStep ==
  ASSUME Todo, NEW place, Goto(place),
         \/ pc \in CommandPlaces /\ place \in CommandPlaces
         \/ pc \in PropertyPlaces /\ place \in PropertyPlaces
         \/ pc \in AwaitPlaces /\ place \in AwaitPlaces
         \/ pc = "cset" /\ place = "cset"
  PROVE  Todo' /\ pc' = place /\ UNCHANGED <<call, todo, status>> /\ Part' = Part
<1>1. pc' = place /\ UNCHANGED <<call, todo, status>>
  BY DEF Goto
<1>2. Part' = Part
  BY <1>1 DEF Part
<1>3. Todo'
  BY <1>1 DEF Todo, CommandPlaces, PropertyPlaces, AwaitPlaces
<1> QED
  BY <1>1, <1>2, <1>3

-----------------------------------------------------------------------------
(* The steps. *)

LEMMA PlacesApart ==
  /\ "ready" \notin CommandPlaces \cup PropertyPlaces \cup AwaitPlaces
  /\ "cset" \notin CommandPlaces \cup PropertyPlaces \cup AwaitPlaces
  /\ \A p \in CommandPlaces : p \notin PropertyPlaces \cup AwaitPlaces
  /\ \A p \in PropertyPlaces : p \notin AwaitPlaces
BY DEF CommandPlaces, PropertyPlaces, AwaitPlaces

\* Which calls have such a part.
LEMMA CallsOf ==
  ASSUME Todo
  PROVE  /\ pc \in CommandPlaces => call \in {"play", "stop", "stopbare", "codec"}
         /\ pc \in PropertyPlaces => call \in {"step", "stop"}
         /\ pc \in AwaitPlaces => call = "stop"
         /\ pc = "cset" => call = "codec"
         /\ pc \in {"ready", "cset"} \cup CommandPlaces \cup PropertyPlaces \cup AwaitPlaces
         /\ call \in DOMAIN Script
BY PlacesApart DEF Todo, Script

\* A part fails, and the call with it.
LEMMA FailInv ==
  ASSUME EventsInv, pc # "ready", PartFails, UNCHANGED <<device, taken>>,
         failed' \in BOOLEAN, timedOut' \in BOOLEAN, failed => failed', timedOut => timedOut',
         pc \in CommandPlaces => failed' \/ timedOut'
  PROVE  EventsInv'
<1>1. /\ Todo' /\ pc' = "ready" /\ call' = call /\ tries' = 0
      /\ status' = "error" \/ (status' = "ok" /\ pc \in CommandPlaces)
  BY FailStep DEF EventsInv
<1>2. UNCHANGED <<decQueue, decDone, decEvent, shown, pending, dispEvent, taken>>
  BY DEF device
<1>3. TypeOK'
  BY <1>1, <1>2, EventsAssumption DEF EventsInv, TypeOK
<1>4. InStep'
  BY <1>1, <1>2, PlacesApart DEF EventsInv, InStep, CommandPlaces, PropertyPlaces, AwaitPlaces
<1>5. NoLostWakeup'
  BY <1>1 DEF NoLostWakeup
<1>6. Taken' /\ Stopping'
  <2>1. taken \in {0, 1} /\ (pc \in CommandPlaces => taken = 0)
    BY CallsOf DEF EventsInv, Taken
  <2>2. status' = "ok" => call # "step" /\ taken = 0
    BY <1>1, <2>1, CallsOf DEF EventsInv
  <2> QED
    BY <1>1, <1>2, <2>1, <2>2, PlacesApart DEF Taken, Stopping
<1> QED
  BY <1>1, <1>3, <1>4, <1>5, <1>6 DEF EventsInv

LEMMA CallFailsInv ==
  ASSUME EventsInv, pc # "ready", CallFails PROVE EventsInv'
<1>1. failed' = TRUE /\ timedOut' = timedOut /\ timedOut \in BOOLEAN
  BY DEF CallFails, EventsInv, TypeOK
<1> QED
  BY <1>1, FailInv DEF CallFails

LEMMA BeginInv ==
  ASSUME EventsInv, NEW c \in DOMAIN Script, Begin(c) PROVE EventsInv'
<1>1. /\ pc = "ready" /\ call' = c /\ todo' = Script[c] /\ pc' = First(Script[c][1]) /\ taken' = 0
      /\ UNCHANGED <<decQueue, decDone, decEvent, shown, pending, dispEvent, tries, status,
                     failed, timedOut>>
  BY DEF Begin, device
<1>2. Todo' /\ pc' \in {"reset", "preset"}
  <2>1. CASE c = "play"
    <3>1. todo' = <<Command("play")>> /\ pc' = "reset"
      BY <1>1, <2>1, Firsts DEF Script
    <3> QED
      BY <1>1, <2>1, <3>1 DEF Todo, CommandPlaces
  <2>2. CASE c = "step"
    <3>1. todo' = <<Display("step")>> /\ pc' = "preset"
      BY <1>1, <2>2, Firsts DEF Script
    <3> QED
      BY <1>1, <2>2, <3>1 DEF Todo, PropertyPlaces
  <2>3. CASE c = "stop"
    <3>1. todo' = <<Command("stop"), Display("stop"), Await>> /\ pc' = "reset"
      BY <1>1, <2>3, Firsts DEF Script
    <3> QED
      BY <1>1, <2>3, <3>1 DEF Todo, CommandPlaces
  <2>4. CASE c = "stopbare"
    <3>1. todo' = <<Command("stop")>> /\ pc' = "reset"
      BY <1>1, <2>4, Firsts DEF Script
    <3> QED
      BY <1>1, <2>4, <3>1 DEF Todo, CommandPlaces
  <2>5. CASE c = "codec"
    <3>1. todo' = <<Command("uninit"), Codec, Command("init")>> /\ pc' = "reset"
      BY <1>1, <2>5, Firsts DEF Script
    <3> QED
      BY <1>1, <2>5, <3>1 DEF Todo, CommandPlaces
  <2> QED
    BY <2>1, <2>2, <2>3, <2>4, <2>5 DEF Script
<1>3. TypeOK'
  BY <1>1, <1>2 DEF EventsInv, TypeOK
<1>4. c = "stop" => pc' = "reset"
  BY <1>1, Firsts DEF Script
<1>5. InStep'
  BY <1>1, <1>2, <1>4 DEF EventsInv, InStep, PropertyPlaces, AwaitPlaces
<1>6. NoLostWakeup' /\ Taken' /\ Stopping'
  BY <1>1, <1>2 DEF NoLostWakeup, Taken, Stopping, PropertyPlaces, AwaitPlaces
<1> QED
  BY <1>2, <1>3, <1>5, <1>6 DEF EventsInv

LEMMA Appended ==
  ASSUME NEW S, NEW q \in Seq(S), NEW x \in S
  PROVE  /\ Append(q, x) \in Seq(S) /\ Len(Append(q, x)) = Len(q) + 1
         /\ Append(q, x) # <<>> /\ (q = <<>> => Append(q, x) = <<x>>)
<1>1. Append(q, x) \in Seq(S) /\ Len(Append(q, x)) = Len(q) + 1
  BY AppendProperties
<1>2. Append(q, x) # <<>>
  BY AppendProperties
<1>3. Append(<<>>, x) = <<x>>
  OBVIOUS
<1> QED
  BY <1>1, <1>2, <1>3

LEMMA CommandInv ==
  ASSUME EventsInv,
         CommandReset \/ CommandIssue \/ CommandAnswered \/ CommandTimesOut \/ CommandWaitFails
  PROVE  EventsInv'
<1>1. TypeOK /\ Todo
  BY DEF EventsInv
<1>2. CASE CallFails /\ pc # "ready"
  BY <1>2, CallFailsInv
<1>3. CASE /\ pc = "reset" /\ decEvent' = FALSE /\ Goto("issue")
           /\ UNCHANGED <<decQueue, decDone, shown, pending, dispEvent, tries, taken,
                          failed, timedOut>>
  <2>1. Todo' /\ pc' = "issue" /\ UNCHANGED <<call, todo, status>>
    BY <1>1, <1>3, GotoStep DEF CommandPlaces
  <2>2. TypeOK'
    BY <1>1, <1>3, <2>1 DEF TypeOK
  <2>3. InStep'
    BY <1>3, <2>1 DEF EventsInv, InStep, PropertyPlaces, AwaitPlaces
  <2>4. NoLostWakeup' /\ Taken' /\ Stopping'
    BY <1>3, <2>1 DEF EventsInv, NoLostWakeup, Taken, Stopping, CommandPlaces, PropertyPlaces, AwaitPlaces
  <2> QED
    BY <2>1, <2>2, <2>3, <2>4 DEF EventsInv
<1>4. CASE /\ pc = "issue" /\ Len(decQueue) < MaxQueued /\ decQueue' = Append(decQueue, Part.arg)
           /\ Goto("wait")
           /\ UNCHANGED <<decDone, decEvent, shown, pending, dispEvent, tries, taken,
                          failed, timedOut>>
  <2>1. Todo' /\ pc' = "wait" /\ UNCHANGED <<call, todo, status>> /\ Part' = Part
    BY <1>1, <1>4, GotoStep DEF CommandPlaces
  <2>2. Part.arg \in Commands
    BY <1>1, <1>4, Parts DEF CommandPlaces
  <2>3. decQueue \in Seq(Commands) /\ MaxQueued \in Nat
    BY <1>1, EventsAssumption DEF TypeOK
  <2>4. /\ decQueue' \in Seq(Commands) /\ Len(decQueue') = Len(decQueue) + 1
        /\ decQueue' # <<>> /\ (decQueue = <<>> => decQueue' = <<Part.arg>>)
    BY <1>4, <2>2, <2>3, Appended
  <2>5. TypeOK'
    BY <1>1, <1>4, <2>1, <2>3, <2>4 DEF TypeOK
  <2>6. InStep'
    BY <1>4, <2>1, <2>4 DEF EventsInv, InStep, PropertyPlaces, AwaitPlaces
  <2>7. NoLostWakeup' /\ Taken' /\ Stopping'
    BY <1>4, <2>1, <2>4 DEF EventsInv, NoLostWakeup, Taken, Stopping, CommandPlaces, PropertyPlaces, AwaitPlaces
  <2> QED
    BY <2>1, <2>5, <2>6, <2>7 DEF EventsInv
<1>5. CASE CommandAnswered
  <2>1. /\ Goto("state") /\ pc = "wait" /\ decEvent /\ decEvent' \in BOOLEAN
        /\ UNCHANGED <<decQueue, decDone, shown, pending, dispEvent, tries, taken, failed,
                       timedOut>>
    BY <1>5 DEF CommandAnswered
  <2>2. Todo' /\ pc' = "state" /\ UNCHANGED <<call, todo, status>> /\ Part' = Part
    BY <1>1, <2>1, GotoStep DEF CommandPlaces
  <2>3. TypeOK'
    BY <1>1, <2>1, <2>2 DEF TypeOK
  <2>4. InStep'
    BY <2>1, <2>2 DEF EventsInv, InStep, PropertyPlaces, AwaitPlaces
  <2>5. NoLostWakeup' /\ Taken' /\ Stopping'
    BY <2>1, <2>2 DEF EventsInv, NoLostWakeup, Taken, Stopping, CommandPlaces, PropertyPlaces, AwaitPlaces
  <2> QED
    BY <2>2, <2>3, <2>4, <2>5 DEF EventsInv
<1>6. CASE CommandTimesOut
  BY <1>1, <1>6, FailInv DEF CommandTimesOut, TypeOK
<1> QED
  BY <1>2, <1>3, <1>4, <1>5, <1>6 DEF CommandReset, CommandIssue, CommandWaitFails

\* The command, or the codec, is done.
LEMMA StateInv ==
  ASSUME EventsInv, pc \in {"state", "cset"}, PartDone, UNCHANGED <<device, taken, failed, timedOut>>
  PROVE  EventsInv'
<1>1. Todo' /\ call' = call /\ Onward /\ tries' = 0 /\ status' \in {status, "ok"}
  BY DoneStep DEF EventsInv
<1>2. UNCHANGED <<decQueue, decDone, decEvent, shown, pending, dispEvent>>
  BY DEF device
<1>3. pc \notin PropertyPlaces \cup AwaitPlaces
  BY DEF PropertyPlaces, AwaitPlaces
<1>4. \/ /\ pc' = "ready" /\ status' = "ok" /\ pc \in CommandPlaces /\ call # "stop"
         /\ call \in DOMAIN LastCommand /\ Part.arg = LastCommand[call]
      \/ pc' = "preset" /\ pc \in CommandPlaces /\ call = "stop" /\ Part.arg = "stop"
      \/ pc' \in {"cset", "reset"}
  BY <1>1, <1>3 DEF Onward
<1>5. taken = 0 /\ (pc \in CommandPlaces => pc = "state")
  BY DEF EventsInv, Taken, CommandPlaces
<1>6. TypeOK'
  BY <1>1, <1>2, <1>4, EventsAssumption DEF EventsInv, TypeOK
<1>7. InStep'
  BY <1>1, <1>2, <1>4, <1>5 DEF EventsInv, InStep, PropertyPlaces, AwaitPlaces
<1>8. NoLostWakeup'
  BY <1>4 DEF NoLostWakeup
<1>9. Taken' /\ Stopping'
  <2>1. pc' = "ready" => call # "step" /\ call # "stop"
    BY <1>4 DEF LastCommand
  <2> QED
    BY <1>1, <1>2, <1>4, <1>5, <2>1 DEF Taken, Stopping, PropertyPlaces, AwaitPlaces
<1> QED
  BY <1>1, <1>6, <1>7, <1>8, <1>9 DEF EventsInv

\* The display takes the property.
LEMMA TakenInv ==
  ASSUME EventsInv, pc \in PropertyPlaces, PropertyTaken
  PROVE  EventsInv'
<1>1. Todo' /\ call' = call /\ Onward /\ tries' = 0 /\ status' \in {status, "ok"}
  BY DoneStep, PlacesApart DEF EventsInv, PropertyTaken
<1>2. /\ pending' = Part.arg /\ taken' = taken + 1
      /\ UNCHANGED <<decQueue, decDone, decEvent, shown, dispEvent, failed, timedOut>>
  BY DEF PropertyTaken
<1>3. \/ pc' = "ready" /\ status' = "ok" /\ call = "step"
      \/ pc' = "areset" /\ call = "stop"
  BY <1>1, PlacesApart DEF Onward
<1>4. taken' = 1 /\ Part.arg \in {"step", "stop"} /\ pc # "wait" /\ pc \notin AwaitPlaces
  BY <1>2, Parts, PlacesApart DEF EventsInv, Taken, PropertyPlaces
<1>5. TypeOK'
  BY <1>1, <1>2, <1>3, <1>4, EventsAssumption DEF EventsInv, TypeOK
<1>6. InStep'
  BY <1>1, <1>2, <1>3, <1>4 DEF EventsInv, InStep, AwaitPlaces, LastCommand
<1>7. NoLostWakeup' /\ Stopping'
  BY <1>1, <1>3 DEF NoLostWakeup, Stopping
<1>8. Taken'
  BY <1>1, <1>3, <1>4 DEF Taken, CommandPlaces, PropertyPlaces, AwaitPlaces
<1> QED
  BY <1>1, <1>5, <1>6, <1>7, <1>8 DEF EventsInv

\* On the way through set_property.
LEMMA PropertyGoes ==
  ASSUME EventsInv, NEW place \in PropertyPlaces, pc \in PropertyPlaces, Goto(place),
         UNCHANGED <<decQueue, decDone, decEvent, shown, pending, taken, failed>>,
         dispEvent' \in BOOLEAN, tries' \in 0..(MaxTries - 1), timedOut' \in BOOLEAN,
         timedOut => timedOut',
         place = "pwait" => pending # "none"
  PROVE  EventsInv'
<1>1. Todo' /\ pc' = place /\ UNCHANGED <<call, todo, status>>
  BY GotoStep DEF EventsInv
<1>2. pc' \notin CommandPlaces \cup AwaitPlaces /\ pc' # "ready" /\ pc' # "cset"
  BY <1>1, PlacesApart
<1>3. place \in {"preset", "pset", "pwait", "pagain"} /\ pc \in {"preset", "pset", "pwait", "pagain"}
  BY DEF PropertyPlaces
<1>4. TypeOK'
  BY <1>1, <1>3 DEF EventsInv, TypeOK
<1>5. InStep'
  BY <1>1, <1>2, <1>3 DEF EventsInv, InStep
<1>6. NoLostWakeup' /\ Taken' /\ Stopping'
  BY <1>1, <1>2, <1>3 DEF EventsInv, NoLostWakeup, Taken, Stopping, AwaitPlaces
<1> QED
  BY <1>1, <1>4, <1>5, <1>6 DEF EventsInv

LEMMA PropertyInv ==
  ASSUME EventsInv, PropertyReset \/ PropertySet \/ PropertyWait \/ PropertyAgain
  PROVE  EventsInv'
<1>1. TypeOK /\ pc \in PropertyPlaces /\ pc # "ready" /\ tries \in 0..(MaxTries - 1)
      /\ timedOut \in BOOLEAN /\ dispEvent \in BOOLEAN /\ MaxTries \in Nat \ {0}
  BY EventsAssumption DEF PropertyReset, PropertySet, PropertyWait, PropertyAgain, EventsInv,
     TypeOK, PropertyPlaces
<1>2. CASE CallFails
  BY <1>1, <1>2, CallFailsInv
<1>3. CASE PropertyTaken
  BY <1>1, <1>3, TakenInv
<1>4. CASE /\ Goto("pset") /\ dispEvent' = FALSE
           /\ UNCHANGED <<decQueue, decDone, decEvent, shown, pending, tries, taken,
                          failed, timedOut>>
  BY <1>1, <1>4, PropertyGoes DEF PropertyPlaces
<1>5. CASE /\ pending # "none" /\ Goto("pwait")
           /\ UNCHANGED <<device, tries, taken, failed, timedOut>>
  <2>1. UNCHANGED <<decQueue, decDone, decEvent, shown, pending, dispEvent>>
    BY <1>5 DEF device
  <2> QED
    BY <1>1, <1>5, <2>1, PropertyGoes DEF PropertyPlaces
<1>6. CASE /\ Goto("pagain") /\ dispEvent' \in BOOLEAN /\ (timedOut' = timedOut \/ timedOut' = TRUE)
           /\ UNCHANGED <<decQueue, decDone, decEvent, shown, pending, tries, taken, failed>>
  <2>1. timedOut' \in BOOLEAN /\ (timedOut => timedOut')
    <3>1. timedOut \in BOOLEAN
      BY <1>1
    <3>2. timedOut' = timedOut \/ timedOut' = TRUE
      BY <1>6
    <3>3. CASE timedOut' = timedOut
      BY <3>1, <3>3
    <3>4. CASE timedOut' = TRUE
      BY <3>4
    <3> QED
      BY <3>2, <3>3, <3>4
  <2>2. "pagain" \in PropertyPlaces /\ "pagain" # "pwait"
    BY DEF PropertyPlaces
  <2>3. tries' \in 0..(MaxTries - 1)
    BY <1>1, <1>6
  <2>4. Goto("pagain") /\ dispEvent' \in BOOLEAN /\ pc \in PropertyPlaces
    BY <1>1, <1>6
  <2>5. UNCHANGED <<decQueue, decDone, decEvent, shown, pending, taken, failed>>
    BY <1>6
  <2> QED
    BY <2>1, <2>2, <2>3, <2>4, <2>5, PropertyGoes
<1>7. CASE /\ tries + 1 < MaxTries /\ tries' = tries + 1 /\ Goto("preset")
           /\ UNCHANGED <<device, taken, failed, timedOut>>
  <2>1. UNCHANGED <<decQueue, decDone, decEvent, shown, pending, dispEvent>>
    BY <1>7 DEF device
  <2>2. tries' \in 0..(MaxTries - 1)
    BY <1>1, <1>7
  <2> QED
    BY <1>1, <1>7, <2>1, <2>2, PropertyGoes DEF PropertyPlaces
<1>8. CASE PartFails /\ UNCHANGED <<device, taken, failed, timedOut>>
  <2>1. pc \notin CommandPlaces
    BY <1>1, PlacesApart
  <2>2. failed' \in BOOLEAN /\ timedOut' \in BOOLEAN
    BY <1>1, <1>8 DEF TypeOK
  <2> QED
    BY <1>1, <1>8, <2>1, <2>2, FailInv
<1>9. CASE PropertyReset
  BY <1>2, <1>4, <1>9 DEF PropertyReset
<1>10. CASE PropertySet
  BY <1>2, <1>3, <1>5, <1>10 DEF PropertySet
<1>11. CASE PropertyWait
  BY <1>1, <1>2, <1>6, <1>11 DEF PropertyWait, device
<1>12. CASE PropertyAgain
  BY <1>2, <1>3, <1>7, <1>8, <1>12 DEF PropertyAgain
<1> QED
  BY <1>9, <1>10, <1>11, <1>12

LEMMA CodecInv ==
  ASSUME EventsInv, CommandState \/ CodecSet
  PROVE  EventsInv'
<1>1. TypeOK /\ pc \in {"state", "cset"} /\ tries \in 0..(MaxTries - 1) /\ MaxTries \in Nat \ {0}
      /\ failed \in BOOLEAN /\ timedOut \in BOOLEAN
  BY EventsAssumption DEF CommandState, CodecSet, EventsInv, TypeOK
<1>2. CASE CallFails
  BY <1>1, <1>2, CallFailsInv
<1>3. CASE PartDone /\ UNCHANGED <<device, taken, failed, timedOut>>
  BY <1>1, <1>3, StateInv
<1>4. CASE /\ pc = "cset" /\ PartFails /\ UNCHANGED <<device, taken, failed, timedOut>>
  BY <1>1, <1>4, FailInv, PlacesApart
<1>5. CASE /\ pc = "cset" /\ tries + 1 < MaxTries /\ tries' = tries + 1 /\ Goto("cset")
           /\ UNCHANGED <<device, taken, failed, timedOut>>
  <2>1. Todo' /\ pc' = "cset" /\ UNCHANGED <<call, todo, status>>
    BY <1>5, GotoStep DEF EventsInv
  <2>2. UNCHANGED <<decQueue, decDone, decEvent, shown, pending, dispEvent>>
    BY <1>5 DEF device
  <2>3. tries' \in 0..(MaxTries - 1)
    BY <1>1, <1>5
  <2>4. TypeOK'
    BY <1>1, <1>5, <2>1, <2>2, <2>3 DEF TypeOK
  <2>5. InStep'
    BY <1>5, <2>1, <2>2, PlacesApart DEF EventsInv, InStep
  <2>6. NoLostWakeup' /\ Taken' /\ Stopping'
    BY <1>5, <2>1, <2>2, PlacesApart DEF EventsInv, NoLostWakeup, Taken, Stopping
  <2> QED
    BY <2>1, <2>4, <2>5, <2>6 DEF EventsInv
<1> QED
  BY <1>2, <1>3, <1>4, <1>5 DEF CommandState, CodecSet

LEMMA AwaitInv ==
  ASSUME EventsInv, AwaitReset \/ AwaitEvent
  PROVE  EventsInv'
<1>1. /\ TypeOK /\ Todo /\ pc \in {"areset", "await"} /\ pc \in AwaitPlaces /\ pc # "ready"
      /\ failed \in BOOLEAN /\ timedOut \in BOOLEAN
  BY DEF AwaitReset, AwaitEvent, EventsInv, TypeOK, AwaitPlaces
<1>2. CASE CallFails
  BY <1>1, <1>2, CallFailsInv
<1>3. CASE /\ pc = "areset" /\ dispEvent' = FALSE /\ Goto("await")
           /\ UNCHANGED <<decQueue, decDone, decEvent, shown, pending, tries, taken,
                          failed, timedOut>>
  <2>1. Todo' /\ pc' = "await" /\ UNCHANGED <<call, todo, status>>
    BY <1>1, <1>3, GotoStep DEF AwaitPlaces
  <2>2. TypeOK'
    BY <1>1, <1>3, <2>1 DEF TypeOK
  <2>3. InStep'
    BY <1>3, <2>1 DEF EventsInv, InStep, AwaitPlaces
  <2>4. NoLostWakeup' /\ Taken' /\ Stopping'
    BY <1>3, <2>1 DEF EventsInv, NoLostWakeup, Taken, Stopping, CommandPlaces, PropertyPlaces, AwaitPlaces
  <2> QED
    BY <2>1, <2>2, <2>3, <2>4 DEF EventsInv
<1>4. CASE /\ pc = "await" /\ dispEvent /\ dispEvent' \in BOOLEAN /\ PartDone
           /\ UNCHANGED <<decQueue, decDone, decEvent, shown, pending, taken, failed, timedOut>>
  <2>1. Todo' /\ call' = call /\ Onward /\ tries' = 0 /\ status' \in {status, "ok"}
    BY <1>1, <1>4, DoneStep
  <2>2. pc' = "ready" /\ status' = "ok" /\ call = "stop"
    BY <1>1, <2>1, PlacesApart DEF Onward
  <2>3. taken = 1 /\ pending # "stop"
    BY <1>1, <1>4 DEF EventsInv, Taken, Stopping
  <2>4. TypeOK'
    BY <1>1, <1>4, <2>1, <2>2, EventsAssumption DEF TypeOK
  <2>5. InStep'
    BY <1>1, <1>4, <2>1, <2>2, PlacesApart DEF EventsInv, InStep, LastCommand, AwaitPlaces
  <2>6. NoLostWakeup' /\ Taken' /\ Stopping'
    BY <1>4, <2>1, <2>2, <2>3, PlacesApart DEF NoLostWakeup, Taken, Stopping
  <2> QED
    BY <2>1, <2>4, <2>5, <2>6 DEF EventsInv
<1>5. CASE PartFails /\ timedOut' = TRUE /\ UNCHANGED <<device, taken, failed>>
  BY <1>1, <1>5, FailInv
<1> QED
  BY <1>2, <1>3, <1>4, <1>5 DEF AwaitReset, AwaitEvent

\* The decoder, the display and its other users.
LEMMA OthersInv ==
  ASSUME EventsInv, Execute \/ Show \/ OtherSets \/ UNCHANGED vars
  PROVE  EventsInv'
<1>1. UNCHANGED <<call, todo, pc, tries, taken, status, failed, timedOut>>
  BY DEF Execute, Show, OtherSets, vars
<1>2. Todo' /\ Part' = Part
  BY <1>1 DEF EventsInv, Todo, Part
<1>3. CASE Execute
  <2>1. /\ decQueue # <<>> /\ decDone' = Head(decQueue) /\ decQueue' = Tail(decQueue)
        /\ decEvent' = TRUE /\ UNCHANGED <<shown, pending, dispEvent>>
    BY <1>3 DEF Execute
  <2>2. decQueue \in Seq(Commands) /\ Len(decQueue) <= MaxQueued /\ MaxQueued \in Nat
    BY EventsAssumption DEF EventsInv, TypeOK
  <2>3. /\ decQueue' \in Seq(Commands) /\ Len(decQueue') <= MaxQueued /\ decDone' \in Commands
        /\ \A c : decQueue = <<c>> => decQueue' = <<>> /\ decDone' = c
    BY <2>1, <2>2
  <2>4. TypeOK'
    BY <1>1, <2>1, <2>3 DEF EventsInv, TypeOK
  <2>5. InStep'
    <3> SUFFICES ASSUME ~failed, ~timedOut
                 PROVE  /\ pc = "wait" /\ decQueue' = <<>> /\ decDone' = Part.arg
      BY <1>1, <1>2, <2>1 DEF InStep, PropertyPlaces, AwaitPlaces
    <3>1. pc = "wait" /\ decQueue = <<Part.arg>>
      BY <2>1 DEF EventsInv, InStep
    <3> QED
      BY <2>3, <3>1
  <2>6. NoLostWakeup' /\ Taken' /\ Stopping'
    BY <1>1, <2>1 DEF EventsInv, NoLostWakeup, Taken, Stopping
  <2> QED
    BY <1>2, <2>4, <2>5, <2>6 DEF EventsInv
<1>4. CASE Show \/ OtherSets \/ UNCHANGED vars
  <2>1. /\ UNCHANGED <<decQueue, decDone, decEvent>>
        /\ \/ pending' = "none" /\ dispEvent' = TRUE /\ shown' = pending
           \/ pending' = "other" /\ UNCHANGED <<dispEvent, shown>>
           \/ UNCHANGED <<pending, dispEvent, shown>>
    BY <1>4 DEF Show, OtherSets, vars, device
  <2>2. TypeOK'
    BY <1>1, <2>1 DEF EventsInv, TypeOK
  <2>3. InStep'
    BY <1>1, <1>2, <2>1 DEF EventsInv, InStep
  <2>4. NoLostWakeup' /\ Taken' /\ Stopping'
    BY <1>1, <2>1 DEF EventsInv, NoLostWakeup, Taken, Stopping
  <2> QED
    BY <1>2, <2>2, <2>3, <2>4 DEF EventsInv
<1> QED
  BY <1>3, <1>4

LEMMA EventsHold == Spec => []EventsInv
<1>1. Init => EventsInv
  <2> SUFFICES ASSUME Init PROVE EventsInv
    OBVIOUS
  <2>1. TypeOK
    <3>1. decQueue \in Seq(Commands) /\ Len(decQueue) <= MaxQueued
      BY EventsAssumption DEF Init
    <3>2. 0 \in 0..(MaxTries - 1)
      BY EventsAssumption
    <3>3. call \in DOMAIN Script
      BY DEF Init, Script
    <3> QED
      BY <3>1, <3>2, <3>3 DEF Init, TypeOK
  <2>2. Todo
    BY DEF Init, Todo, Script
  <2> QED
    BY <2>1, <2>2 DEF Init, EventsInv, InStep, NoLostWakeup, Taken, Stopping, CommandPlaces,
       PropertyPlaces, AwaitPlaces
<1>2. EventsInv /\ [Next]_vars => EventsInv'
  <2> SUFFICES ASSUME EventsInv, [Next]_vars PROVE EventsInv'
    OBVIOUS
  <2> QED
    BY BeginInv, CommandInv, PropertyInv, CodecInv, AwaitInv, OthersInv DEF Next, Library
<1> QED
  BY <1>1, <1>2, PTL DEF Spec

\* The variables keep their types: the decoder never has more commands queued than it has
\* room for, and the tries stay below the limit.
THEOREM EventsTypeCorrect == Spec => []TypeOK
<1>1. EventsInv => TypeOK
  BY DEF EventsInv
<1> QED
  BY <1>1, EventsHold, PTL

\* A command that send_video_command reports as done was executed, and nothing else is in
\* the decoder's queue: no event of an earlier command passes for its own, however the
\* calls follow one another, until a wait times out.
THEOREM DoneIsExecuted == Spec => []OkMeansExecuted
<1>1. EventsInv => OkMeansExecuted
  BY DEF EventsInv, InStep, OkMeansExecuted
<1> QED
  BY <1>1, EventsHold, PTL

\* No wait of send_video_command or set_property waits for an event that was reset after
\* the work it stands for was done.
THEOREM WaitsAreWoken == Spec => []NoLostWakeup
<1>1. EventsInv => NoLostWakeup
  BY DEF EventsInv
<1> QED
  BY <1>1, EventsHold, PTL

\* A property is set once, whatever the number of tries.
THEOREM PropertySetOnce == Spec => []SetOnce
<1>1. EventsInv => SetOnce
  BY CallsOf DEF EventsInv, Taken, SetOnce, PropertyPlaces
<1> QED
  BY <1>1, EventsHold, PTL

\* When DCCStopVideoSource returns RM_OK after the display took the stop, it is shown.
THEOREM StoppedIsShown == Spec => []StopIsShown
<1>1. EventsInv => StopIsShown
  BY DEF EventsInv, Stopping, StopIsShown
<1> QED
  BY <1>1, EventsHold, PTL

-----------------------------------------------------------------------------
(* Why every call returns. *)

LEMMA TodoLong ==
  ASSUME Todo, pc # "ready"
  PROVE  Len(todo) \in Nat /\ Len(todo) >= 1 /\ (Len(todo) > 1 => Len(Tail(todo)) < Len(todo))
<1>1. CASE \E a : todo = <<a>>
  BY <1>1
<1>2. CASE \E a, b : todo = <<a, b>>
  BY <1>2
<1>3. CASE \E a, b, c : todo = <<a, b, c>>
  BY <1>3
<1> QED
  BY <1>1, <1>2, <1>3 DEF Todo

LEMMA EndedNearer ==
  ASSUME Todo, pc # "ready", PartDone \/ PartFails
  PROVE  Nearer
<1>1. CASE todo' = <<>>
  BY <1>1, TodoLong DEF Nearer
<1>2. CASE Len(todo) > 1 /\ todo' = Tail(todo)
  BY <1>2, TodoLong DEF Nearer
<1> QED
  BY <1>1, <1>2, TodoLong DEF PartDone, PartFails, Return

LEMMA GotoNearer ==
  ASSUME Todo, pc # "ready", NEW place, Goto(place), tries' = tries, Left' < Left
  PROVE  Nearer
BY TodoLong DEF Goto, Nearer

LEMMA AgainNearer ==
  ASSUME Todo, pc # "ready", NEW place, Goto(place), tries \in Nat, tries' = tries + 1,
         tries + 1 < MaxTries, MaxTries \in Nat
  PROVE  Nearer
BY TodoLong DEF Goto, Nearer

LEMMA LibraryNearer ==
  ASSUME EventsInv, Library
  PROVE  Nearer
<1>0. Todo /\ tries \in Nat /\ MaxTries \in Nat
  BY EventsAssumption DEF EventsInv, TypeOK
<1>1. pc # "ready"
  BY DEF Library, CommandReset, CommandIssue, CommandAnswered, CommandTimesOut,
         CommandWaitFails, CommandState, PropertyReset, PropertySet, PropertyWait,
         PropertyAgain, CodecSet, AwaitReset, AwaitEvent
<1>2. CallFails => Nearer
  BY <1>0, <1>1, EndedNearer DEF CallFails
<1>3. CASE CommandReset
  BY <1>0, <1>1, <1>2, <1>3, GotoNearer DEF CommandReset, Goto, Left
<1>4. CASE CommandIssue
  BY <1>0, <1>1, <1>2, <1>4, GotoNearer DEF CommandIssue, Goto, Left
<1>5. CASE CommandAnswered
  BY <1>0, <1>1, <1>5, GotoNearer DEF CommandAnswered, Goto, Left
<1>6. CASE CommandTimesOut \/ CommandWaitFails \/ CommandState
  BY <1>0, <1>1, <1>2, <1>6, EndedNearer DEF CommandTimesOut, CommandWaitFails, CommandState
<1>7. CASE PropertyReset
  BY <1>0, <1>1, <1>2, <1>7, GotoNearer DEF PropertyReset, Goto, Left
<1>8. CASE PropertySet
  BY <1>0, <1>1, <1>2, <1>8, GotoNearer, EndedNearer DEF PropertySet, PropertyTaken, Goto, Left
<1>9. CASE PropertyWait
  BY <1>0, <1>1, <1>2, <1>9, GotoNearer DEF PropertyWait, Goto, Left
<1>10. CASE PropertyAgain
  BY <1>0, <1>1, <1>2, <1>10, AgainNearer, EndedNearer DEF PropertyAgain, PropertyTaken
<1>11. CASE CodecSet
  BY <1>0, <1>1, <1>2, <1>11, AgainNearer, EndedNearer DEF CodecSet
<1>12. CASE AwaitReset
  BY <1>0, <1>1, <1>2, <1>12, GotoNearer DEF AwaitReset, Goto, Left
<1>13. CASE AwaitEvent
  BY <1>0, <1>1, <1>2, <1>13, EndedNearer DEF AwaitEvent
<1> QED
  BY <1>3, <1>4, <1>5, <1>6, <1>7, <1>8, <1>9, <1>10, <1>11, <1>12, <1>13 DEF Library

\* Every step of send_video_command and of set_property brings its call nearer to the
\* return, whatever the decoder, the display and its other users do in between and whether
\* the waits end by the event, by the timeout or by an error: no call can go round for ever.
\* With the fairness of FairSpec this is why CallReturns holds.
THEOREM CallsGetNearer == Spec => [][Library => Nearer]_vars
<1>1. EventsInv /\ [Next]_vars => [Library => Nearer]_vars
  BY LibraryNearer
<1> QED
  BY <1>1, EventsHold, PTL DEF Spec

=============================================================================
