----------------------------- MODULE DccSources -----------------------------
(***************************************************************************)
(* The memory of the video and audio sources of libdcc: how                *)
(* DCCXOpenVideoDecoderSource and DCCOpenAudioDecoderSource get it, hand   *)
(* it to the decoders and to the engines the decoders share, and how       *)
(* DCCCloseVideoSource and DCCCloseAudioSource give it back.               *)
(*                                                                         *)
(* There is one MPEG engine, with one decoder per video source, and one    *)
(* audio engine.  The client makes one call at a time; what can go wrong   *)
(* is that any driver call of it fails, that memory runs out, or that a    *)
(* fatal signal ends the program in the middle and its exit handler closes *)
(* what it knows of, which may be what was just given back: see CrashTorn. *)
(***************************************************************************)
EXTENDS Naturals, Sequences, FiniteSets

CONSTANTS
  VideoSources, AudioSources,
  Blocks,      \* the memory RUAMalloc can give out, in blocks
  Private,     \* a decoder's own parts whose size is not 0, in the order they are got
  NeedsShared, \* the video sources whose decoder data size is 0: see Needed
  MaxFaults,   \* failing calls and crashes in a behaviour, a bound for TLC
  None         \* address 0

Sources == VideoSources \cup AudioSources
Parts == {Private[i] : i \in 1..Len(Private)}
Kinds == Parts \cup {"sched", "dec", "shm"}

ASSUME SourcesAssumption ==
  /\ VideoSources \cap AudioSources = {} /\ None \notin Blocks \cup Sources
  /\ IsFiniteSet(VideoSources) /\ NeedsShared \subseteq VideoSources
  /\ Private \in Seq(STRING) /\ Private # <<>>
  /\ \A i, j \in 1..Len(Private) : Private[i] = Private[j] => i = j
  /\ Parts \cap {"sched", "dec", "shm"} = {}
  /\ MaxFaults \in Nat

VARIABLES
  (* the driver *)
  alloc,    \* the blocks given out
  engine,   \* engine[k]: the engines' SchedulerSharedMemory, DecoderSharedMemory
            \* ("sched", "dec", of the MPEG engine) and that of the audio engine ("shm")
  uses,     \* uses[s]: the blocks decoder s works with, {} when it is closed
  (* the library and its client *)
  handle,   \* handle[s]: the source structure: "none", "bare" (no module ids), "bound"
  own,      \* own[s][p]: picprot, bitprot, unprot; mem1 and mem2
  cur,      \* the source the call in progress is about
  pc,       \* where that call is
  todo,     \* the parts it has still to get
  res,      \* res[k]: what it has got: struct DCCResource, the local variables
  faults,   \* failing calls and crashes so far
  (* history *)
  torn      \* a fatal signal came after memory was given back and before the pointer
            \* to it was reset

vars == <<alloc, engine, uses, handle, own, cur, pc, todo, res, faults, torn>>

Nothing == [k \in Kinds |-> None]
NoParts == [p \in Parts |-> None]
Shared == {"sched", "dec", "shm"}
Open(s) == uses[s] # {}
OwnBlocks(s) == {own[s][p] : p \in Parts} \ {None}

TypeOK ==
  /\ alloc \subseteq Blocks
  /\ engine \in [Shared -> Blocks \cup {None}]
  /\ uses \in [Sources -> SUBSET Blocks]
  /\ handle \in [Sources -> {"none", "bare", "bound"}]
  /\ own \in [Sources -> [Parts -> Blocks \cup {None}]]
  /\ cur \in Sources \cup {None} /\ (cur = None <=> pc = "idle")
  /\ res \in [Kinds -> Blocks \cup {None}]
  /\ pc = "idle" => \A s \in Sources : handle[s] # "bound" => own[s] = NoParts
  /\ faults \in 0..MaxFaults /\ torn \in BOOLEAN

Init ==
  /\ alloc = {}
  /\ engine = [k \in Shared |-> None]
  /\ uses = [s \in Sources |-> {}]
  /\ handle = [s \in Sources |-> "none"]
  /\ own = [s \in Sources |-> NoParts]
  /\ cur = None /\ pc = "idle" /\ todo = <<>> /\ res = Nothing
  /\ faults = 0 /\ torn = FALSE

-----------------------------------------------------------------------------
At(place) == pc = place
Goto(place) == pc' = place /\ UNCHANGED <<cur, todo, res>>
Fault == faults < MaxFaults /\ faults' = faults + 1
NoFault == UNCHANGED faults

Return == pc' = "idle" /\ cur' = None /\ todo' = <<>> /\ res' = Nothing

\* A driver call of the step at this place fails: the library returns at once.
CallFails == Fault /\ Return /\ UNCHANGED <<alloc, engine, uses, handle, own>>

\* RUAMalloc.
Malloc(b) == b \notin alloc /\ alloc' = alloc \cup {b}
NoMemory == (alloc = Blocks /\ NoFault) \/ Fault

\* RUAFree; a failure of it is only printed.
Free(b) ==
  \/ alloc' = alloc \ {b} /\ NoFault
  \/ Fault /\ UNCHANGED alloc

-----------------------------------------------------------------------------
(* DCCXOpenVideoDecoderSource *)

OpenVideo(v) ==
  /\ At("idle") /\ handle[v] = "none"
  /\ cur' = v
  /\ pc' = "vrequired"
  /\ UNCHANGED <<alloc, engine, uses, handle, own, todo, res, faults>>

\* Memory for the scheduler if the engine has none yet.  Memory to share among the
\* decoders is asked for by the decoder's data size being 0, whether or not the
\* engine has some.
Needed ==
  (IF engine["sched"] = None THEN <<"sched">> ELSE <<>>)
    \o (IF cur \in NeedsShared THEN <<"dec">> ELSE <<>>) \o Private

VideoRequired ==
  /\ At("vrequired")
  /\ \/ /\ todo' = Needed
        /\ pc' = "valloc"
        /\ UNCHANGED <<alloc, engine, uses, handle, own, cur, res, faults>>
     \/ CallFails

VideoAlloc ==
  /\ At("valloc")
  /\ \E b \in Blocks : Malloc(b) /\ res' = [res EXCEPT ![Head(todo)] = b]
  /\ todo' = Tail(todo)
  /\ pc' = IF Len(todo) = 1 THEN "vsource" ELSE "valloc"
  /\ UNCHANGED <<engine, uses, handle, own, cur, faults>>

\* RM_FATALOUTOFMEMORY, and what was got before is not given back.
AllocFails ==
  /\ pc \in {"valloc", "amem"}
  /\ NoMemory
  /\ Return
  /\ UNCHANGED <<alloc, engine, uses, handle, own>>

\* The structure is handed to the client before anything else can fail.
VideoSource ==
  /\ At("vsource")
  /\ \/ /\ handle' = [handle EXCEPT ![cur] = "bound"]
        /\ own' = [own EXCEPT ![cur] = NoParts]
        /\ Goto("vsched") /\ NoFault
     \/ /\ handle' = [handle EXCEPT ![cur] = "bare"]
        /\ own' = [own EXCEPT ![cur] = NoParts]
        /\ Return /\ Fault
     \/ Return /\ Fault /\ UNCHANGED <<handle, own>>
  /\ UNCHANGED <<alloc, engine, uses>>

SetShared(k) ==
  IF res[k] = None THEN UNCHANGED engine ELSE engine' = [engine EXCEPT ![k] = res[k]]

VideoSetScheduler ==
  /\ At("vsched")
  /\ \/ /\ SetShared("sched")
        /\ Goto("vdec")
        /\ UNCHANGED <<alloc, uses, handle, own, faults>>
     \/ res["sched"] # None /\ CallFails

\* ... and then the source takes over its own parts.
VideoSetDecoder ==
  /\ At("vdec")
  /\ \/ /\ SetShared("dec")
        /\ own' = [own EXCEPT ![cur] = [p \in Parts |-> res[p]]]
        /\ Goto("vopen")
        /\ UNCHANGED <<alloc, uses, handle, faults>>
     \/ res["dec"] # None /\ CallFails

\* DecoderDataMemory and OpenX.  The driver refuses to open an open decoder.
VideoOpen ==
  /\ At("vopen")
  /\ \/ /\ ~Open(cur)
        /\ uses' = [uses EXCEPT ![cur] =
                      OwnBlocks(cur) \cup ({engine["sched"], engine["dec"]} \ {None})]
        /\ Goto("vsurface")
        /\ UNCHANGED <<alloc, engine, handle, own, faults>>
     \/ Open(cur) /\ Return /\ UNCHANGED <<alloc, engine, uses, handle, own, faults>>
     \/ CallFails

VideoSurface ==
  /\ At("vsurface")
  /\ \/ Return /\ UNCHANGED <<alloc, engine, uses, handle, own, faults>>
     \/ CallFails

-----------------------------------------------------------------------------
(* DCCCloseVideoSource *)

CloseVideo(v) ==
  /\ At("idle") /\ handle[v] # "none"
  /\ cur' = v
  /\ pc' = IF handle[v] = "bound" THEN "cdecoder" ELSE "cparts"
  /\ UNCHANGED <<alloc, engine, uses, handle, own, todo, res, faults>>

\* The scaler lets go of the surface and the decoder is closed.
CloseDecoder ==
  /\ pc \in {"cdecoder", "bdecoder"}
  /\ \/ /\ uses' = [uses EXCEPT ![cur] = {}]
        /\ Goto(IF pc = "cdecoder" THEN "cparts" ELSE "bshm")
        /\ UNCHANGED <<alloc, engine, handle, own, faults>>
     \/ CallFails

\* The first of the source's own parts that is not freed yet.
Comes(i) ==
  /\ own[cur][Private[i]] # None
  /\ \A j \in 1..i-1 : own[cur][Private[j]] = None

\* The source's own parts one after the other: RUAFree, and the field is reset.  (Only a
\* fatal signal comes between the two: see CrashTorn.)
FreePart ==
  /\ pc \in {"cparts", "bparts"}
  /\ \E i \in 1..Len(Private) :
       /\ Comes(i)
       /\ Free(own[cur][Private[i]])
       /\ own' = [own EXCEPT ![cur][Private[i]] = None]
  /\ UNCHANGED <<engine, uses, handle, cur, pc, todo, res>>

PartsFreed ==
  /\ At("cparts") /\ OwnBlocks(cur) = {}
  /\ Goto(IF handle[cur] = "bound" THEN "ccount" ELSE "cend")
  /\ UNCHANGED <<alloc, engine, uses, handle, own, faults>>

ConnectedTaskCount == Cardinality({v \in VideoSources : Open(v)})

\* Faulty (not part of the specification): the count is not looked at.
CountIgnored ==
  /\ At("ccount")
  /\ Goto("cdec")
  /\ UNCHANGED <<alloc, engine, uses, handle, own, faults>>

\* Faulty: the memory is kept for a next source that may never come.
CountNeverZero ==
  /\ At("ccount")
  /\ Goto("cend")
  /\ UNCHANGED <<alloc, engine, uses, handle, own, faults>>

\* Only the last source gives the engine's memory back.
CloseCount ==
  /\ At("ccount")
  /\ \/ /\ Goto(IF ConnectedTaskCount = 0 THEN "cdec" ELSE "cend")
        /\ UNCHANGED <<alloc, engine, uses, handle, own, faults>>
     \/ CallFails

\* The memory k of an engine, if it has some, is taken away from it, to be freed
\* at the place next.
TakeShared(k, next, skip) ==
  \/ /\ engine[k] # None
     /\ res' = [res EXCEPT ![k] = engine[k]]
     /\ engine' = [engine EXCEPT ![k] = None]
     /\ pc' = next
     /\ UNCHANGED <<alloc, uses, handle, own, cur, todo, faults>>
  \/ /\ engine[k] = None
     /\ Goto(skip)
     /\ UNCHANGED <<alloc, engine, uses, handle, own, faults>>
  \/ CallFails

FreeShared(k, next) ==
  /\ Free(res[k])
  /\ res' = [res EXCEPT ![k] = None]
  /\ pc' = next
  /\ UNCHANGED <<engine, uses, handle, own, cur, todo>>

TakeDecoder == At("cdec") /\ TakeShared("dec", "cdecfree", "csched")
FreeDecoder == At("cdecfree") /\ FreeShared("dec", "csched")
TakeScheduler == At("csched") /\ TakeShared("sched", "caddress", "cend")
FreeScheduler == At("cschedfree") /\ FreeShared("sched", "cend")

\* RUASetAddressID: if it fails the memory, no longer known to the engine, is not
\* freed.
ForgetAddress ==
  /\ pc \in {"caddress", "baddress"}
  /\ \/ /\ Goto(IF pc = "caddress" THEN "cschedfree" ELSE "bshmfree")
        /\ UNCHANGED <<alloc, engine, uses, handle, own, faults>>
     \/ CallFails

\* Faulty: the audio source's own parts are not waited for.
CloseEndsEarly ==
  /\ pc \in {"cend", "bparts"}
  /\ handle' = [handle EXCEPT ![cur] = "none"]
  /\ Return
  /\ UNCHANGED <<alloc, engine, uses, own, faults>>

\* RM_OK: the structure is gone, and the client resets its pointer to it.  (Between the
\* two: see CrashTorn.)
CloseEnds ==
  /\ pc \in {"cend", "bparts"}
  /\ OwnBlocks(cur) = {}
  /\ handle' = [handle EXCEPT ![cur] = "none"]
  /\ Return
  /\ UNCHANGED <<alloc, engine, uses, own, faults>>

-----------------------------------------------------------------------------
(* DCCOpenAudioDecoderSource *)

OpenAudio(a) ==
  /\ At("idle") /\ handle[a] = "none"
  /\ cur' = a
  /\ pc' = "aengine"
  /\ UNCHANGED <<alloc, engine, uses, handle, own, todo, res, faults>>

\* The queries, up to the engine's shared memory.
AudioEngine ==
  /\ At("aengine")
  /\ \/ /\ pc' = IF engine["shm"] = None THEN "ashm" ELSE "amem"
        /\ todo' = Private
        /\ UNCHANGED <<alloc, engine, uses, handle, own, cur, res, faults>>
     \/ CallFails

\* It gets some if it has none; that RUAMalloc failed is not noticed.
AudioShared ==
  /\ At("ashm")
  /\ \/ /\ \E b \in Blocks : Malloc(b) /\ res' = [res EXCEPT !["shm"] = b]
        /\ NoFault
     \/ NoMemory /\ UNCHANGED <<alloc, res>>
  /\ pc' = "asetshm"
  /\ UNCHANGED <<engine, uses, handle, own, cur, todo>>

AudioSetShared ==
  /\ At("asetshm")
  /\ \/ /\ engine' = [engine EXCEPT !["shm"] = res["shm"]]
        /\ Goto("amem")
        /\ UNCHANGED <<alloc, uses, handle, own, faults>>
     \/ CallFails

AudioAlloc ==
  /\ At("amem")
  /\ \E b \in Blocks : Malloc(b) /\ res' = [res EXCEPT ![Head(todo)] = b]
  /\ todo' = Tail(todo)
  /\ pc' = IF Len(todo) = 1 THEN "aopen" ELSE "amem"
  /\ UNCHANGED <<engine, uses, handle, own, cur, faults>>

\* The structure is handed to the client at the very end, and lost when Open fails.
AudioOpen ==
  /\ At("aopen")
  /\ \/ /\ ~Open(cur)
        /\ own' = [own EXCEPT ![cur] = [p \in Parts |-> res[p]]]
        /\ uses' = [uses EXCEPT ![cur] = ({res[p] : p \in Parts} \cup {engine["shm"]}) \ {None}]
        /\ handle' = [handle EXCEPT ![cur] = "bound"]
        /\ Return
        /\ UNCHANGED <<alloc, engine, faults>>
     \/ Open(cur) /\ Return /\ UNCHANGED <<alloc, engine, uses, handle, own, faults>>
     \/ CallFails

\* Faulty: the memory is freed before the decoder is closed.
CloseAudioEarly(a) ==
  /\ At("idle") /\ handle[a] # "none"
  /\ cur' = a
  /\ pc' = "bshm"
  /\ UNCHANGED <<alloc, engine, uses, handle, own, todo, res, faults>>

(* DCCCloseAudioSource.  ConnectedTaskCount is read and not looked at:        *)
(* reserved1C is 1 in every source, so the first one that is closed frees the *)
(* memory the audio decoders share.                                           *)

CloseAudio(a) ==
  /\ At("idle") /\ handle[a] # "none"
  /\ cur' = a
  /\ pc' = "bdecoder"
  /\ UNCHANGED <<alloc, engine, uses, handle, own, todo, res, faults>>

TakeAudio == At("bshm") /\ TakeShared("shm", "baddress", "bparts")
FreeAudio == At("bshmfree") /\ FreeShared("shm", "bparts")

-----------------------------------------------------------------------------
\* A client that could not close a source forgets it: cleanup sets its pointer to
\* NULL whatever the call returned.
Forget(s) ==
  /\ At("idle") /\ handle[s] # "none" /\ faults > 0
  /\ handle' = [handle EXCEPT ![s] = "none"]
  /\ own' = [own EXCEPT ![s] = NoParts]
  /\ UNCHANGED <<alloc, engine, uses, cur, pc, todo, res, faults>>

\* signalcleanup: the call ends where it is, and cleanup runs from exit.
Crash ==
  /\ ~At("idle")
  /\ CallFails

\* The same, between the RUAFree of a part and the reset of its field, or between the free
\* of a video source's structure and the reset of the client's pointer to it: the source
\* is closed again as it was, with an address or a structure that is no longer its own.
CrashTorn ==
  /\ \/ /\ pc \in {"cparts", "bparts"}
        /\ \E i \in 1..Len(Private) :
             Comes(i) /\ alloc' = alloc \ {own[cur][Private[i]]}
     \/ At("cend") /\ UNCHANGED alloc
  /\ Fault /\ Return
  /\ torn' = TRUE
  /\ UNCHANGED <<engine, uses, handle, own>>

VideoStep ==
  \/ \E v \in VideoSources : OpenVideo(v) \/ CloseVideo(v)
  \/ VideoRequired \/ VideoAlloc \/ AllocFails \/ VideoSource
  \/ VideoSetScheduler \/ VideoSetDecoder \/ VideoOpen \/ VideoSurface
  \/ CloseDecoder \/ FreePart \/ PartsFreed \/ CloseCount
  \/ TakeDecoder \/ FreeDecoder \/ TakeScheduler \/ ForgetAddress \/ FreeScheduler
  \/ CloseEnds

AudioStep ==
  \/ \E a \in AudioSources : OpenAudio(a) \/ CloseAudio(a)
  \/ AudioEngine \/ AudioShared \/ AudioSetShared \/ AudioAlloc \/ AudioOpen
  \/ TakeAudio \/ FreeAudio

CallStep == VideoStep \/ AudioStep \/ Crash \/ \E s \in Sources : Forget(s)

Next == (CallStep /\ UNCHANGED torn) \/ CrashTorn

Spec == Init /\ [][Next]_vars

-----------------------------------------------------------------------------
(* Properties *)

\* No open decoder works with memory that was given back: its parts and the engine's
\* memory are freed after it is closed, and the engine's only by the last one.
UsedIsAllocated == \A s \in Sources : uses[s] \subseteq alloc

\* No block is freed twice, though a close that failed half-way may be made again:
\* the addresses the sources, the engines and the call in progress still know are
\* of blocks given out, and no two of them are of the same one.
FreedOnce ==
  /\ \A s \in Sources : OwnBlocks(s) \subseteq alloc
  /\ \A s \in Sources : \A p, q \in Parts : own[s][p] = own[s][q] /\ own[s][p] # None => p = q
  /\ \A s, t \in Sources : s # t => OwnBlocks(s) \cap OwnBlocks(t) = {}
  /\ \A k \in Shared : engine[k] # None =>
       engine[k] \in alloc /\ \A s \in Sources : engine[k] \notin OwnBlocks(s)
  /\ \A k, l \in Shared : engine[k] = engine[l] /\ engine[k] # None => k = l

\* Both, whatever call fails and wherever a signal ends a call but in the two windows of
\* CrashTorn: no block is used or given back after it was given back.  (In those windows
\* the code does give back twice.  For audio this needs that there is one source: see
\* DCCCloseAudioSource.)
MemorySafe == ~torn => UsedIsAllocated /\ FreedOnce

\* The engines have memory exactly while they have sources.
SharedWhileUsed ==
  /\ engine["sched"] # None <=> \E v \in VideoSources : handle[v] # "none"
  /\ engine["shm"] # None <=> \E a \in AudioSources : handle[a] # "none"

\* As long as nothing fails, no memory is lost over any sequence of opens and
\* closes: between the calls every block belongs to a source or an engine, and to an
\* engine only while it has a source.
NoLeak ==
  faults = 0 /\ pc = "idle" =>
    /\ alloc = (UNION {OwnBlocks(s) : s \in Sources}) \cup ({engine[k] : k \in Shared} \ {None})
    /\ SharedWhileUsed

\* What the call in progress has got, or taken from an engine, and nobody else knows of.
FreshKinds ==
  IF pc \in {"valloc", "vsource", "vsched", "asetshm"} THEN Kinds
  ELSE IF pc = "vdec" THEN Kinds \ {"sched"}
  ELSE IF pc \in {"amem", "aopen"} THEN Parts
  ELSE IF pc = "cdecfree" THEN {"dec"}
  ELSE IF pc \in {"caddress", "cschedfree"} THEN {"sched"}
  ELSE IF pc \in {"baddress", "bshmfree"} THEN {"shm"}
  ELSE {}
InTransit == {res[k] : k \in FreshKinds} \ {None}
EngineBlocks(k) == {engine[k]} \ {None}
Serving(s) == IF s \in VideoSources THEN {"sched", "dec"} ELSE {"shm"}

Custody == INSTANCE MemoryCustody WITH
  Engines <- Shared,
  Serves <- [s \in Sources |-> Serving(s)],
  given <- alloc,
  hand <- InTransit,
  has <- [s \in Sources |-> OwnBlocks(s)],
  common <- [k \in Shared |-> EngineBlocks(k)],
  work <- uses

\* All that happens to a block, over failed opens, half closes and crashes: it is got by a
\* call, handed on, worked with by decoders of its keeper, taken back when none of them
\* works with it, and given back once by its only keeper; or it is lost for good.  A crash
\* in one of the windows of CrashTorn is where that ends.  (As MemorySafe, this needs one
\* audio source at most.)
ImplementsCustody == Custody!Spec

=============================================================================
