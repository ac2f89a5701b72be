# Verification of smp86xxsdk

TLA+ models of the SMP8634/SMP8635 SDK: the libraries `librua`, `libllad` and `libdcc`,
and the programs built on them. TLC checks the models on small instances. TLAPS proves
every safety property of every model for all values of the constants: the buffer pool for
any number of buffers, streams and chunks, the players for any file and configuration,
the areas, sources, events and surfaces for any sizes and counts, the programs from `main`
to `exit` for any number of failures and signals. Liveness under fairness stays with TLC.
`PROJECT.json` names, for every definition, the lines of the source it stands for, and for
every property a plausible mistake in the code that would break it.

## The system

A player opens the device (`RUACreateInstance`), a clock (`DCCSTCOpen`), a video and an
audio source (`DCCXOpenVideoDecoderSource`, `DCCOpenAudioDecoderSource`), and a pool of
DMA buffers (`RUAOpenPool`). It copies the streams into buffers and sends them to the
decoders (`RUASendData`), starts the clock when enough is buffered, stops at the end or
on a signal, and closes everything in `cleanup`, which runs after a failure, at the end of
`main` and again from `exit`. `smptest` draws pictures of its own on the display (OSD
sources). All libraries are called by one thread, which a signal may interrupt. What runs
beside it is the kernel driver with the decoders and the display; it is not part of the
repository, and is modelled from what the libraries rely on (marked external).

| Part | State it keeps | Operations | Talks to |
| --- | --- | --- | --- |
| `libllad/llad.c`, DMA pool | a mapping; the driver keeps a reference count per buffer | `dmapool_open/close/get_buffer/acquire/release/flush_cache` | the driver, by ioctl |
| `libllad/llad.c`, areas | `struct GBUS`: a table of mapped areas | `gbus_open/close/lock_area/unlock_region/map_region/unmap_region` | the driver, `mmap` |
| `librua/rua.c`, buffers | `struct RUABufferPool` | `RUAOpenPool`, `RUAGetBuffer`, `RUASendData`, `RUAReleaseBuffer`, `RUAClosePool` | the DMA pool, the decoders |
| `librua/rua.c`, instance | `struct RUA`: the two devices | `RUACreateInstance`, `RUADestroyInstance` | `libllad` |
| `librua/rua.c`, properties | none | `RUASetProperty`, `RUAGetProperty`, `RUAResetEvent`, `RUAWaitForMultipleEvents`, `RUAMalloc`, `RUAFree`, `RUALock/Map/UnMap/UnLock` | the driver |
| `libdcc/dcc.c`, sources | `struct DCCVideoSource`, `struct DCCAudioSource`; the engines keep the shared memory | open, close, play, stop, codec | properties and events of `librua` |
| `libdcc/dcc.c`, display | in each OSD source: its surface, `pic_info`, the scaler it was set on and that scaler's mixer source | `DCCOpenOSDVideoSource`, `DCCOpenMultiplePictureOSDVideoSource`, `DCCSetSurfaceSource`, `DCCEnableVideoSource`, `DCCInsertPicture...`, `DCCClearOSDPicture` with `set_memory`, `DCCCloseVideoSource` | properties, `RUAMalloc`, areas |
| `libdcc/dcc.c`, STC, set-up, codec parameters | `struct DCC`, `struct DCCSTCSource`: an engine each | `DCCOpen/Close`, `DCCInitMicroCodeEx`, `DCCSTCOpen/Close`; the rest is one property each | properties |
| `samples/playrawmp4` | positions, kept buffers, audio accounting, `playing`, `stopped` | `transfer_data`, `play_video`, `cleanup`, `signalhandler` | all of the above |
| `samples/playmp4` | the flags `playing`, `paused`, `stopped`, `started`, `jump`, `ending`, the times played, buffered and jumped to | `play_mp4_video`, packet writers, `get_key`, `check_jump` | all of the above, `librcc`, ffmpeg |
| `samples/plaympeg` | the same pointers, a demux task, ciphers, one stream | set-up, the loop of `playrawmp4` for one stream, `cleanup` | demux calls `libdcc` does not implement, so it never gets to its loop |
| `samples/smptest` | none | a straight line through the OSD calls | `libdcc` |
| `librcc`, `liboslayer` | none | a device file; wrappers of libc | |

What is hard here, and hard to test:

- Buffers change hands between the player and the decoders with every step. A send takes
  a reference the driver gives back later, or which the refused path must give back;
  `RM_PENDING` keeps the buffer over the call; the two streams share the pool.
- The loop may starve itself: audio and video compete for buffers while decoders that do
  not play yet take nothing.
- `playmp4` obeys keys at several places of its loop, among pauses, jumps, rebuffering and
  the wait for the end, with half a dozen flags about one clock.
- A signal may arrive anywhere. So may a failing ioctl, and the error paths differ.
- Events are flags and not counts, waits have timeouts, and properties are refused while
  the display is busy.
- Memory is owned by sources, shared by engines and freed by the last one; opens and
  closes fail half-way and are repeated.
- The area table has a fixed size and finds mappings by comparing addresses.
- `cleanup` is run two or three times in the life of a program, after a failure and from
  `exit`, and a fatal signal may start it in the middle of an open, a close or itself. All
  it has to go by are pointers that are NULL or not.
- The open of an OSD source has ten places to fail, some after which memory is given back
  and some after which it is kept; a surface is shown by the chip beyond the call; the
  pictures' places are computed from sizes the driver answers.

What makes each part correct: the pool never gives out a buffer somebody uses and loses none;
the decoders see their files in order; a retry sends what it should; the clock runs when the
flags say so; the player ends; a command's completion is its own and calls return; memory in
use is not freed, nothing is freed twice, nothing leaks; a filled range does not stay mapped,
nor locked while no call fails; the display shows only memory that is given out and whose
source can take it off, and drawing stays inside its picture; a program gives back what it
opened, closes nothing twice, and ends when asked to. The list of hazards in `PROJECT.json`
names for each the property that covers it, or why none does.

## The modules

**RuaPool** is the core. The driver's side is the reference counts `refs`, the transfer
queues `queue`, the memory the decoders see (`dram`) and what they consumed (`played`);
the player's side is what it wrote (`cache`), the buffers kept in `videobuffer` and
`audiobuffer` (`held`), the chunks counted as `transferred`, and a program counter.
Each ioctl of `transfer_data`, `RUAGetBuffer`, `RUASendData` and `RUAReleaseBuffer` is an
action, because decoders consume between any two of them; each has its failing
variant. A chunk is a stream and a position; `cache` and `dram` differ between the
`memcpy` and the flush. Buffers keep their old content when they are freed, so stale
data would be seen. Which stream is served next is left open here.
`FlushMayFail` says whether the failing call may be the cache flush: the code only prints
that failure, so nothing can be promised about the data then.

**StreamDelivery** is the abstract specification: per stream a bounded, ordered channel
of chunks that is sent, played and finally stopped. `RuaPool` implements it
(`ImplementsDelivery`) with `sent` as `transferred`; buffers, references, retries and the
cache disappear.

**RawPlayer** extends `RuaPool` by the loop of `playrawmp4`: which stream is served when,
the accounting of audio (`avalue`, `vvalue`, `vafactor`, in bytes, with the clamps), the
start of playing, the three tests of `stopped`, the way out. `vafactor` divides by the
audio size, which cannot be 0 because `mmap` of an empty file fails.

**GbusAreas** models the table of `struct GBUS` and the calls `RUALock`, `RUAMap`,
`RUAUnMap`, `RUAUnLock` over it, as `set_memory` makes them to fill one range after the
other. Addresses keep their offset in the page, as the comparison in
`gbus_unmap_region` depends on it. `aligned` is a history variable: the properties that
fail for ranges on a page boundary are stated for histories without one.

**DccEvents** models `send_video_command` and `set_property` step by step against a
decoder that executes commands in order and a display that takes one property at a time
and has other users. The calls (play, step, stop with and without a scaler, codec) are
scripts of these parts and of the final wait of `DCCStopVideoSource`.

**DccSources** models how sources get and give back memory, one driver call per action,
with failures and crashes anywhere: the engine's scheduler memory, the decoder's shared
memory, the audio engine's memory, and the parts of each source. A part is freed and its field
reset in one step, as is a video source's structure and the client's pointer to it; only a
fatal signal comes between the two, and that is a step of its own (`CrashTorn`). The exit
handler then closes the source once more with an address that is no longer its own, so
`torn` records it, and the properties promise nothing from there on.

**MemoryCustody** is the abstract specification of it: every block that is given out has one
keeper, a source, an engine or the call in progress, a decoder starts with memory of its
source and its engines only, and a block is given back by its only keeper, when no decoder
works with it; or it is lost for good. A crash that tears a giving back is a step of its own
(`Tear`), after which nothing is promised. `DccSources` implements it (`ImplementsCustody`): what
the call in progress keeps depends on its place (`FreshKinds`); which calls the driver sees,
in which order and which failure loses what, disappear.

**Mp4Player** models `playmp4` from the pool it opens to the pool it closes: the loop of
`play_mp4_video` with its tests in their order, `get_key`, `check_jump`, `start_play`, the
packet writers, and the way out of `play_video`. `context` is the record of the flags and times
of `app_rua_context_t`; the hardware is the clock (`running`, `stc`) and the packets each
decoder has not taken (`queued`). Every driver call is a step, since the clock, the decoders
and signals go on between them; what lies between two calls belongs to the step before or
after. A packet is written in one step: `transfer_data` is the protocol of `RuaPool`, get,
copy, send, release with the buffer kept over `RM_PENDING`, and what counts here is whether
there is room. A failing call whose caller cleans up ends the program (`GiveUp`); one that is
only printed changes nothing but the count of failures. Times are ticks of `VIDEO_TIME_RES`, of
which a frame lasts several (`FrameTime`): the wait for the end lasts one tick longer than the
last packet read, not one frame. A file is a sequence of packets in the order they are read,
not of their times.

**Session** is the life of the three players from `main` to `exitcleanup`. Each function is a
sequence of steps in the order of its library calls (`VideoInit`, `SetVideo`, `DemuxConfigure`,
`RawCleanup`, ...): open a handle, use some, close one. The actions say what a step does: an
open or a close has two halves, as the device is opened and the pointer set (or the structure
freed and the pointer reset) at different moments and a fatal signal may come between; `Fails`
is the failure path of each place, which is another one in each program; `CleanupDone` returns
to `exit`, to `main`, which cleans up again, or into `playmp4`, which goes on: a failed
transfer has cleaned up and only breaks off the loop of `play_mp4_video`, which may then start
to play a very small video with what is not there any more (place `last`), fail, clean up and
return to `play_video`, which goes its way out and may fail and clean up again, before `main`
does and then `exit`. A `playmp4` whose clock could not be started may never leave
`write_video_packet`: it is `hung`. `ctx` are the pointers that are not NULL, `live` the
structures, `hw` the devices the driver holds open. What is transferred belongs to `RawPlayer`
and `Mp4Player`.

**Display** models OSD sources over the chip's memory: `size` is what `RUAMalloc` gave out,
`content` what was written where, `shown`, `enabled` and `fifo` what the display refers to;
`surface`, `scaler`, `mixer`, `profile` and `pics` are the fields of `struct DCCVideoSource`. A
call is a step, since there is one client, and its disjuncts are the places where it can fail
with what was done by then. A source may be set on a second scaler, also after a half-way
failure, and `DCCInsertPicture...` takes any index (`Stray`). `left` is a history variable: the
scalers that still show a source set on another one since. Sizes and addresses are numbers, so
that overlaps show. The client is `smptest`, whose calls are made here in any order a client
may.

**RuaPoolProofs**, **RawPlayerProofs**, **Mp4PlayerProofs**, **GbusAreasProofs**,
**DccEventsProofs**, **DccSourcesProofs**, **SessionProofs** and **DisplayProofs** hold the
theorems. The `MC*` modules give the constants. Some modules define operators marked *faulty*
before an action: they are that action with a plausible mistake, no part of any specification,
and are there to see that a property finds the mistake.

## The runs

| Run | Shows | Bounds |
| --- | --- | --- |
| `MCRuaPool` | type, reference counts, leaks, single ownership, retries, no cleanup without a fault, queued buffers are not written | 2 streams of 3 and 2 chunks, 3 buffers, queues of 2, one failing call (the flush included) |
| `MCRawPlayer` | both files reach the decoders in order, as `StreamDelivery` asks; audio's share; the player ends, with the pool closed | 10 bytes of video, 3 of audio, buffers of 2 bytes, 4 buffers, queues of 3, prebuffer 4 bytes, one failing call (not the flush), a signal anywhere |
| `MCGbusAreas` | repeated fills succeed, leave nothing mapped, return their locks; whatever is mapped is in the table | 3 slots, pages of 4 units, 4 pages to map, ranges of 1 and 2 pages that begin inside a page and on its boundary, 2 failing calls |
| `MCGbusBoundary` | *violated*: a range on a page boundary is never unmapped | no failing call |
| `MCDccEvents` | completions are the call's own, no wait without something to end it, properties are set once, a stop is shown, every call returns | the 5 tries of the source, 2 queued commands |
| `MCDccVideos` | nothing in use freed, nothing freed twice (up to a crash in the windows of `CrashTorn`), nothing lost, shared memory exactly while used | 2 video sources, 2 own parts each, 6 blocks, 3 failures or crashes |
| `MCDccMixed` | each step moves memory as `MemoryCustody` allows (up to such a crash), nothing lost: with shared decoder memory and an audio source | 1 video and 1 audio source, 7 blocks, 2 failures or crashes |
| `MCMp4Player` | flags and clock agree, no packet missed, decoders stopped only when every frame has come up, a pause bounds the buffer | 8 packets (4 video, two out of order, 3 audio, 1 other), frames of 2 ticks, start at 0 or 4, buffer times 4, 2 and 1, a jump of 4, a clock up to 9, room for 3 video and 1 audio packet, all keys and a signal any number of times, one failing call |
| `MCMp4PlayerLive` | the player ends, stop is obeyed | the same without a failing call |
| `MCSession` | no structure used after it was freed, no NULL pointer passed but in three known places, every device closed at the end, no step but a round of the loop leads away from the end, a stop signal ends a program that does not hang | all three players, 3 failing calls and fatal signals anywhere, a stop signal anywhere |
| `MCDisplay` | no structure's surface is memory given back, none is shown, a closed source is off the scaler it was set on last, headers stay intact, drawing stays in one picture | 2 sources, OSD of one picture and multiple pictures of two, of 2 units behind a header of 1, one picture queued, memory for one surface and a half or two small ones, 3 scalers (one unknown to `DCCSetSurfaceSource`), 2 failing calls |
| `MCMp4Flag` | *violated*: `playing` does not say whether video plays after a jump at the end | key up, no failing call |

Why the bounds are enough: three buffers for two streams with queues of two make each of "pool
empty", "one queue full", "both streams keep a buffer" and "buffer reused with old data in it"
happen; 10 and 3 bytes with buffers of 2 give a short last chunk of audio and a `vafactor` that
is rounded down; four buffers and queues of three are the smallest in which the prebuffer of
two buffers fits, audio can be in the way, and the queue is not what stops video. Three slots
are one more than the largest range has pages, so the table is full after one map as in the
code and has stale entries after it. Six blocks are what two sources need, so memory runs out
only after a failure has leaked some. One failing call is enough for each error path; where
paths can follow each other (a close made again, sources that failed before) there are two or
three. The file of `playmp4` is longer than `max_buffer_time`, so that a pause fills the
buffer, has frames on both sides of where a jump goes, and ends out of order, and the audio
queue of one packet makes `write_audio_packet` wait. Frames of two ticks tell "a tick beyond
the end" from "a frame beyond the end". The clock ends a tick after the file. Jumps past the
end happen too. Three failures and fatal signals let a cleanup after a failure be cut off by a
signal and the one from `exit` meet a close that fails; each program is a line of calls, so
nothing else is bounded. Two pictures and two sources are what it takes for one to be written
over another; two failing calls, for an open whose way back fails as well. Memory runs out in
all larger cases. Symmetry is used on blocks and on the sources of `Display`, never in a run
with a liveness property; `OnePictureAtATime` is an action property, the same for all sources.
`CHECK_DEADLOCK FALSE` is set where the program ends (the players) or stops making calls after
an error (`set_memory`).

## Fairness

The player polls and never blocks, so in `RawFairSpec` its steps are weakly fair; the kernel
call it makes always returns. A decoder consumes fairly only while `playing`: before the clock
runs it may sit on its queue, and that is when the loop could starve. `PlayerFinishes` (the
pool is closed in the end) therefore depends on queues and pool being deep enough for
`VID_PRE_BUFFER_SIZE`, as they are in the source (64 buffers, queues of 1024 transfers), and on
audio keeping to its share; with the share dropped (its mutant) the audio takes the buffers and
the run finds the loop spinning for ever. In `Mp4Player` the player is weakly fair for the same
reason, a running clock goes on, and a decoder takes a packet when its time has come; no key
and no signal is ever owed. `PlayerEnds` asks in return that the user does not leave the player
paused, that no call has failed, as a clock that could not be started is not tried again, and
that no jump and pause meet in the wait for the end (see the findings). `StopHeeded` needs a
decoder that holds `max_buffer_time` of video, because `write_video_packet`, unlike
`write_audio_packet`, does not look at `stopped`. In `Session` the program's steps are weakly
fair but for those of a loop nobody has stopped, which may go round for ever; no failure,
signal or end of file is owed. Steps that fail are left out of the fairness, so that nothing is
ended by a failure that need not come. A `playmp4` that hangs has no steps left, and `StopEnds`
excepts it: `write_video_packet` does not look at `stopped`, and with a clock whose start
failed (`playmp4.c:238`) the decoder takes nothing any more. In `DccEvents` a call in progress
is weakly fair, since each wait has a timeout of one second; nothing is asked of the decoder or
the display.

## What is proved

For every set of buffers and streams, all lengths, queue depths and numbers of faults
(`PoolAssumption`), and about `Spec` of `RuaPool`:

- `TypeCorrect`: the types; reference counts stay natural numbers.
- `OwnershipSafe`: `RefsCoverOwners`, `NoLeak` and `OneOwner`; `CountsCoverUses` and
  `NothingLost` state the first two by themselves.
- `RetrySound`: a kept buffer holds the chunk after the last one transferred.
- `InOrder`: `PlayedInOrder`.
- `CleanupJustified`: the player gives up only after a driver call failed.
- `QueuedBuffersUntouched`: the action property on queued buffers.
- `PoolImplementsDelivery`: the refinement, if flushes do not fail.

and for the loop of `playrawmp4`: `RawPlayerIsPlayer` (each of its behaviours is one of
`RuaPool`) and with it `RawPlayerSafe`, the results above for the loop; and, for all sizes of
the files and of the buffers (`RawAssumption`), `ShareKept`, which states `AudioWithinShare`.

The argument: none of the properties is inductive. The inductive invariant about
ownership (`OwnInv`) says for every buffer how many references its users account for:
the player's kept pointer, a send in progress, a place in a queue; that the count is at
least this sum, and equal to it while nothing failed; that kept buffers are distinct,
queued buffers are distinct, and the two overlap only between an accepted send and the
release. `RUAGetBuffer` takes a buffer with count 0, so nobody uses it. From there the
invariant about data (`DataInv`) says that a kept buffer's `cache` and, once flushed, its
`dram` are the next chunk of its stream, and that the queue of a stream holds, in order,
the chunks between those played and those transferred. `CopyChunk` and `FlushCache` write
a buffer that by `OwnInv` no queue holds. `InOrder` follows since a decoder reads the
head of its queue.

The loop's own invariants: `Places` ties the place in the loop to the place in the pool.
`ShareInv` says that `avalue`
and `vvalue` are those of the audio chunks transferred, or of one fewer between an accepted
send and the next look at it (`Accounts`). That this keeps the share is arithmetic:
`vafactor` is rounded down by less than one byte of video per buffer (`FactorBounds`), and all
chunks but the last are full (`FullChunks`), which `EnoughVideo` puts together.

About `Spec` of `DccEvents`, for any number of tries and any length of the decoder's queue
(`EventsAssumption`): `DoneIsExecuted`, `WaitsAreWoken`, `PropertySetOnce` and
`StoppedIsShown`, which state `OkMeansExecuted`, `NoLostWakeup`, `SetOnce` and `StopIsShown`.
The invariant (`EventsInv`) lists what can be left of a call at each place (`Todo`), so that a
part that is done leads to a known one (`DoneStep`); while nothing failed the queue holds the
awaited command at most, and the event is that command's (`InStep`). `EventsTypeCorrect`
states the types, and `CallsGetNearer` what `CallReturns` rests on: every step of the library
lowers the parts left of the call, or, in the same part, the tries left, or, in the same try,
the way to its end (`Left`, in that order), whatever the decoder and the display do in
between. With it a call takes a bounded number of steps, so that fairness is all that
`CallReturns` still needs.

About `Spec` of `GbusAreas`, for a table, pages, ranges and number of failing calls of any
size, if offsets lie in the first page of their range (`AreasAssumption`; the driver returns
them so):

- `AreasTypeCorrect`: the types; a slot names a mapping and its size, or neither.
- `MappedIsKnown`: `RegionsInTable`, whatever the ranges.
- `FillsLeaveNothing` and `FillsSucceed`: `NothingLeftBehind` and `InsideFillSucceeds`. That
  nothing stays mapped holds whichever calls fail; that nothing stays locked, as long as none
  does: after a failing `RUALock` or `RUAMap` the areas stay locked (`rua.c:397`).

That the table does its work though one mapping takes all free slots and unmapping clears
one only, rests on the first slot (`Current`): while no range has begun on a page boundary,
it holds the current mapping during a write and is empty otherwise. The arithmetic
(`PagesEnough`, `FirstMatches`) shows that `gbus_unmap_region`'s comparison accepts this
slot; it takes the first that matches, so the stale ones behind it do not matter.

About `Spec` of `DccSources`, for any finite set of video sources, any parts and blocks, and
any number of failing calls and crashes (`SourcesAssumption`), if there is one audio source at
most: `SourcesMemorySafe`, which states `MemorySafe`. It holds up to a fatal signal between a
giving back and the reset of the pointer to it: what is inductive is `torn \/ SafeInv`. The
invariant (`SafeInv`) says three things. What sources and engines know of is given out and
belongs to one of them only, and a decoder works with parts of its own source and memory of its
own engine only (`Kept`). What a call has got and not yet handed over, or has taken away to
free it, is known to nobody else (`InHand`). And a close frees parts only with its decoder
closed, the memory of the MPEG engine only with every video decoder closed (`Places`): that is
the count the driver keeps. For audio no count is looked at, and the assumption of one source
takes its place.

`SourcesImplementCustody` is the refinement `ImplementsCustody`, under the same assumption; the
torn giving back is `Tear` of the abstract specification (`TornTears`). On
top of `SafeInv`, which says that each block has one keeper (`SafeApart`), it needs that a call
has not yet got what it still asks for (`Asking`), so that what it gets never takes the place of
something it has. Then there is one lemma per kind of step: nothing moves (`Quiet`), a block is
got (`GotInHand`), handed over (`HandsOver`) or taken from an engine (`TakePasses`), a decoder
starts (`DecoderStarts`) or stops, a block is given back (`GivenBack`).

`SourcesLoseNothing` states `NoLeak` under two more assumptions: a video source whose decoder
data size is 0 is the only one (with another beside it, opening it once more replaces the
memory the engine had, which is then lost), and `RUAMalloc` finds memory whenever it is called
(`Plenty`; an open that finds none left does lose what it has got). On top of `SafeInv`
its invariant (`LeakInv`) says that while nothing failed every block given out is known to
somebody (`Known`); that sources are open or absent with all they have (`Whole`); that the call
has yet to get what it has not got (`Listed`); and, for the memory of the engines, that it is
there exactly while a source is, or not counting the source that is opened or closed
(`Scheduled`, `Decoded`, `Heard`), so that it is never replaced while it is there.

About `Spec` of `Mp4Player`, for every file, configuration, depth and any keys
(`Mp4Assumption`):

- `PlayingAlwaysRuns`: `PlayingRuns`, inductive once the types (`Shape`) are known: one
  case per place where a flag or the clock changes.
- `NoGapEver`: `NoGap`. Its invariant (`GapInv`) says that while the loop goes on every
  packet after the first one written is written too, up to the one in hand (`Done`); that
  a packet is written only with `started` set, and `started` is never taken back; and that
  once `ending` is set the loop is not entered again, although `check_jump` is shared by
  the loop and the wait for the end.
- `PauseAlwaysBounds`: `PauseBoundsBuffer`. Only `ReadVideo` moves `last_time`, and its
  turn of the loop has read the clock and found little buffered or no pause. `PauseInv`
  keeps that until the read: `context.time` is not ahead of the clock, which is set back
  only by a jump, and no key is looked at in between (`TurnBounded`).
- `NothingIsCutOff`: `NothingCutOff`, for files that send a frame at most one frame early
  (`ReorderedByOne`). The player waits until the clock is a tick beyond `last_time`, the end
  of the packet read last, which need not be the one shown last: by then the other has come
  up, but it may be cut short, when a key ends the wait of `get_key` early. `EndInv` says
  which packet `last_time` belongs to (`LastTimeKnown`), that a loop that is left, not given
  up, has read the whole file (`ReadToEnd`), and that the time that ended the wait is one the
  clock has reached (`Waited`). A file whose last packets are more than one frame out of order
  is outside the theorem, and nothing in the code makes up for it.

About `Spec` of `Session`, for the three players and any number of failing calls and fatal
signals (`SessionAssumption`):

- `SessionTypeCorrect`: the types.
- `NoNullPassed`: `NeverNull`.
- `NothingFreedUsed`: `NothingDeadUsed`.
- `AllDevicesClosed`: `EverythingClosed`.
- `EveryStepNearer`: `AlwaysNearer`.

The functions of the programs are sequences, so the invariants judge what is left of one by the
positions of its steps, which makes them keep when the first step is taken off. The first
(`Flow`) says that what is left is a script of this program and function (`Proper`), that each
step has what it uses in what is there or in an open before it (`Sound`), and that the rest of
the function gets what the next one begins with (`Entry`, `After`, `Gets`). Each script is
proved to be one, from its steps one by one or from its parts (`ScriptConcat`). A cleanup needs
nothing, since it looks at the pointers; two of the three exceptions of `NeverNull` are what
`playmp4` does behind a cleanup, and the third is the cleanup of `plaympeg`. The second
(`Safe`) relates pointers, structures and devices: a pointer without its structure belongs to
the close under way (`Pointed`); the instance, which the close of a device reads, lives as long
as a pointer to a device is there (`RuaThere`), because every cleanup has the closes of all
that is open still ahead of it and that of the instance behind them (`Ahead`, from
`CleanupCloses`); the driver holds a device for a pointer, for an open under way or because its
close failed (`HeldFor`, `Released`). A fatal signal begins the cleanup anew, and what it cut
off is what `lost` and `torn` record. So the end of the last cleanup leaves no pointer to a
device (`Cleaned`).

`EveryStepNearer` is the variant behind `StopEnds`. The functions a program may be in are
numbered by how many it may still get to (`Phase`): a cleanup by what comes after it (in
`playmp4` up to five come one after the other), the loop by whether video plays. Every step of
the program, and every fatal signal, lowers that number, or keeps it and lowers the half calls
left of the function (`Left`). So neither the cleanup that `exit` runs again nor the way of
`playmp4` back from a cleanup to `play_video` can go round. What changes nothing is a round of
the loop in which all is well; that it ends once the program is asked to stop is the part that
needs fairness.

About `Spec` of `Display`, for any sources, scalers, sizes, memory and number of failing
calls (`DisplayAssumption`):

- `DisplayTypeCorrect`: the types, and that a mixer is known only on a scaler that has one.
- `SurfacesAccounted`, `ShownNeverFreed`, `ShownNeverClosed`: `SurfaceAccounted` (the field
  `surface` of every structure, and the pictures of the open sources; `pic_info` of a source
  whose open failed may name freed memory), `ShownIsGiven` (but for pictures inserted by an
  index past the end) and `ShownIsOpen` (but for the scalers in `left`, of which the source
  knows no more).
- `HeadersKept` and `PicturesSeparate`: `HeaderIntact` and `OnePictureAtATime`.

The first are inductive together with one more fact: an open source has a surface, and its
pictures begin inside it (`OpenHasSurface`, from the arithmetic of `PictureInside`). An
open with its many ways to end is reduced to what they have in common (`OpenStep`): one
structure without a surface changes, memory is only added, and a surface that is kept is
memory that was free before. The steps that leave the structures alone are one lemma.
For the last two the invariant (`LayoutInv`) adds where things are: pieces of memory do not
overlap (`Apart`), and in the surface of an open source the header comes first, the pictures
behind it and behind one another, the parts of a picture inside it or at address 0
(`WellPlaced`, by arithmetic from the driver's sizes in `Placing`). A write that is not a
header's lies in one picture (`WrittenInside`), since nothing is written through address 0.

## What is only model-checked

`PlayerFinishes`, `StopEnds`, `CallReturns`, `PlayerEnds` and `StopHeeded` are liveness
under fairness, which is beyond the proof system; of `StopEnds` and `CallReturns` the variants
are proved. `PlayingTellsTheTruth` and `FillSucceeds`
are violated. Every other property of the runs is stated by a theorem. Of the type
invariants that of `RuaPool` is a property of its run, those of `GbusAreas`, `DccEvents`,
`Session` and `Display` are theorems; the others are parts of the invariants of the proofs.

## Findings

`MCGbusBoundary`: `gbus_unmap_region` looks for a slot with `areaaddress[i] < address`, so
the address of the first byte of a mapping matches none. A picture plane that begins on a
page boundary stays mapped, its area stays in every slot, the next map finds the table
full, and `set_memory` fails with the range locked. Inside a page it works.

`MCMp4Flag`: the comment on `playing` (`playmp4.c:98`) says "True when video engine plays
video." A jump while the player waits for the end goes the way of `check_jump` that does
not stop the clock and sets `playing` to 0. The video plays on, and `get_key`, which asks
for `playing`, ignores OK, left, right and up from then on.

Seen while modelling and contradicted by nothing the repository says, so stated as limits of
the properties: a fatal signal between `RUAFree` of a source's part and the reset of its field
(`dcc.c:1573/1574` and its like), or between the `free` of the structure and the reset of the
client's pointer, has the exit handler give the same back again (`CrashTorn`); a late
completion of a command that timed out passes for the next one's; `DCCStopVideoSource` returns
`RM_OK` when its command fails and resets the display event after the display may have raised
it; opens that fail do not give back what they got; the first audio source closed frees the
memory all of them share. In `playmp4` a pause with little buffered ends by itself, because
`start_play` runs the clock after rebuffering without a look at `paused`; a jump during a pause
in the wait for the end drops the pause without starting the clock, so that only a stop ends
the player (`PlayerEnds` excludes it); when the file ends during rebuffering or just after a
jump, `playing` is 0 and what is buffered is not played; and the pool is then closed with
decoders that were not stopped. On the way into and out of the programs: `cleanup` of
`plaympeg` frees its ciphers through `pRUA` without asking whether it is NULL, so its second
run, from `exit`, dereferences NULL (`NeverNull` excepts it); `memset` leaves `irfd` of
`playmp4` at 0, which counts as open, so a cleanup before `RCCOpen` closes descriptor 0, and
loses a stop signal that came before it; `play_video` of `playmp4` goes on after
`transfer_data` has cleaned up, with a NULL pool (excepted as well), and by way of `start_play`
(`playmp4.c:1103`) with a NULL clock (the third exception); it never leaves
`write_video_packet` when the clock could not be started again after a pause (`hung`); a fatal
signal between a close and the reset of its pointer leads to a second close (`torn`); after a
failure `cleanup` closes the pool before the decoders. On the display: `DCCCloseVideoSource`
gives back neither an OSD surface's memory nor `pic_info`; a source whose
`EnableGFXInteraction` failed keeps a `pic_info` that names freed memory; when there is no
memory for `pic_info` the handle the client was given dangles; closing a source clears its
scaler even if another source is shown there by now; a source set on a second scaler is never
taken off the first, not even by its close (`ShownIsOpen` excepts that scaler); an index past
the end of `pic_info` puts a stray address into the queue.

## What is not modelled

- What libavformat keeps: `av_write_trailer` is assumed to hand on nothing after a transfer
  has failed.
- The contents and formats of streams, pictures, profiles: no property is about them.
- The calls that are one property each and keep no state: offsets, speed and resolution of
  the clock, audio format and volume, aspect ratio, the surface of a decoder.
- The loop of `plaympeg`: `DCCOpenDemuxTask` and its like are not implemented in `libdcc`, so
  no data ever reaches it; it is the loop of `playrawmp4` with one stream.
- `smptest` as a program: its calls are those of `Display`, but its endless loop at the end
  and its way out without a cleanup are left out.
- The receive pool of `librua` (no program opens one, and what the driver puts into it does
  not show), `liboslayer`, headers and build files.
- Sources with an SPU decoder: `libdcc` answers `RM_NOTIMPLEMENTED`.
- The speed keys of `playmp4`: the clock of the model runs at any pace. Opening the file
  and the muxers, and the bitstream filter, with their failures before the loop or for want
  of memory. The clock's 64 bits, and the arithmetic of presentation times without a value.
- The audio tail: `playrawmp4` leaves its loop when the video file is sent, however much
  audio is left; `LoopEnds` does the same and no property asks for the rest.

## Plan

Done: the pool with its players, areas, events, sources, `playmp4`, the programs from start
to exit, and the display. What would come next:

1. `Mp4Player` in more depth: `transfer_data` with `RuaPool`'s buffers in it, so that the
   pool shared by full audio and video is seen; an abstract player (play, pause, jump, end)
   and the refinement; the guarantee when decoders hold less than the buffer times.
2. `Session` over `DccSources`, so that what a cut-off open leaves behind is seen in memory
   and not in devices only.
