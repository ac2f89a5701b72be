------------------------------ MODULE RuaPool -------------------------------
(***************************************************************************)
(* The DMA buffer path of a player: the buffer functions of librua/rua.c,  *)
(* the dmapool functions of libllad/llad.c below them, and the             *)
(* transfer_data function of the players above them, which moves the       *)
(* stream files one chunk at a time into the decoders.                     *)
(*                                                                         *)
(* The player is one thread; every ioctl it makes is a step, because the   *)
(* decoders consume and hand back buffers between any two of them.  The    *)
(* kernel driver (reference counts) and the decoders (transfer queues) are *)
(* not part of the repository: they are what rua.c relies on.              *)
(*                                                                         *)
(* A chunk is the range of the file that one buffer takes, named by the    *)
(* stream and its position.  Which stream is served next, and when the     *)
(* player stops, is left open here; RawPlayer restricts it to the loop of  *)
(* playrawmp4.                                                             *)
(***************************************************************************)
EXTENDS Naturals, Sequences, FiniteSets

CONSTANTS
  Buffers,    \* the buffers of the pool (BufferCount of RUAOpenPool)
  Streams,    \* the streams, one decoder module each
  Length,     \* Length[s]: the number of chunks in the file of stream s
  QueueDepth, \* transfers one decoder's queue takes before send is refused
  MaxFaults,  \* failing driver calls in a behaviour, a bound for TLC
  FlushMayFail, \* whether the failing calls include the flush of the cache
  None        \* the NULL buffer pointer

ASSUME PoolAssumption ==
  /\ Length \in [Streams -> Nat]
  /\ QueueDepth \in Nat
  /\ MaxFaults \in Nat
  /\ FlushMayFail \in BOOLEAN
  /\ None \notin Buffers \cup Streams

VARIABLES
  (* the kernel driver and the decoders *)
  refs,        \* refs[b]: references to buffer b; free when 0
  queue,       \* queue[s]: buffers sent to decoder s, not consumed yet
  dram,        \* dram[b]: the chunk a decoder finds in b
  played,      \* played[s]: the chunks decoder s has consumed
  stopped,     \* the streams whose decoder was stopped
  (* the player *)
  cache,       \* cache[b]: the chunk the processor has written into b
  held,        \* held[s]: videobuffer, audiobuffer: kept across RM_PENDING
  transferred, \* transferred[s]: chunks counted as transferred
  cur,         \* the stream of the transfer_data call in progress
  pc,          \* where the player is
  poolOpen,    \* context->pDMA # NULL
  faults       \* driver calls that failed so far

driver == <<refs, queue, dram, played, stopped>>
vars == <<refs, queue, dram, played, stopped, cache, held, transferred, cur,
          pc, poolOpen, faults>>

Chunk(s, i) == <<s, i>>
Chunks == (Streams \cup {None}) \X Nat
NoData == <<None, 0>>

PlayerStates == {"ready", "get", "copy", "acquire", "flush", "send", "unacquire",
                 "release", "drain", "stopping", "cleanup", "closed"}

TypeOK ==
  /\ refs \in [Buffers -> Nat]
  /\ queue \in [Streams -> Seq(Buffers)]
  /\ dram \in [Buffers -> Chunks]
  /\ played \in [Streams -> Seq(Chunks)]
  /\ stopped \in SUBSET Streams
  /\ cache \in [Buffers -> Chunks]
  /\ held \in [Streams -> Buffers \cup {None}]
  /\ transferred \in [Streams -> Nat]
  /\ cur \in Streams \cup {None}
  /\ pc \in PlayerStates
  /\ poolOpen \in BOOLEAN
  /\ faults \in 0..MaxFaults

-----------------------------------------------------------------------------
(* RUAOpenPool and dmapool_open have succeeded. *)
Init ==
  /\ refs = [b \in Buffers |-> 0]
  /\ queue = [s \in Streams |-> <<>>]
  /\ dram = [b \in Buffers |-> NoData]
  /\ played = [s \in Streams |-> <<>>]
  /\ stopped = {}
  /\ cache = [b \in Buffers |-> NoData]
  /\ held = [s \in Streams |-> None]
  /\ transferred = [s \in Streams |-> 0]
  /\ cur = None
  /\ pc = "ready"
  /\ poolOpen = TRUE
  /\ faults = 0

-----------------------------------------------------------------------------
(* The driver's calls, as rua.c and llad.c use them. *)

\* LLAD_DMAPOOL_ACQUIRE and LLAD_DMAPOOL_RELEASE on a free buffer fail.
DriverAcquire(b) == refs[b] > 0 /\ refs' = [refs EXCEPT ![b] = @ + 1]
DriverRelease(b) == refs[b] > 0 /\ refs' = [refs EXCEPT ![b] = @ - 1]

\* The call on buffer b fails: an injected fault, or b is free.
DriverFails(b) ==
  /\ refs[b] = 0 \/ faults < MaxFaults
  /\ faults' = IF refs[b] = 0 THEN faults ELSE faults + 1
  /\ UNCHANGED refs

Buf == held[cur]

QueuedIn(s, b) == \E i \in 1..Len(queue[s]) : queue[s][i] = b

-----------------------------------------------------------------------------
(* transfer_data, and the librua and libllad calls in it.  The definitions    *)
(* marked "faulty" are no part of the specification: each is the action below *)
(* it with a plausible mistake, to see that a property would find it.         *)

\* Faulty: a stream at its end is transferred again.
BeginPastEnd(s) ==
  /\ pc = "ready"
  /\ cur' = s
  /\ pc' = IF held[s] = None THEN "get" ELSE "acquire"
  /\ UNCHANGED <<driver, cache, held, transferred, poolOpen, faults>>

\* The call starts.  A buffer kept from a call that returned RM_PENDING is
\* sent again without a copy.
BeginTransfer(s) ==
  /\ pc = "ready"
  /\ transferred[s] < Length[s]
  /\ cur' = s
  /\ pc' = IF held[s] = None THEN "get" ELSE "acquire"
  /\ UNCHANGED <<driver, cache, held, transferred, poolOpen, faults>>

\* RUAGetBuffer finds a free buffer.
GetBuffer(b) ==
  /\ pc = "get"
  /\ refs[b] = 0
  /\ refs' = [refs EXCEPT ![b] = 1]
  /\ held' = [held EXCEPT ![cur] = b]
  /\ pc' = "copy"
  /\ UNCHANGED <<queue, dram, played, stopped, cache, transferred, cur, poolOpen, faults>>

\* RUAGetBuffer finds none, or its ioctl fails: RM_PENDING either way.
GetPending ==
  /\ pc = "get"
  /\ \/ (\A b \in Buffers : refs[b] > 0) /\ UNCHANGED faults
     \/ faults < MaxFaults /\ faults' = faults + 1
  /\ pc' = "ready"
  /\ UNCHANGED <<driver, cache, held, transferred, cur, poolOpen>>

\* The memcpy of the next chunk into the new buffer.
CopyChunk ==
  /\ pc = "copy"
  /\ cache' = [cache EXCEPT ![Buf] = Chunk(cur, transferred[cur] + 1)]
  /\ pc' = "acquire"
  /\ UNCHANGED <<driver, held, transferred, cur, poolOpen, faults>>

\* Faulty: no reference is taken.
AcquireSkipped ==
  /\ pc = "acquire"
  /\ pc' = "flush"
  /\ UNCHANGED <<driver, cache, held, transferred, cur, poolOpen, faults>>

\* RUASendData takes the reference that the decoder will give back.
AcquireBuffer ==
  /\ pc = "acquire"
  /\ DriverAcquire(Buf)
  /\ pc' = "flush"
  /\ UNCHANGED <<queue, dram, played, stopped, cache, held, transferred, cur, poolOpen, faults>>

\* dmapool_acquire fails: RUASendData returns its RM_ERROR, transfer_data
\* calls cleanup.
AcquireFails ==
  /\ pc = "acquire"
  /\ DriverFails(Buf)
  /\ pc' = "cleanup"
  /\ UNCHANGED <<queue, dram, played, stopped, cache, held, transferred, cur, poolOpen>>

\* Faulty: the cache is not flushed.
FlushSkipped ==
  /\ pc = "flush"
  /\ pc' = "send"
  /\ UNCHANGED <<driver, cache, held, transferred, cur, poolOpen, faults>>

\* dmapool_flush_cache: what was written becomes visible to the decoder.
FlushCache ==
  /\ pc = "flush"
  /\ dram' = [dram EXCEPT ![Buf] = cache[Buf]]
  /\ pc' = "send"
  /\ UNCHANGED <<refs, queue, played, stopped, cache, held, transferred, cur, poolOpen, faults>>

\* It fails, which dmapool_flush_cache only prints: the buffer is sent with
\* whatever the memory held before.
FlushFails ==
  /\ pc = "flush"
  /\ FlushMayFail
  /\ faults < MaxFaults
  /\ faults' = faults + 1
  /\ pc' = "send"
  /\ UNCHANGED <<driver, cache, held, transferred, cur, poolOpen>>

\* The send ioctl is accepted; transfer_data counts the chunk.
SendAccepted ==
  /\ pc = "send"
  /\ Len(queue[cur]) < QueueDepth
  /\ queue' = [queue EXCEPT ![cur] = Append(@, Buf)]
  /\ transferred' = [transferred EXCEPT ![cur] = @ + 1]
  /\ pc' = "release"
  /\ UNCHANGED <<refs, dram, played, stopped, cache, held, cur, poolOpen, faults>>

\* Faulty: the chunk is counted before the driver has taken it.
SendRefusedCounted ==
  /\ pc = "send"
  /\ Len(queue[cur]) >= QueueDepth
  /\ transferred' = [transferred EXCEPT ![cur] = @ + 1]
  /\ pc' = "unacquire"
  /\ UNCHANGED <<driver, cache, held, cur, poolOpen, faults>>

\* Faulty: a refused send is an error like any other.
SendRefusedFatal ==
  /\ pc = "send"
  /\ Len(queue[cur]) >= QueueDepth
  /\ pc' = "cleanup"
  /\ UNCHANGED <<driver, cache, held, transferred, cur, poolOpen, faults>>

\* The send ioctl is refused: the queue is full, or the call fails.
SendRefused ==
  /\ pc = "send"
  /\ \/ Len(queue[cur]) >= QueueDepth /\ UNCHANGED faults
     \/ faults < MaxFaults /\ faults' = faults + 1
  /\ pc' = "unacquire"
  /\ UNCHANGED <<driver, cache, held, transferred, cur, poolOpen>>

\* Faulty: the reference is not given back.
ReleaseSkipped ==
  /\ pc = "unacquire"
  /\ pc' = "ready"
  /\ UNCHANGED <<driver, cache, held, transferred, cur, poolOpen, faults>>

\* RUASendData gives the reference back and returns RM_PENDING: the player
\* keeps the buffer and its content for the next call.
ReleaseAcquired ==
  /\ pc = "unacquire"
  /\ DriverRelease(Buf)
  /\ pc' = "ready"
  /\ UNCHANGED <<queue, dram, played, stopped, cache, held, transferred, cur, poolOpen, faults>>

\* It cannot: RUASendData returns that error and transfer_data cleans up.
ReleaseAcquiredFails ==
  /\ pc = "unacquire"
  /\ DriverFails(Buf)
  /\ pc' = "cleanup"
  /\ UNCHANGED <<queue, dram, played, stopped, cache, held, transferred, cur, poolOpen>>

\* Faulty: the decoder's reference is given back as well.
ReleaseTwice ==
  /\ pc = "release"
  /\ refs' = [refs EXCEPT ![Buf] = @ - 2]
  /\ held' = [held EXCEPT ![cur] = None]
  /\ pc' = "ready"
  /\ UNCHANGED <<queue, dram, played, stopped, cache, transferred, cur, poolOpen, faults>>

\* Faulty: the buffer pointer is not reset.
ReleaseKeepsPointer ==
  /\ pc = "release"
  /\ DriverRelease(Buf)
  /\ pc' = "ready"
  /\ UNCHANGED <<queue, dram, played, stopped, cache, held, transferred, cur, poolOpen, faults>>

\* RUAReleaseBuffer after a successful send: the player's own reference.
ReleaseHeld ==
  /\ pc = "release"
  /\ DriverRelease(Buf)
  /\ held' = [held EXCEPT ![cur] = None]
  /\ pc' = "ready"
  /\ UNCHANGED <<queue, dram, played, stopped, cache, transferred, cur, poolOpen, faults>>

ReleaseHeldFails ==
  /\ pc = "release"
  /\ DriverFails(Buf)
  /\ held' = [held EXCEPT ![cur] = None]
  /\ pc' = "cleanup"
  /\ UNCHANGED <<queue, dram, played, stopped, cache, transferred, cur, poolOpen>>

-----------------------------------------------------------------------------
(* The end of play_video. *)

\* The transfer loop is left: the stream has ended, or a signal came.
LeaveLoop ==
  /\ pc = "ready"
  /\ pc' = "drain"
  /\ UNCHANGED <<driver, cache, held, transferred, cur, poolOpen, faults>>

\* A buffer still held is released; a failure is only printed.
DrainHeld(s) ==
  /\ pc = "drain"
  /\ held[s] # None
  /\ \/ DriverRelease(held[s]) /\ UNCHANGED faults
     \/ DriverFails(held[s])
  /\ held' = [held EXCEPT ![s] = None]
  /\ UNCHANGED <<queue, dram, played, stopped, cache, transferred, cur, pc, poolOpen>>

Drained ==
  /\ pc = "drain"
  /\ \A s \in Streams : held[s] = None
  /\ pc' = "stopping"
  /\ UNCHANGED <<driver, cache, held, transferred, cur, poolOpen, faults>>

\* DCCStopVideoSource, DCCStopAudioSource: the decoder drops its queue.
\* A player that never started playing skips this.
StopDecoder(s) ==
  /\ pc = "stopping"
  /\ s \notin stopped
  /\ stopped' = stopped \cup {s}
  /\ refs' = [b \in Buffers |-> IF QueuedIn(s, b) THEN refs[b] - 1 ELSE refs[b]]
  /\ queue' = [queue EXCEPT ![s] = <<>>]
  /\ UNCHANGED <<dram, played, cache, held, transferred, cur, pc, poolOpen, faults>>

\* DCCStopVideoSource cannot send the stop command, and returns RM_OK all the
\* same: the decoder goes on.
StopNotSent ==
  /\ pc = "stopping"
  /\ faults < MaxFaults
  /\ faults' = faults + 1
  /\ UNCHANGED <<driver, cache, held, transferred, cur, pc, poolOpen>>

\* Another call of the player fails (DCCSTCPlay, DCCStopVideoSource, ...).
OtherCallFails ==
  /\ pc \in {"ready", "stopping"}
  /\ faults < MaxFaults
  /\ faults' = faults + 1
  /\ pc' = "cleanup"
  /\ UNCHANGED <<driver, cache, held, transferred, cur, poolOpen>>

\* RUAClosePool, at the end of play_video or in cleanup.
ClosePool ==
  /\ pc \in {"stopping", "cleanup"}
  /\ poolOpen' = FALSE
  /\ pc' = "closed"
  /\ UNCHANGED <<driver, cache, held, transferred, cur, faults>>

-----------------------------------------------------------------------------
\* The decoder has read the oldest transfer; the driver drops the reference
\* that RUASendData acquired.
Consume(s) ==
  /\ queue[s] # <<>>
  /\ LET b == Head(queue[s]) IN
       /\ played' = [played EXCEPT ![s] = Append(@, dram[b])]
       /\ DriverRelease(b)
  /\ queue' = [queue EXCEPT ![s] = Tail(@)]
  /\ UNCHANGED <<dram, stopped, cache, held, transferred, cur, pc, poolOpen, faults>>

Transfer ==
  \/ \E s \in Streams : BeginTransfer(s)
  \/ \E b \in Buffers : GetBuffer(b)
  \/ GetPending \/ CopyChunk
  \/ AcquireBuffer \/ AcquireFails
  \/ FlushCache \/ FlushFails
  \/ SendAccepted \/ SendRefused
  \/ ReleaseAcquired \/ ReleaseAcquiredFails
  \/ ReleaseHeld \/ ReleaseHeldFails

Finish ==
  \/ LeaveLoop \/ Drained \/ ClosePool
  \/ OtherCallFails \/ StopNotSent
  \/ \E s \in Streams : DrainHeld(s) \/ StopDecoder(s)

Next == Transfer \/ Finish \/ \E s \in Streams : Consume(s)

Spec == Init /\ [][Next]_vars

-----------------------------------------------------------------------------
(* Who counts on a buffer not being handed to anybody else. *)

IsHeld(b) == \E s \in Streams : held[s] = b
IsSending(b) == pc \in {"flush", "send", "unacquire"} /\ Buf = b
IsQueued(b) == \E s \in Streams : QueuedIn(s, b)

One(P) == IF P THEN 1 ELSE 0
Owners(b) == One(IsHeld(b)) + One(IsSending(b)) + One(IsQueued(b))

\* The driver's count never falls below the number of parties that use the
\* buffer, whatever call fails: RUASendData and RUAReleaseBuffer give back only
\* references they took.  A count that is too low lets RUAGetBuffer hand out a
\* buffer that a decoder still reads.
RefsCoverOwners == \A b \in Buffers : refs[b] >= Owners(b)

\* As long as no driver call has failed the count is exact: none of the paths
\* through RM_PENDING, the retries or the end of play_video loses a buffer of
\* the pool.
NoLeak == faults = 0 => \A b \in Buffers : refs[b] = Owners(b)

HeldOnce == \A s, t \in Streams : held[s] = held[t] /\ held[s] # None => s = t
QueuedOnce ==
  \A s, t \in Streams : \A i \in 1..Len(queue[s]), j \in 1..Len(queue[t]) :
    queue[s][i] = queue[t][j] => s = t /\ i = j
HeldNotQueued ==
  \A s \in Streams : held[s] # None /\ IsQueued(held[s]) => s = cur /\ pc = "release"

\* A buffer has one user: no two streams keep the same videobuffer or
\* audiobuffer, no buffer is queued twice, and one that the player keeps for a
\* retry is in no decoder's queue (between an accepted send and the release of
\* transfer_data it is in both).
OneOwner == HeldOnce /\ QueuedOnce /\ HeldNotQueued

\* Every decoder gets the chunks of its file from the first on, in order, each
\* once, though transfer_data is called again after each RM_PENDING, keeps the
\* buffer over the retry and lets the next stream use the pool in between.
PlayedInOrder ==
  ~FlushMayFail =>
    \A s \in Streams : \A i \in 1..Len(played[s]) : played[s][i] = Chunk(s, i)

\* A retry never resends stale or foreign data: the buffer a stream keeps over
\* RM_PENDING holds the chunk after the last one counted as transferred.
RetryKeepsChunk ==
  pc = "ready" => \A s \in Streams :
    held[s] # None => cache[held[s]] = Chunk(s, transferred[s] + 1)

\* cleanup is reached only after a driver call has failed: a full decoder queue
\* and an empty pool are RM_PENDING, and none of the acquire and release calls
\* the player makes on its own buffers is one the driver refuses.
CleanupOnlyAfterFault == pc = "cleanup" => faults > 0

\* While a decoder has a buffer queued nobody writes it, neither through the
\* cache (memcpy in transfer_data) nor by a flush.
QueuedUntouched ==
  [][\A b \in Buffers : IsQueued(b) => cache'[b] = cache[b] /\ dram'[b] = dram[b]]_vars

\* The player and the pool together implement in-order delivery, as long as no
\* flush fails.
Delivery == INSTANCE StreamDelivery WITH sent <- transferred, Window <- QueueDepth
ImplementsDelivery == Delivery!Spec

=============================================================================
