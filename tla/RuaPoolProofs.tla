--------------------------- MODULE RuaPoolProofs ----------------------------
(***************************************************************************)
(* What module RuaPool promises, proved for every number of buffers,       *)
(* streams and chunks, every queue depth and every number of failing calls.*)
(***************************************************************************)
EXTENDS RuaPool, TLAPS

USE PoolAssumption

-----------------------------------------------------------------------------
(* Type correctness. *)

\* What the position of the player says of the call in progress.
CallOK ==
  /\ pc \in {"get", "copy", "acquire", "flush", "send", "unacquire", "release"} =>
       cur \in Streams
  /\ pc \in {"copy", "acquire", "flush", "send", "unacquire", "release"} =>
       held[cur] # None
  /\ pc \in {"get", "copy", "acquire", "flush", "send", "unacquire"} =>
       transferred[cur] < Length[cur]
  /\ pc = "get" => held[cur] = None

TypeInv == TypeOK /\ CallOK

LEMMA ChunkType ==
  ASSUME NEW s \in Streams, NEW n \in Nat PROVE Chunk(s, n) \in Chunks
BY DEF Chunk, Chunks

LEMMA TypeInit == Init => TypeInv
<1> SUFFICES ASSUME Init PROVE TypeInv
  OBVIOUS
<1>1. NoData \in Chunks
  BY DEF NoData, Chunks
<1> QED
  BY <1>1 DEF Init, TypeInv, TypeOK, CallOK, PlayerStates

LEMMA TypeTransfer == TypeInv /\ Transfer => TypeInv'
<1> SUFFICES ASSUME TypeInv, Transfer PROVE TypeInv'
  OBVIOUS
<1> USE DEF TypeInv, TypeOK, CallOK, PlayerStates, driver, Buf, DriverAcquire,
            DriverRelease, DriverFails
<1>1. ASSUME NEW s \in Streams, BeginTransfer(s) PROVE TypeInv'
  BY <1>1 DEF BeginTransfer
<1>2. ASSUME NEW b \in Buffers, GetBuffer(b) PROVE TypeInv'
  BY <1>2 DEF GetBuffer
<1>3. CASE GetPending
  BY <1>3 DEF GetPending
<1>4. CASE CopyChunk
  <2>1. cur \in Streams /\ transferred[cur] + 1 \in Nat /\ Buf \in Buffers
    BY <1>4 DEF CopyChunk
  <2>2. cache' \in [Buffers -> Chunks]
    BY <1>4, <2>1, ChunkType DEF CopyChunk
  <2> QED
    BY <1>4, <2>1, <2>2 DEF CopyChunk
<1>5. CASE AcquireBuffer
  BY <1>5 DEF AcquireBuffer
<1>6. CASE AcquireFails
  BY <1>6 DEF AcquireFails
<1>7. CASE FlushCache
  BY <1>7 DEF FlushCache
<1>14. CASE FlushFails
  BY <1>14 DEF FlushFails
<1>8. CASE SendAccepted
  BY <1>8 DEF SendAccepted
<1>9. CASE SendRefused
  BY <1>9 DEF SendRefused
<1>10. CASE ReleaseAcquired
  BY <1>10 DEF ReleaseAcquired
<1>11. CASE ReleaseAcquiredFails
  BY <1>11 DEF ReleaseAcquiredFails
<1>12. CASE ReleaseHeld
  BY <1>12 DEF ReleaseHeld
<1>13. CASE ReleaseHeldFails
  BY <1>13 DEF ReleaseHeldFails
<1> QED
  BY <1>1, <1>2, <1>3, <1>4, <1>5, <1>6, <1>7, <1>8, <1>9, <1>10, <1>11,
     <1>12, <1>13, <1>14 DEF Transfer

\* Each of the three uses of a buffer counts for one, before and after a step.
LEMMA OwnersSplit ==
  ASSUME NEW b
  PROVE  /\ \E h, n, q \in {0, 1} :
              /\ Owners(b) = h + n + q
              /\ (h = 1) <=> IsHeld(b)
              /\ (n = 1) <=> IsSending(b)
              /\ (q = 1) <=> IsQueued(b)
         /\ \E h, n, q \in {0, 1} :
              /\ Owners(b)' = h + n + q
              /\ (h = 1) <=> IsHeld(b)'
              /\ (n = 1) <=> IsSending(b)'
              /\ (q = 1) <=> IsQueued(b)'
<1>1. ASSUME NEW P PROVE One(P) \in {0, 1} /\ ((One(P) = 1) <=> P)
  BY DEF One
<1>2. One(IsHeld(b)) \in {0, 1} /\ ((One(IsHeld(b)) = 1) <=> IsHeld(b))
  BY <1>1
<1>3. One(IsSending(b)) \in {0, 1} /\ ((One(IsSending(b)) = 1) <=> IsSending(b))
  BY <1>1
<1>4. One(IsQueued(b)) \in {0, 1} /\ ((One(IsQueued(b)) = 1) <=> IsQueued(b))
  BY <1>1
<1>5. One(IsHeld(b)') \in {0, 1} /\ ((One(IsHeld(b)') = 1) <=> IsHeld(b)')
  BY <1>1
<1>6. One(IsSending(b)') \in {0, 1} /\ ((One(IsSending(b)') = 1) <=> IsSending(b)')
  BY <1>1
<1>7. One(IsQueued(b)') \in {0, 1} /\ ((One(IsQueued(b)') = 1) <=> IsQueued(b)')
  BY <1>1
<1> QED
  BY <1>2, <1>3, <1>4, <1>5, <1>6, <1>7 DEF Owners

LEMMA OwnersNat == ASSUME NEW b PROVE Owners(b) \in Nat /\ Owners(b)' \in Nat
BY OwnersSplit

\* What RefsCoverOwners says of one owner at a time.
LEMMA OwnedIsCounted ==
  ASSUME TypeInv, RefsCoverOwners, NEW b \in Buffers
  PROVE  /\ IsQueued(b) => refs[b] > 0
         /\ IsHeld(b) => refs[b] > 0
         /\ IsSending(b) /\ IsHeld(b) => refs[b] > 1
<1>1. refs[b] \in Nat /\ refs[b] >= Owners(b)
  BY DEF RefsCoverOwners, TypeInv, TypeOK
<1> QED
  BY <1>1, OwnersSplit

LEMMA TypeFinish == TypeInv /\ RefsCoverOwners /\ Finish => TypeInv'
<1> SUFFICES ASSUME TypeInv, RefsCoverOwners, Finish PROVE TypeInv'
  OBVIOUS
<1>a. \A s \in Streams, b \in Buffers : QueuedIn(s, b) => refs[b] > 0
  BY OwnedIsCounted DEF IsQueued
<1> USE DEF TypeInv, TypeOK, CallOK, PlayerStates, driver, DriverRelease,
            DriverFails
<1>1. CASE LeaveLoop
  BY <1>1 DEF LeaveLoop
<1>2. CASE Drained
  BY <1>2 DEF Drained
<1>3. CASE ClosePool
  BY <1>3 DEF ClosePool
<1>4. CASE OtherCallFails \/ StopNotSent
  BY <1>4 DEF OtherCallFails, StopNotSent
<1>5. ASSUME NEW s \in Streams, DrainHeld(s) PROVE TypeInv'
  <2>1. refs' \in [Buffers -> Nat] /\ faults' \in 0..MaxFaults
    <3>1. held[s] \in Buffers
      BY <1>5 DEF DrainHeld
    <3>2. CASE DriverRelease(held[s]) /\ UNCHANGED faults
      BY <3>1, <3>2
    <3>3. CASE DriverFails(held[s])
      BY <3>1, <3>3
    <3> QED
      BY <1>5, <3>2, <3>3 DEF DrainHeld
  <2> QED
    BY <1>5, <2>1 DEF DrainHeld
<1>6. ASSUME NEW s \in Streams, StopDecoder(s) PROVE TypeInv'
  <2>1. refs' \in [Buffers -> Nat]
    BY <1>6, <1>a DEF StopDecoder
  <2> QED
    BY <1>6, <2>1 DEF StopDecoder
<1> QED
  BY <1>1, <1>2, <1>3, <1>4, <1>5, <1>6 DEF Finish

LEMMA TypeConsume ==
  ASSUME TypeInv, NEW s \in Streams, Consume(s) PROVE TypeInv'
<1> USE DEF TypeInv, TypeOK, CallOK, PlayerStates, DriverRelease
<1>1. Head(queue[s]) \in Buffers /\ Tail(queue[s]) \in Seq(Buffers)
  BY DEF Consume
<1>2. refs' \in [Buffers -> Nat]
  BY <1>1 DEF Consume
<1>3. played' \in [Streams -> Seq(Chunks)] /\ queue' \in [Streams -> Seq(Buffers)]
  BY <1>1 DEF Consume
<1> QED
  BY <1>2, <1>3 DEF Consume

LEMMA TypeNext == TypeInv /\ RefsCoverOwners /\ [Next]_vars => TypeInv'
<1>1. TypeInv /\ UNCHANGED vars => TypeInv'
  BY DEF TypeInv, TypeOK, CallOK, vars
<1> QED
  BY <1>1, TypeTransfer, TypeFinish, TypeConsume DEF Next

-----------------------------------------------------------------------------
(* Ownership: the reference counts and the users of each buffer. *)

OwnInv == TypeInv /\ RefsCoverOwners /\ NoLeak /\ OneOwner

\* How the count and the uses of one buffer may change together.
CountStep(b) ==
  /\ refs'[b] - refs[b] >= Owners(b)' - Owners(b)
  /\ faults' = 0 => refs'[b] - refs[b] = Owners(b)' - Owners(b)

LEMMA CountsKept ==
  ASSUME TypeInv, TypeInv', RefsCoverOwners, NoLeak, faults' >= faults,
         \A b \in Buffers : CountStep(b)
  PROVE  RefsCoverOwners' /\ NoLeak'
<1> SUFFICES ASSUME NEW b \in Buffers
             PROVE  /\ refs'[b] >= Owners(b)'
                    /\ faults' = 0 => refs'[b] = Owners(b)'
  BY DEF RefsCoverOwners, NoLeak
<1>1. refs[b] \in Nat /\ refs'[b] \in Nat /\ faults \in Nat /\ faults' \in Nat
  BY DEF TypeInv, TypeOK
<1>2. Owners(b) \in Nat /\ Owners(b)' \in Nat
  BY OwnersNat
<1>3. refs[b] >= Owners(b) /\ (faults = 0 => refs[b] = Owners(b))
  BY DEF RefsCoverOwners, NoLeak
<1> QED
  BY <1>1, <1>2, <1>3 DEF CountStep

\* A step that changes neither the queues nor who holds or sends what.
LEMMA OwnersUnchanged ==
  ASSUME UNCHANGED <<queue, held>>, NEW b,
         IsSending(b)' <=> IsSending(b)
  PROVE  Owners(b)' = Owners(b)
<1>1. (IsHeld(b)' <=> IsHeld(b)) /\ (IsQueued(b)' <=> IsQueued(b))
  BY DEF IsHeld, IsQueued, QueuedIn
<1> QED
  BY <1>1, OwnersSplit

\* Steps that leave counts and uses alone.
LEMMA QuietStep ==
  ASSUME OwnInv, TypeInv', UNCHANGED <<refs, queue, held>>, faults' >= faults,
         pc # "release", \A b \in Buffers : IsSending(b)' <=> IsSending(b)
  PROVE  OwnInv'
<1>1. \A b \in Buffers : CountStep(b)
  <2> TAKE b \in Buffers
  <2>1. Owners(b)' = Owners(b)
    BY OwnersUnchanged
  <2>2. Owners(b) \in Nat /\ refs[b] \in Nat
    BY OwnersNat DEF OwnInv, TypeInv, TypeOK
  <2>3. refs'[b] - refs[b] = 0 /\ Owners(b)' - Owners(b) = 0
    BY <2>1, <2>2
  <2> QED
    BY <2>3 DEF CountStep
<1>2. RefsCoverOwners' /\ NoLeak'
  BY <1>1, CountsKept DEF OwnInv
<1>3. \A b : IsQueued(b)' <=> IsQueued(b)
  BY DEF IsQueued, QueuedIn
<1>4. OneOwner'
  BY <1>3 DEF OwnInv, OneOwner, HeldOnce, QueuedOnce, HeldNotQueued
<1> QED
  BY <1>2, <1>4 DEF OwnInv

\* RUAGetBuffer: a buffer that nobody counts has no user.
LEMMA OwnGetBuffer ==
  ASSUME OwnInv, TypeInv', NEW b \in Buffers, GetBuffer(b) PROVE OwnInv'
<1> USE DEF OwnInv, TypeInv, TypeOK, CallOK
<1>1. ~IsHeld(b) /\ ~IsQueued(b)
  BY OwnedIsCounted DEF GetBuffer
<1>2. cur \in Streams /\ held[cur] = None
  BY DEF GetBuffer
<1>3. \A c : IsQueued(c)' <=> IsQueued(c)
  BY DEF IsQueued, QueuedIn, GetBuffer
<1>4. \A c \in Buffers : CountStep(c)
  <2> TAKE c \in Buffers
  <2>1. ~IsSending(c) /\ ~IsSending(c)'
    BY DEF IsSending, GetBuffer
  <2>2. IsHeld(c)' <=> (IsHeld(c) \/ c = b)
    BY <1>2 DEF IsHeld, GetBuffer
  <2>3. refs'[c] = IF c = b THEN refs[c] + 1 ELSE refs[c]
    BY DEF GetBuffer
  <2> QED
    BY <1>1, <1>3, <2>1, <2>2, <2>3, OwnersSplit DEF CountStep
<1>5. RefsCoverOwners' /\ NoLeak'
  BY <1>4, CountsKept DEF GetBuffer
<1>6. OneOwner'
  BY <1>1, <1>2, <1>3 DEF OneOwner, HeldOnce, QueuedOnce, HeldNotQueued, GetBuffer, IsHeld
<1> QED
  BY <1>5, <1>6

\* RUASendData takes one more reference on the buffer it sends.
LEMMA OwnAcquire ==
  ASSUME OwnInv, TypeInv', AcquireBuffer PROVE OwnInv'
<1>1. cur \in Streams /\ Buf \in Buffers
  BY DEF AcquireBuffer, OwnInv, TypeInv, TypeOK, CallOK, Buf
<1>2. \A c : (IsQueued(c)' <=> IsQueued(c)) /\ (IsHeld(c)' <=> IsHeld(c))
  BY DEF IsQueued, QueuedIn, IsHeld, AcquireBuffer
<1>3. \A c \in Buffers : CountStep(c)
  <2> TAKE c \in Buffers
  <2>1. ~IsSending(c) /\ (IsSending(c)' <=> c = Buf)
    BY DEF IsSending, AcquireBuffer, Buf
  <2>2. refs[c] \in Nat /\ refs'[c] = IF c = Buf THEN refs[c] + 1 ELSE refs[c]
    BY <1>1 DEF AcquireBuffer, DriverAcquire, OwnInv, TypeInv, TypeOK
  <2>3. Owners(c)' = IF c = Buf THEN Owners(c) + 1 ELSE Owners(c)
    BY <1>2, <2>1, OwnersSplit
  <2> QED
    BY <2>2, <2>3, OwnersNat DEF CountStep
<1>4. RefsCoverOwners' /\ NoLeak'
  BY <1>3, CountsKept DEF AcquireBuffer, OwnInv, TypeInv, TypeOK
<1>5. OneOwner'
  BY <1>2 DEF OneOwner, HeldOnce, QueuedOnce, HeldNotQueued, AcquireBuffer, OwnInv
<1> QED
  BY <1>4, <1>5 DEF OwnInv

\* An accepted send adds the buffer at the end of its stream's queue.
LEMMA SendAppends ==
  ASSUME TypeInv, SendAccepted, NEW s \in Streams
  PROVE  /\ Len(queue[s]) \in Nat
         /\ Len(queue'[s]) = IF s = cur THEN Len(queue[s]) + 1 ELSE Len(queue[s])
         /\ \A i \in 1..Len(queue[s]) : queue'[s][i] = queue[s][i]
         /\ s = cur => queue'[s][Len(queue[s]) + 1] = Buf
<1>1. Buf \in Buffers
  BY DEF SendAccepted, TypeInv, TypeOK, CallOK, Buf
<1>2. queue[s] \in Seq(Buffers)
  BY DEF TypeInv, TypeOK
<1>3. queue'[s] = IF s = cur THEN Append(queue[s], Buf) ELSE queue[s]
  BY DEF SendAccepted, TypeInv, TypeOK
<1> QED
  BY <1>1, <1>2, <1>3

\* An accepted send turns the reference of RUASendData into the decoder's.
LEMMA OwnSendAccepted ==
  ASSUME OwnInv, TypeInv', SendAccepted PROVE OwnInv'
<1>1. cur \in Streams /\ Buf \in Buffers /\ Buf = held[cur]
  BY DEF SendAccepted, OwnInv, TypeInv, TypeOK, CallOK, Buf
<1>2. ~IsQueued(Buf)
  BY <1>1 DEF SendAccepted, OwnInv, OneOwner, HeldNotQueued, TypeInv, CallOK
<1>3. \A s \in Streams :
        /\ Len(queue[s]) \in Nat
        /\ Len(queue'[s]) = IF s = cur THEN Len(queue[s]) + 1 ELSE Len(queue[s])
        /\ \A i \in 1..Len(queue[s]) : queue'[s][i] = queue[s][i]
        /\ s = cur => queue'[s][Len(queue[s]) + 1] = Buf
  BY SendAppends DEF OwnInv
<1>4. ASSUME NEW s \in Streams, NEW c
      PROVE  QueuedIn(s, c)' <=> QueuedIn(s, c) \/ (s = cur /\ c = Buf)
  BY <1>3 DEF QueuedIn
<1>5. \A c : IsQueued(c)' <=> IsQueued(c) \/ c = Buf
  BY <1>1, <1>4 DEF IsQueued
<1>6. \A c \in Buffers : CountStep(c)
  <2> TAKE c \in Buffers
  <2>1. (IsSending(c) <=> c = Buf) /\ ~IsSending(c)' /\ (IsHeld(c)' <=> IsHeld(c))
    BY DEF IsSending, IsHeld, SendAccepted
  <2>2. refs[c] \in Nat /\ refs'[c] = refs[c]
    BY DEF SendAccepted, OwnInv, TypeInv, TypeOK
  <2>3. (IsQueued(c)' <=> IsQueued(c) \/ c = Buf) /\ (c = Buf => ~IsQueued(c))
    BY <1>2, <1>5
  <2>4. Owners(c)' = Owners(c)
    BY <2>1, <2>3, OwnersSplit
  <2> QED
    BY <2>2, <2>4, OwnersNat DEF CountStep
<1>7. RefsCoverOwners' /\ NoLeak'
  BY <1>6, CountsKept DEF SendAccepted, OwnInv, TypeInv, TypeOK
<1>8. QueuedOnce'
  <2> SUFFICES ASSUME NEW s \in Streams, NEW t \in Streams,
                      NEW i \in 1..Len(queue'[s]), NEW j \in 1..Len(queue'[t]),
                      queue'[s][i] = queue'[t][j]
               PROVE  s = t /\ i = j
    BY DEF QueuedOnce
  <2>1. ASSUME NEW u \in Streams, NEW k \in 1..Len(queue'[u])
        PROVE  \/ k \in 1..Len(queue[u]) /\ queue'[u][k] = queue[u][k] /\ queue[u][k] # Buf
               \/ u = cur /\ k = Len(queue[u]) + 1 /\ queue'[u][k] = Buf
    BY <1>2, <1>3 DEF IsQueued, QueuedIn
  <2>2. QueuedOnce
    BY DEF OwnInv, OneOwner
  <2>3. i \in 1..Len(queue[s]) <=> j \in 1..Len(queue[t])
    BY <2>1
  <2>4. CASE i \in 1..Len(queue[s]) /\ j \in 1..Len(queue[t])
    BY <1>3, <2>2, <2>4 DEF QueuedOnce
  <2>5. CASE i \notin 1..Len(queue[s]) /\ j \notin 1..Len(queue[t])
    BY <2>1, <2>5
  <2> QED
    BY <2>3, <2>4, <2>5
<1>9. HeldOnce' /\ HeldNotQueued'
  <2>1. HeldOnce /\ HeldNotQueued
    BY DEF OwnInv, OneOwner
  <2>2. held' = held /\ cur' = cur /\ pc = "send" /\ pc' = "release"
    BY DEF SendAccepted
  <2> QED
    BY <1>1, <1>5, <2>1, <2>2 DEF HeldOnce, HeldNotQueued
<1> QED
  BY <1>7, <1>8, <1>9 DEF OwnInv, OneOwner

\* RUASendData gives the reference back, or cannot.
LEMMA OwnUnacquire ==
  ASSUME OwnInv, TypeInv', ReleaseAcquired \/ ReleaseAcquiredFails PROVE OwnInv'
<1>1. cur \in Streams /\ Buf \in Buffers /\ Buf = held[cur]
  BY DEF ReleaseAcquired, ReleaseAcquiredFails, OwnInv, TypeInv, TypeOK, CallOK, Buf
<1>2. \A c : (IsQueued(c)' <=> IsQueued(c)) /\ (IsHeld(c)' <=> IsHeld(c))
  BY DEF IsQueued, QueuedIn, IsHeld, ReleaseAcquired, ReleaseAcquiredFails
<1>3. refs[Buf] > 0 /\ faults \in Nat
  BY <1>1, OwnedIsCounted DEF OwnInv, IsHeld, TypeInv, TypeOK
<1>4. \A c \in Buffers : CountStep(c)
  <2> TAKE c \in Buffers
  <2>1. (IsSending(c) <=> c = Buf) /\ ~IsSending(c)'
    BY DEF IsSending, ReleaseAcquired, ReleaseAcquiredFails
  <2>2. refs[c] \in Nat
    BY DEF OwnInv, TypeInv, TypeOK
  <2>3. \/ refs'[c] = IF c = Buf THEN refs[c] - 1 ELSE refs[c]
        \/ refs'[c] = refs[c] /\ faults' > 0
    BY <1>1, <1>3 DEF ReleaseAcquired, ReleaseAcquiredFails, DriverRelease,
                      DriverFails, OwnInv, TypeInv, TypeOK
  <2>4. (IsQueued(c)' <=> IsQueued(c)) /\ (IsHeld(c)' <=> IsHeld(c))
    BY <1>2
  <2>5. Owners(c)' = IF c = Buf THEN Owners(c) - 1 ELSE Owners(c)
    BY <2>1, <2>4, OwnersSplit
  <2> QED
    BY <2>2, <2>3, <2>5, OwnersNat DEF CountStep
<1>5. faults' >= faults
  BY <1>3 DEF ReleaseAcquired, ReleaseAcquiredFails, DriverFails
<1>6. RefsCoverOwners' /\ NoLeak'
  BY <1>4, <1>5, CountsKept DEF OwnInv
<1>7. OneOwner'
  BY <1>2 DEF OneOwner, HeldOnce, QueuedOnce, HeldNotQueued, OwnInv, ReleaseAcquired,
              ReleaseAcquiredFails
<1> QED
  BY <1>6, <1>7 DEF OwnInv

\* The player lets go of a buffer it holds: the driver takes the reference
\* back, or the call fails and the buffer is lost to the pool.
LEMMA OwnDropHeld ==
  ASSUME OwnInv, TypeInv', NEW s \in Streams, held[s] # None,
         held' = [held EXCEPT ![s] = None], UNCHANGED <<queue, cur>>,
         \/ DriverRelease(held[s]) /\ UNCHANGED faults
         \/ DriverFails(held[s]),
         \A c : ~IsSending(c) /\ ~IsSending(c)',
         pc = "release" => s = cur
  PROVE  OwnInv'
<1>1. held[s] \in Buffers /\ IsHeld(held[s]) /\ faults \in Nat
  BY DEF OwnInv, TypeInv, TypeOK, IsHeld
<1>2. refs[held[s]] > 0
  BY <1>1, OwnedIsCounted DEF OwnInv
<1>3. HeldOnce /\ QueuedOnce /\ HeldNotQueued
  BY DEF OwnInv, OneOwner
<1>4. \A t \in Streams : held'[t] = IF t = s THEN None ELSE held[t]
  BY DEF OwnInv, TypeInv, TypeOK
<1>5. \A c \in Buffers : CountStep(c)
  <2> TAKE c \in Buffers
  <2>1. IsQueued(c)' <=> IsQueued(c)
    BY DEF IsQueued, QueuedIn
  <2>2. IsHeld(c)' <=> (IsHeld(c) /\ c # held[s])
    BY <1>3, <1>4, PoolAssumption DEF IsHeld, HeldOnce
  <2>3. refs[c] \in Nat
    BY DEF OwnInv, TypeInv, TypeOK
  <2>4. \/ refs'[c] = IF c = held[s] THEN refs[c] - 1 ELSE refs[c]
        \/ refs'[c] = refs[c] /\ faults' > 0
    BY <1>1, <1>2 DEF DriverRelease, DriverFails, OwnInv, TypeInv, TypeOK
  <2>5. Owners(c)' = IF c = held[s] THEN Owners(c) - 1 ELSE Owners(c)
    BY <1>1, <2>1, <2>2, OwnersSplit
  <2> QED
    BY <2>3, <2>4, <2>5, OwnersNat DEF CountStep
<1>6. RefsCoverOwners' /\ NoLeak'
  BY <1>1, <1>5, CountsKept DEF OwnInv, DriverFails
<1>7. HeldOnce' /\ QueuedOnce'
  BY <1>3, <1>4 DEF HeldOnce, QueuedOnce
<1>8. HeldNotQueued'
  <2>1. \A c : IsQueued(c)' <=> IsQueued(c)
    BY DEF IsQueued, QueuedIn
  <2> QED
    BY <1>3, <1>4, <2>1 DEF HeldNotQueued
<1> QED
  BY <1>6, <1>7, <1>8 DEF OwnInv, OneOwner

\* Some transfers leave a queue, oldest first or all at once, and with each
\* goes the decoder's reference.
LEMMA OwnDequeue ==
  ASSUME OwnInv, TypeInv', NEW s \in Streams, NEW n \in Nat,
         UNCHANGED <<held, cur, pc, faults>>,
         n <= Len(queue[s]),
         Len(queue'[s]) = Len(queue[s]) - n,
         \A i \in 1..Len(queue'[s]) : queue'[s][i] = queue[s][i + n],
         \A t \in Streams : t # s => queue'[t] = queue[t],
         \A c \in Buffers :
           refs'[c] = IF \E i \in 1..n : queue[s][i] = c THEN refs[c] - 1 ELSE refs[c]
  PROVE  OwnInv'
<1>1. HeldOnce /\ QueuedOnce /\ HeldNotQueued
  BY DEF OwnInv, OneOwner
<1>2. \A t \in Streams : Len(queue[t]) \in Nat /\ Len(queue'[t]) \in Nat
  <2>1. queue \in [Streams -> Seq(Buffers)] /\ queue' \in [Streams -> Seq(Buffers)]
    BY DEF OwnInv, TypeInv, TypeOK
  <2> QED
    BY <2>1
<1>3. \A t \in Streams : \A i \in 1..Len(queue'[t]) :
        IF t = s THEN i + n \in 1..Len(queue[s]) /\ queue'[t][i] = queue[s][i + n]
                 ELSE i \in 1..Len(queue[t]) /\ queue'[t][i] = queue[t][i]
  BY <1>2
<1>4. \A c : IsQueued(c)' <=> IsQueued(c) /\ ~(\E i \in 1..n : queue[s][i] = c)
  <2> TAKE c
  <2>1. ASSUME IsQueued(c)' PROVE IsQueued(c) /\ ~(\E i \in 1..n : queue[s][i] = c)
    <3>1. PICK t \in Streams : \E i \in 1..Len(queue'[t]) : queue'[t][i] = c
      BY <2>1 DEF IsQueued, QueuedIn
    <3>2. PICK i \in 1..Len(queue'[t]) : queue'[t][i] = c
      BY <3>1
    <3>3. CASE t = s
      <4>1. i + n \in 1..Len(queue[s]) /\ queue[s][i + n] = c
        BY <1>3, <3>2, <3>3
      <4>2. ASSUME NEW k \in 1..n, queue[s][k] = c PROVE FALSE
        <5>1. k \in 1..Len(queue[s])
          BY <1>2
        <5>2. k = i + n
          BY <1>1, <4>1, <4>2, <5>1 DEF QueuedOnce
        <5> QED
          BY <1>2, <5>2
      <4> QED
        BY <4>1, <4>2 DEF IsQueued, QueuedIn
    <3>4. CASE t # s
      <4>1. i \in 1..Len(queue[t]) /\ queue[t][i] = c
        BY <1>3, <3>2, <3>4
      <4>2. ASSUME NEW k \in 1..n, queue[s][k] = c PROVE FALSE
        <5>1. k \in 1..Len(queue[s])
          BY <1>2
        <5> QED
          BY <1>1, <3>4, <4>1, <4>2, <5>1 DEF QueuedOnce
      <4> QED
        BY <4>1, <4>2 DEF IsQueued, QueuedIn
    <3> QED
      BY <3>3, <3>4
  <2>2. ASSUME IsQueued(c), ~(\E i \in 1..n : queue[s][i] = c) PROVE IsQueued(c)'
    <3>1. PICK t \in Streams : \E i \in 1..Len(queue[t]) : queue[t][i] = c
      BY <2>2 DEF IsQueued, QueuedIn
    <3>2. PICK i \in 1..Len(queue[t]) : queue[t][i] = c
      BY <3>1
    <3>3. CASE t # s
      BY <3>2, <3>3 DEF IsQueued, QueuedIn
    <3>4. CASE t = s
      <4>1. i \notin 1..n
        BY <2>2, <3>2, <3>4
      <4>2. i - n \in 1..Len(queue'[s]) /\ (i - n) + n = i
        BY <1>2, <3>4, <4>1
      <4>3. queue'[s][i - n] = c
        BY <3>2, <3>4, <4>2
      <4> QED
        BY <4>2, <4>3 DEF IsQueued, QueuedIn
    <3> QED
      BY <3>3, <3>4
  <2> QED
    BY <2>1, <2>2
<1>5. \A c \in Buffers : CountStep(c)
  <2> TAKE c \in Buffers
  <2> DEFINE gone == \E i \in 1..n : queue[s][i] = c
  <2>1. gone => IsQueued(c)
    BY <1>2 DEF IsQueued, QueuedIn
  <2>2. IsQueued(c)' <=> IsQueued(c) /\ ~gone
    BY <1>4
  <2>3. (IsHeld(c)' <=> IsHeld(c)) /\ (IsSending(c)' <=> IsSending(c))
    BY DEF IsHeld, IsSending, Buf
  <2>4. refs[c] \in Nat /\ refs'[c] = IF gone THEN refs[c] - 1 ELSE refs[c]
    BY DEF OwnInv, TypeInv, TypeOK
  <2> HIDE DEF gone
  <2>5. Owners(c)' = IF gone THEN Owners(c) - 1 ELSE Owners(c)
    BY <2>1, <2>2, <2>3, OwnersSplit
  <2> QED
    BY <2>4, <2>5, OwnersNat DEF CountStep
<1>6. RefsCoverOwners' /\ NoLeak'
  <2>1. faults \in Nat /\ faults' >= faults
    BY DEF OwnInv, TypeInv, TypeOK
  <2> QED
    BY <1>5, <2>1, CountsKept DEF OwnInv
<1>7. HeldOnce' /\ HeldNotQueued'
  BY <1>1, <1>4 DEF HeldOnce, HeldNotQueued
<1>8. QueuedOnce'
  <2> SUFFICES ASSUME NEW t \in Streams, NEW u \in Streams,
                      NEW i \in 1..Len(queue'[t]), NEW j \in 1..Len(queue'[u]),
                      queue'[t][i] = queue'[u][j]
               PROVE  t = u /\ i = j
    BY DEF QueuedOnce
  <2>1. ASSUME NEW v \in Streams, NEW k \in 1..Len(queue'[v])
        PROVE  \E l \in 1..Len(queue[v]) : /\ l = IF v = s THEN k + n ELSE k
                                           /\ queue[v][l] = queue'[v][k]
    <3>1. CASE v = s
      BY <1>3, <3>1
    <3>2. CASE v # s
      BY <1>3, <3>2
    <3> QED
      BY <3>1, <3>2
  <2>2. PICK k \in 1..Len(queue[t]) : /\ k = IF t = s THEN i + n ELSE i
                                     /\ queue[t][k] = queue'[t][i]
    BY <2>1
  <2>3. PICK l \in 1..Len(queue[u]) : /\ l = IF u = s THEN j + n ELSE j
                                     /\ queue[u][l] = queue'[u][j]
    BY <2>1
  <2>4. QueuedOnce
    BY <1>1
  <2>5. queue[t][k] = queue[u][l]
    BY <2>2, <2>3
  <2>6. t = u /\ k = l
    BY <2>4, <2>5 DEF QueuedOnce
  <2>7. i \in Nat /\ j \in Nat /\ n \in Nat
    BY <1>2
  <2> QED
    BY <2>2, <2>3, <2>6, <2>7
<1> QED
  BY <1>6, <1>7, <1>8 DEF OwnInv, OneOwner

LEMMA OwnTransfer == OwnInv /\ Transfer => OwnInv'
<1> SUFFICES ASSUME OwnInv, Transfer PROVE OwnInv'
  OBVIOUS
<1>0. TypeInv' /\ faults \in Nat
  <2>1. TypeInv'
    BY TypeTransfer DEF OwnInv
  <2>2. faults \in Nat
    BY DEF OwnInv, TypeInv, TypeOK
  <2> QED
    BY <2>1, <2>2
<1>1. ASSUME NEW s \in Streams, BeginTransfer(s) PROVE OwnInv'
  BY <1>0, <1>1, QuietStep DEF BeginTransfer, driver, IsSending, Buf
<1>2. ASSUME NEW b \in Buffers, GetBuffer(b) PROVE OwnInv'
  BY <1>0, <1>2, OwnGetBuffer
<1>3. CASE GetPending
  BY <1>0, <1>3, QuietStep DEF GetPending, driver, IsSending, Buf
<1>4. CASE CopyChunk
  BY <1>0, <1>4, QuietStep DEF CopyChunk, driver, IsSending, Buf
<1>5. CASE AcquireBuffer
  BY <1>0, <1>5, OwnAcquire
<1>6. CASE AcquireFails
  BY <1>0, <1>6, QuietStep DEF AcquireFails, DriverFails, IsSending, Buf
<1>7. CASE FlushCache \/ FlushFails
  BY <1>0, <1>7, QuietStep DEF FlushCache, FlushFails, driver, IsSending, Buf
<1>8. CASE SendAccepted
  BY <1>0, <1>8, OwnSendAccepted
<1>9. CASE SendRefused
  BY <1>0, <1>9, QuietStep DEF SendRefused, driver, IsSending, Buf
<1>10. CASE ReleaseAcquired \/ ReleaseAcquiredFails
  BY <1>0, <1>10, OwnUnacquire
<1>11. CASE ReleaseHeld \/ ReleaseHeldFails
  <2>1. cur \in Streams /\ held[cur] # None
    BY <1>11 DEF ReleaseHeld, ReleaseHeldFails, OwnInv, TypeInv, CallOK
  <2>2. \A c : ~IsSending(c) /\ ~IsSending(c)'
    BY <1>11 DEF ReleaseHeld, ReleaseHeldFails, IsSending
  <2> QED
    BY <1>0, <1>11, <2>1, <2>2, OwnDropHeld DEF ReleaseHeld, ReleaseHeldFails, Buf
<1> QED
  BY <1>1, <1>2, <1>3, <1>4, <1>5, <1>6, <1>7, <1>8, <1>9, <1>10, <1>11 DEF Transfer

LEMMA OwnFinish == OwnInv /\ Finish => OwnInv'
<1> SUFFICES ASSUME OwnInv, Finish PROVE OwnInv'
  OBVIOUS
<1>0. TypeInv' /\ faults \in Nat
  <2>1. TypeInv'
    BY TypeFinish DEF OwnInv
  <2>2. faults \in Nat
    BY DEF OwnInv, TypeInv, TypeOK
  <2> QED
    BY <2>1, <2>2
<1>1. CASE LeaveLoop
  BY <1>0, <1>1, QuietStep DEF LeaveLoop, driver, IsSending, Buf
<1>2. CASE Drained
  BY <1>0, <1>2, QuietStep DEF Drained, driver, IsSending, Buf
<1>3. CASE ClosePool
  BY <1>0, <1>3, QuietStep DEF ClosePool, driver, IsSending, Buf
<1>4. CASE OtherCallFails \/ StopNotSent
  BY <1>0, <1>4, QuietStep DEF OtherCallFails, StopNotSent, driver, IsSending, Buf
<1>5. ASSUME NEW s \in Streams, DrainHeld(s) PROVE OwnInv'
  BY <1>0, <1>5, OwnDropHeld DEF DrainHeld, IsSending
<1>6. ASSUME NEW s \in Streams, StopDecoder(s) PROVE OwnInv'
  <2>1. queue \in [Streams -> Seq(Buffers)] /\ refs \in [Buffers -> Nat]
    BY DEF OwnInv, TypeInv, TypeOK
  <2>2. /\ Len(queue[s]) \in Nat /\ Len(queue'[s]) = 0
        /\ \A t \in Streams : t # s => queue'[t] = queue[t]
    BY <1>6, <2>1 DEF StopDecoder
  <2>3. \A c \in Buffers :
          refs'[c] = IF \E i \in 1..Len(queue[s]) : queue[s][i] = c
                       THEN refs[c] - 1 ELSE refs[c]
    BY <1>6 DEF StopDecoder, QueuedIn
  <2> QED
    BY <1>0, <1>6, <2>2, <2>3, OwnDequeue DEF StopDecoder
<1> QED
  BY <1>1, <1>2, <1>3, <1>4, <1>5, <1>6 DEF Finish

LEMMA OwnConsume ==
  ASSUME OwnInv, NEW s \in Streams, Consume(s) PROVE OwnInv'
<1>0. TypeInv'
  BY TypeConsume DEF OwnInv
<1>1. queue \in [Streams -> Seq(Buffers)] /\ refs \in [Buffers -> Nat] /\ queue[s] # <<>>
  BY DEF Consume, OwnInv, TypeInv, TypeOK
<1>2. Len(queue[s]) \in Nat /\ Len(queue[s]) > 0 /\ Head(queue[s]) = queue[s][1]
  BY <1>1
<1>3. /\ Len(queue'[s]) = Len(queue[s]) - 1
      /\ \A i \in 1..Len(queue'[s]) : queue'[s][i] = queue[s][i + 1]
      /\ \A t \in Streams : t # s => queue'[t] = queue[t]
  BY <1>1, <1>2 DEF Consume
<1>4. \A c \in Buffers :
        refs'[c] = IF \E i \in 1..1 : queue[s][i] = c THEN refs[c] - 1 ELSE refs[c]
  BY <1>1, <1>2 DEF Consume, DriverRelease
<1> QED
  BY <1>0, <1>2, <1>3, <1>4, OwnDequeue DEF Consume

LEMMA OwnInit == Init => OwnInv
<1> SUFFICES ASSUME Init PROVE OwnInv
  OBVIOUS
<1>1. TypeInv
  BY TypeInit
<1>2. \A s \in Streams : held[s] = None /\ Len(queue[s]) = 0
  BY DEF Init
<1>3. ASSUME NEW b \in Buffers PROVE Owners(b) = 0
  <2>1. ~IsHeld(b) /\ ~IsQueued(b)
    BY <1>2, PoolAssumption DEF IsHeld, IsQueued, QueuedIn
  <2>2. ~IsSending(b)
    BY DEF Init, IsSending
  <2> QED
    BY <2>1, <2>2, OwnersSplit
<1>4. RefsCoverOwners /\ NoLeak
  BY <1>3 DEF Init, RefsCoverOwners, NoLeak
<1>5. OneOwner
  BY <1>2 DEF OneOwner, HeldOnce, QueuedOnce, HeldNotQueued
<1> QED
  BY <1>1, <1>4, <1>5 DEF OwnInv

LEMMA OwnNext == OwnInv /\ [Next]_vars => OwnInv'
<1> SUFFICES ASSUME OwnInv, [Next]_vars PROVE OwnInv'
  OBVIOUS
<1>1. CASE UNCHANGED vars
  <2>1. TypeInv'
    BY <1>1 DEF vars, OwnInv, TypeInv, TypeOK, CallOK
  <2>2. ASSUME NEW c
        PROVE  /\ IsHeld(c)' <=> IsHeld(c)
               /\ IsSending(c)' <=> IsSending(c)
               /\ IsQueued(c)' <=> IsQueued(c)
    BY <1>1 DEF vars, IsHeld, IsSending, IsQueued, QueuedIn, Buf
  <2>3. ASSUME NEW c PROVE Owners(c)' = Owners(c)
    BY <2>2, OwnersSplit
  <2>4. RefsCoverOwners' /\ NoLeak'
    BY <1>1, <2>3 DEF vars, OwnInv, RefsCoverOwners, NoLeak
  <2>5. OneOwner'
    BY <1>1, <2>2 DEF vars, OwnInv, OneOwner, HeldOnce, QueuedOnce, HeldNotQueued
  <2> QED
    BY <2>1, <2>4, <2>5 DEF OwnInv
<1> QED
  BY <1>1, OwnTransfer, OwnFinish, OwnConsume DEF Next

\* Every variable keeps its type in every reachable state.
THEOREM TypeCorrect == Spec => []TypeOK
<1>1. OwnInv => TypeOK
  BY DEF OwnInv, TypeInv
<1> QED
  BY OwnInit, OwnNext, <1>1, PTL DEF Spec

\* No buffer has two users, and the driver's reference count never falls below
\* the number of uses; as long as no call has failed the count is exact.  So
\* RUAGetBuffer never hands out a buffer that is still held or queued, and the
\* retries after RM_PENDING lose none.
THEOREM OwnershipSafe == Spec => [](RefsCoverOwners /\ NoLeak /\ OneOwner)
<1>1. OwnInv => RefsCoverOwners /\ NoLeak /\ OneOwner
  BY DEF OwnInv
<1> QED
  BY OwnInit, OwnNext, <1>1, PTL DEF Spec

\* The driver never takes a buffer for free that the player keeps, is sending or a
\* decoder has queued: its count is at least the number of uses.
THEOREM CountsCoverUses == Spec => []RefsCoverOwners
<1>1. OwnInv => RefsCoverOwners
  BY DEF OwnInv
<1> QED
  BY OwnInit, OwnNext, <1>1, PTL DEF Spec

\* Refused sends and retries lose no buffer: until a driver call fails the count is
\* the number of uses, so a buffer nobody uses can be got again.
THEOREM NothingLost == Spec => []NoLeak
<1>1. OwnInv => NoLeak
  BY DEF OwnInv
<1> QED
  BY OwnInit, OwnNext, <1>1, PTL DEF Spec

-----------------------------------------------------------------------------
(* What is in the buffers, and what the decoders have played. *)

HeldData ==
  \A s \in Streams :
    held[s] # None /\ ~(s = cur /\ pc \in {"copy", "release"}) =>
      cache[held[s]] = Chunk(s, transferred[s] + 1)
FlushedData == ~FlushMayFail /\ pc = "send" => dram[Buf] = cache[Buf]
QueuedData ==
  ~FlushMayFail =>
    \A s \in Streams : \A i \in 1..Len(queue[s]) :
      dram[queue[s][i]] = Chunk(s, Len(played[s]) + i)
Counted ==
  /\ \A s \in Streams : s \notin stopped =>
       transferred[s] = Len(played[s]) + Len(queue[s])
  /\ \A s \in stopped : queue[s] = <<>>
  /\ stopped # {} => pc \in {"stopping", "cleanup", "closed"}

DataInv ==
  /\ OwnInv
  /\ HeldData /\ FlushedData /\ QueuedData /\ Counted
  /\ PlayedInOrder /\ CleanupOnlyAfterFault

\* Steps that touch neither memory nor the streams' counts; the player may let
\* go of a buffer.
LEMMA DataUntouched ==
  ASSUME DataInv, OwnInv', UNCHANGED <<queue, dram, played, stopped, cache, transferred>>,
         \A s \in Streams : held'[s] = held[s] \/ held'[s] = None,
         \A s \in Streams : s = cur /\ pc \in {"copy", "release"} =>
           held'[s] = None,
         pc' # "send",
         stopped # {} => pc' \in {"stopping", "cleanup", "closed"},
         pc' = "cleanup" => pc = "cleanup" \/ faults' > 0,
         pc = "cleanup" => faults' = faults
  PROVE  DataInv'
<1>1. HeldData'
  BY DEF DataInv, HeldData
<1>2. QueuedData' /\ PlayedInOrder'
  BY DEF DataInv, QueuedData, PlayedInOrder
<1>3. Counted'
  BY DEF DataInv, Counted
<1>4. FlushedData' /\ CleanupOnlyAfterFault'
  BY DEF DataInv, FlushedData, CleanupOnlyAfterFault
<1> QED
  BY <1>1, <1>2, <1>3, <1>4 DEF DataInv

\* The driver refuses no call on a buffer that the player holds.
LEMMA HeldCallFailsByFault ==
  ASSUME OwnInv, NEW s \in Streams, held[s] # None, DriverFails(held[s])
  PROVE  faults' > 0
<1>1. held[s] \in Buffers /\ IsHeld(held[s]) /\ faults \in Nat
  BY DEF OwnInv, TypeInv, TypeOK, IsHeld
<1>2. refs[held[s]] > 0
  BY <1>1, OwnedIsCounted DEF OwnInv
<1> QED
  BY <1>1, <1>2 DEF DriverFails

LEMMA OneMore == ASSUME NEW p \in Nat, NEW q \in Nat PROVE p + (q + 1) = (p + q) + 1
OBVIOUS

LEMMA OneAside ==
  ASSUME NEW p \in Nat, NEW i \in Nat PROVE p + (i + 1) = (p + 1) + i
OBVIOUS

LEMMA AddThenTake == ASSUME NEW p \in Nat, NEW q \in Nat PROVE (p + q) - p = q
OBVIOUS

LEMMA SmallerPart == ASSUME NEW p \in Nat, NEW q \in Nat \ {0} PROVE p < p + q
OBVIOUS

LEMMA OneShifted ==
  ASSUME NEW p \in Nat, NEW q \in Nat PROVE p + q = (p + 1) + (q - 1)
OBVIOUS

LEMMA DataTransfer == DataInv /\ Transfer => DataInv'
<1> SUFFICES ASSUME DataInv, Transfer PROVE DataInv'
  OBVIOUS
<1>0. OwnInv /\ OwnInv' /\ faults \in Nat
  <2>1. OwnInv
    BY DEF DataInv
  <2>2. faults \in Nat
    BY <2>1 DEF OwnInv, TypeInv, TypeOK
  <2> QED
    BY <2>1, <2>2, OwnTransfer
<1>1. ASSUME NEW s \in Streams, BeginTransfer(s) PROVE DataInv'
  BY <1>0, <1>1, DataUntouched DEF BeginTransfer, driver, DataInv, Counted
<1>2. ASSUME NEW b \in Buffers, GetBuffer(b) PROVE DataInv'
  <2>1. \A s \in Streams : s # cur => held'[s] = held[s]
    BY <1>0, <1>2 DEF GetBuffer, OwnInv, TypeInv, TypeOK
  <2>2. HeldData'
    BY <1>2, <2>1 DEF GetBuffer, DataInv, HeldData
  <2> QED
    BY <1>0, <1>2, <2>2 DEF GetBuffer, DataInv, FlushedData, QueuedData, Counted,
                            PlayedInOrder, CleanupOnlyAfterFault
<1>3. CASE GetPending
  BY <1>0, <1>3, DataUntouched DEF GetPending, driver, DataInv, Counted
<1>4. CASE CopyChunk
  <2>1. cur \in Streams /\ Buf \in Buffers /\ Buf = held[cur]
    BY <1>0, <1>4 DEF CopyChunk, OwnInv, TypeInv, TypeOK, CallOK, Buf
  <2>2. \A s \in Streams : s # cur /\ held[s] # None => held[s] # Buf
    BY <1>0, <2>1, PoolAssumption DEF OwnInv, OneOwner, HeldOnce
  <2>3. \A c \in Buffers :
          cache'[c] = IF c = Buf THEN Chunk(cur, transferred[cur] + 1) ELSE cache[c]
    BY <1>0, <1>4 DEF CopyChunk, OwnInv, TypeInv, TypeOK
  <2>4. held \in [Streams -> Buffers \cup {None}]
    BY <1>0 DEF OwnInv, TypeInv, TypeOK
  <2>5. HeldData'
    BY <1>4, <2>1, <2>2, <2>3, <2>4 DEF CopyChunk, DataInv, HeldData
  <2> QED
    BY <1>0, <1>4, <2>5 DEF CopyChunk, driver, DataInv, FlushedData, QueuedData,
                            Counted, PlayedInOrder, CleanupOnlyAfterFault
<1>5. CASE AcquireBuffer
  BY <1>0, <1>5, DataUntouched DEF AcquireBuffer, DataInv, Counted
<1>6. CASE AcquireFails
  <2>1. cur \in Streams /\ held[cur] # None
    BY <1>0, <1>6 DEF AcquireFails, OwnInv, TypeInv, CallOK
  <2>2. faults' > 0
    BY <1>0, <1>6, <2>1, HeldCallFailsByFault DEF AcquireFails, Buf
  <2> QED
    BY <1>0, <1>6, <2>2, DataUntouched DEF AcquireFails, DataInv, Counted
<1>7. CASE FlushCache
  <2>1. cur \in Streams /\ Buf \in Buffers /\ Buf = held[cur] /\ Buf # None
    BY <1>0, <1>7 DEF FlushCache, OwnInv, TypeInv, TypeOK, CallOK, Buf
  <2>2. ~IsQueued(Buf)
    BY <1>0, <1>7, <2>1 DEF FlushCache, OwnInv, OneOwner, HeldNotQueued
  <2>3. \A c \in Buffers : dram'[c] = IF c = Buf THEN cache[Buf] ELSE dram[c]
    BY <1>0, <1>7 DEF FlushCache, OwnInv, TypeInv, TypeOK
  <2>4. \A s \in Streams : queue[s] \in Seq(Buffers)
    BY <1>0 DEF OwnInv, TypeInv, TypeOK
  <2>5. QueuedData'
    <3> SUFFICES ASSUME ~FlushMayFail, NEW s \in Streams, NEW i \in 1..Len(queue[s])
                 PROVE  dram'[queue[s][i]] = Chunk(s, Len(played[s]) + i)
      BY <1>7 DEF FlushCache, QueuedData
    <3>1. queue[s][i] \in Buffers /\ queue[s][i] # Buf
      BY <2>2, <2>4 DEF IsQueued, QueuedIn
    <3> QED
      BY <2>3, <3>1 DEF DataInv, QueuedData
  <2>6. FlushedData'
    BY <1>7, <2>1, <2>3 DEF FlushCache, FlushedData, Buf
  <2>7. HeldData'
    BY <1>7 DEF FlushCache, DataInv, HeldData
  <2> QED
    BY <1>0, <1>7, <2>5, <2>6, <2>7 DEF FlushCache, DataInv, Counted, PlayedInOrder,
                                        CleanupOnlyAfterFault
<1>13. CASE FlushFails
  BY <1>0, <1>13 DEF FlushFails, driver, DataInv, HeldData, FlushedData, QueuedData,
                     Counted, PlayedInOrder, CleanupOnlyAfterFault, Buf
<1>8. CASE SendAccepted
  <2>1. cur \in Streams /\ Buf \in Buffers /\ Buf = held[cur] /\ Buf # None
    BY <1>0, <1>8 DEF SendAccepted, OwnInv, TypeInv, TypeOK, CallOK, Buf
  <2>2. ~FlushMayFail => dram[Buf] = Chunk(cur, Len(played[cur]) + Len(queue[cur]) + 1)
    BY <1>8, <2>1 DEF SendAccepted, DataInv, FlushedData, HeldData, Counted
  <2>3. \A s \in Streams :
          /\ Len(queue[s]) \in Nat /\ Len(played[s]) \in Nat
          /\ transferred'[s] = IF s = cur THEN transferred[s] + 1 ELSE transferred[s]
          /\ transferred[s] \in Nat
    BY <1>0, <1>8 DEF SendAccepted, OwnInv, TypeInv, TypeOK
  <2>a. \A s \in Streams :
          /\ Len(queue'[s]) = IF s = cur THEN Len(queue[s]) + 1 ELSE Len(queue[s])
          /\ \A i \in 1..Len(queue[s]) : queue'[s][i] = queue[s][i]
          /\ s = cur => queue'[s][Len(queue[s]) + 1] = Buf
    BY <1>0, <1>8, SendAppends DEF OwnInv
  <2>4. QueuedData'
    <3> SUFFICES ASSUME ~FlushMayFail, NEW s \in Streams, NEW i \in 1..Len(queue'[s])
                 PROVE  dram[queue'[s][i]] = Chunk(s, Len(played[s]) + i)
      BY <1>8 DEF SendAccepted, QueuedData
    <3>1. CASE i \in 1..Len(queue[s])
      BY <2>a, <3>1 DEF DataInv, QueuedData
    <3>2. CASE i \notin 1..Len(queue[s])
      <4>1. s = cur /\ i = Len(queue[cur]) + 1 /\ queue'[s][i] = Buf
        BY <2>3, <2>a, <3>2
      <4>2. Len(played[s]) + i = Len(played[cur]) + Len(queue[cur]) + 1
        <5>1. Len(played[cur]) \in Nat /\ Len(queue[cur]) \in Nat
          BY <2>1, <2>3
        <5>2. Len(played[cur]) + (Len(queue[cur]) + 1)
                = (Len(played[cur]) + Len(queue[cur])) + 1
          BY <5>1, OneMore
        <5> QED
          BY <4>1, <5>2
      <4> QED
        BY <2>2, <4>1, <4>2
    <3> QED
      BY <3>1, <3>2
  <2>5. Counted'
    <3>1. stopped = {} /\ stopped' = stopped /\ played' = played
      BY <1>8 DEF SendAccepted, DataInv, Counted
    <3>2. \A s \in Streams : transferred[s] = Len(played[s]) + Len(queue[s])
      BY <3>1 DEF DataInv, Counted
    <3>3. \A s \in Streams : transferred'[s] = Len(played[s]) + Len(queue'[s])
      <4> TAKE s \in Streams
      <4>1. /\ Len(queue[s]) \in Nat /\ Len(played[s]) \in Nat /\ transferred[s] \in Nat
            /\ transferred[s] = Len(played[s]) + Len(queue[s])
        BY <2>3, <3>2
      <4>2. CASE s = cur
        <5>1. Len(played[s]) + (Len(queue[s]) + 1) = (Len(played[s]) + Len(queue[s])) + 1
          BY <4>1, OneMore
        <5>2. transferred'[s] = transferred[s] + 1 /\ Len(queue'[s]) = Len(queue[s]) + 1
          BY <2>3, <2>a, <4>2
        <5> QED
          BY <4>1, <5>1, <5>2
      <4>3. CASE s # cur
        BY <2>3, <2>a, <4>1, <4>3
      <4> QED
        BY <4>2, <4>3
    <3> QED
      BY <3>1, <3>3 DEF Counted
  <2>6. HeldData'
    BY <1>8, <2>3 DEF SendAccepted, DataInv, HeldData
  <2> QED
    BY <1>0, <1>8, <2>4, <2>5, <2>6 DEF SendAccepted, DataInv, FlushedData,
                                        PlayedInOrder, CleanupOnlyAfterFault
<1>9. CASE SendRefused
  BY <1>0, <1>9, DataUntouched DEF SendRefused, driver, DataInv, Counted
<1>10. CASE ReleaseAcquired
  BY <1>0, <1>10, DataUntouched DEF ReleaseAcquired, DataInv, Counted
<1>11. CASE ReleaseAcquiredFails
  <2>1. cur \in Streams /\ held[cur] # None
    BY <1>0, <1>11 DEF ReleaseAcquiredFails, OwnInv, TypeInv, CallOK
  <2>2. faults' > 0
    BY <1>0, <1>11, <2>1, HeldCallFailsByFault DEF ReleaseAcquiredFails, Buf
  <2> QED
    BY <1>0, <1>11, <2>2, DataUntouched DEF ReleaseAcquiredFails, DataInv, Counted
<1>12. CASE ReleaseHeld \/ ReleaseHeldFails
  <2>1. cur \in Streams /\ held[cur] # None
    BY <1>0, <1>12 DEF ReleaseHeld, ReleaseHeldFails, OwnInv, TypeInv, CallOK
  <2>2. ReleaseHeldFails => faults' > 0
    BY <1>0, <2>1, HeldCallFailsByFault DEF ReleaseHeldFails, Buf
  <2>3. \A s \in Streams : held'[s] = IF s = cur THEN None ELSE held[s]
    BY <1>0, <1>12 DEF ReleaseHeld, ReleaseHeldFails, OwnInv, TypeInv, TypeOK
  <2> QED
    BY <1>0, <1>12, <2>2, <2>3, DataUntouched DEF ReleaseHeld, ReleaseHeldFails,
                                                  DataInv, Counted
<1> QED
  BY <1>1, <1>2, <1>3, <1>4, <1>5, <1>6, <1>7, <1>8, <1>9, <1>10, <1>11, <1>12,
     <1>13 DEF Transfer

LEMMA DataFinish == DataInv /\ Finish => DataInv'
<1> SUFFICES ASSUME DataInv, Finish PROVE DataInv'
  OBVIOUS
<1>0. OwnInv /\ OwnInv' /\ faults \in Nat
  <2>1. OwnInv
    BY DEF DataInv
  <2>2. faults \in Nat
    BY <2>1 DEF OwnInv, TypeInv, TypeOK
  <2> QED
    BY <2>1, <2>2, OwnFinish
<1>1. CASE LeaveLoop
  BY <1>0, <1>1, DataUntouched DEF LeaveLoop, driver, DataInv, Counted
<1>2. CASE Drained
  BY <1>0, <1>2, DataUntouched DEF Drained, driver, DataInv, Counted
<1>3. CASE ClosePool
  BY <1>0, <1>3, DataUntouched DEF ClosePool, driver, DataInv, Counted
<1>4. CASE OtherCallFails
  <2>1. faults' > 0
    BY <1>0, <1>4 DEF OtherCallFails
  <2>2. UNCHANGED <<queue, dram, played, stopped, cache, transferred, held>>
    BY <1>4 DEF OtherCallFails, driver
  <2>3. pc' = "cleanup" /\ pc \in {"ready", "stopping"}
    BY <1>4 DEF OtherCallFails
  <2> QED
    BY <1>0, <2>1, <2>2, <2>3, DataUntouched DEF DataInv, Counted
<1>7. CASE StopNotSent
  BY <1>0, <1>7, DataUntouched DEF StopNotSent, driver, DataInv, Counted
<1>5. ASSUME NEW s \in Streams, DrainHeld(s) PROVE DataInv'
  <2>1. \A t \in Streams : held'[t] = held[t] \/ held'[t] = None
    BY <1>0, <1>5 DEF DrainHeld, OwnInv, TypeInv, TypeOK
  <2> QED
    BY <1>0, <1>5, <2>1, DataUntouched DEF DrainHeld, DataInv, Counted
<1>6. ASSUME NEW s \in Streams, StopDecoder(s) PROVE DataInv'
  <2>1. \A t \in Streams : queue'[t] = IF t = s THEN <<>> ELSE queue[t]
    BY <1>0, <1>6 DEF StopDecoder, OwnInv, TypeInv, TypeOK
  <2>2. QueuedData'
    BY <1>6, <2>1 DEF StopDecoder, DataInv, QueuedData
  <2>3. Counted'
    <3>1. stopped' = stopped \cup {s} /\ transferred' = transferred /\ played' = played
      BY <1>6 DEF StopDecoder
    <3>2. pc = "stopping" /\ pc' = pc
      BY <1>6 DEF StopDecoder
    <3>3. \A t \in Streams : t \notin stopped' =>
            transferred'[t] = Len(played'[t]) + Len(queue'[t])
      <4> TAKE t \in Streams
      <4> HAVE t \notin stopped'
      <4>1. t # s /\ t \notin stopped
        BY <3>1
      <4>2. queue'[t] = queue[t]
        BY <2>1, <4>1
      <4> QED
        BY <3>1, <4>1, <4>2 DEF DataInv, Counted
    <3>4. stopped \subseteq Streams
      BY <1>0 DEF OwnInv, TypeInv, TypeOK
    <3>5. \A t \in stopped' : queue'[t] = <<>>
      BY <2>1, <3>1, <3>4 DEF DataInv, Counted
    <3> QED
      BY <3>2, <3>3, <3>5 DEF Counted
  <2>4. HeldData' /\ FlushedData'
    BY <1>6 DEF StopDecoder, DataInv, HeldData, FlushedData
  <2> QED
    BY <1>0, <1>6, <2>2, <2>3, <2>4 DEF StopDecoder, DataInv, PlayedInOrder,
                                        CleanupOnlyAfterFault
<1> QED
  BY <1>1, <1>2, <1>3, <1>4, <1>5, <1>6, <1>7 DEF Finish

\* The decoder takes the oldest transfer, which is the chunk it needs next.
LEMMA ConsumeTakesNext ==
  ASSUME DataInv, NEW s \in Streams, Consume(s)
  PROVE  /\ s \notin stopped
         /\ Len(queue[s]) \in Nat \ {0} /\ Len(played[s]) \in Nat
         /\ Len(queue'[s]) = Len(queue[s]) - 1
         /\ \A i \in 1..Len(queue'[s]) : queue'[s][i] = queue[s][i + 1]
         /\ \A t \in Streams : t # s => queue'[t] = queue[t] /\ played'[t] = played[t]
         /\ played'[s] = Append(played[s], dram[queue[s][1]])
         /\ played[s] \in Seq(Chunks) /\ dram[queue[s][1]] \in Chunks
         /\ ~FlushMayFail => dram[queue[s][1]] = Chunk(s, Len(played[s]) + 1)
<1>1. /\ queue \in [Streams -> Seq(Buffers)] /\ played \in [Streams -> Seq(Chunks)]
      /\ queue[s] # <<>>
  BY DEF Consume, DataInv, OwnInv, TypeInv, TypeOK
<1>2. s \notin stopped
  BY <1>1 DEF DataInv, Counted
<1>3. Len(queue[s]) \in Nat \ {0} /\ Head(queue[s]) = queue[s][1] /\ Len(played[s]) \in Nat
  BY <1>1
<1>4. /\ Len(queue'[s]) = Len(queue[s]) - 1
      /\ \A i \in 1..Len(queue'[s]) : queue'[s][i] = queue[s][i + 1]
  BY <1>1, <1>3 DEF Consume
<1>5. \A t \in Streams : t # s => queue'[t] = queue[t] /\ played'[t] = played[t]
  BY <1>1 DEF Consume
<1>6. played'[s] = Append(played[s], dram[queue[s][1]])
  BY <1>1, <1>3 DEF Consume
<1>7. ~FlushMayFail => dram[queue[s][1]] = Chunk(s, Len(played[s]) + 1)
  BY <1>3 DEF DataInv, QueuedData
<1>8. dram[queue[s][1]] \in Chunks
  <2>1. queue[s][1] \in Buffers
    BY <1>1, <1>3
  <2> QED
    BY <2>1 DEF DataInv, OwnInv, TypeInv, TypeOK
<1> QED
  BY <1>1, <1>2, <1>3, <1>4, <1>5, <1>6, <1>7, <1>8

LEMMA DataConsume ==
  ASSUME DataInv, NEW s \in Streams, Consume(s) PROVE DataInv'
<1>0. OwnInv'
  BY OwnConsume DEF DataInv
<1> DEFINE p == Len(played[s])
           q == Len(queue[s])
<1>1. /\ s \notin stopped /\ stopped' = stopped
      /\ q \in Nat \ {0} /\ p \in Nat
      /\ Len(queue'[s]) = q - 1
      /\ \A i \in 1..Len(queue'[s]) : queue'[s][i] = queue[s][i + 1]
      /\ \A t \in Streams : t # s => queue'[t] = queue[t] /\ played'[t] = played[t]
  BY ConsumeTakesNext DEF Consume
<1>2. /\ Len(played'[s]) = p + 1
      /\ \A i \in 1..p : played'[s][i] = played[s][i]
      /\ ~FlushMayFail => played'[s][p + 1] = Chunk(s, p + 1)
  <2>1. /\ played'[s] = Append(played[s], dram[queue[s][1]])
        /\ played[s] \in Seq(Chunks) /\ dram[queue[s][1]] \in Chunks
        /\ ~FlushMayFail => dram[queue[s][1]] = Chunk(s, p + 1)
    BY ConsumeTakesNext
  <2>2. /\ Len(played'[s]) = p + 1
        /\ \A i \in 1..p : played'[s][i] = played[s][i]
        /\ played'[s][p + 1] = dram[queue[s][1]]
    BY <2>1
  <2> QED
    BY <2>1, <2>2
<1>3. QueuedData'
  <2> SUFFICES ASSUME ~FlushMayFail, NEW t \in Streams, NEW i \in 1..Len(queue'[t])
               PROVE  dram[queue'[t][i]] = Chunk(t, Len(played'[t]) + i)
    BY DEF Consume, QueuedData
  <2>1. CASE t = s
    <3>1. i \in Nat /\ i + 1 \in 1..q /\ queue'[t][i] = queue[s][i + 1]
      BY <1>1, <2>1
    <3>2. dram[queue[s][i + 1]] = Chunk(s, p + (i + 1))
      BY <3>1 DEF DataInv, QueuedData
    <3>3. p + (i + 1) = (p + 1) + i
      <4> HIDE DEF p
      <4> QED
        BY <1>1, <3>1, OneAside
    <3> QED
      BY <1>2, <2>1, <3>1, <3>2, <3>3
  <2>2. CASE t # s
    <3>1. queue'[t] = queue[t] /\ played'[t] = played[t]
      BY <1>1, <2>2
    <3>2. i \in 1..Len(queue[t])
      BY <3>1
    <3>3. dram[queue[t][i]] = Chunk(t, Len(played[t]) + i)
      BY <3>2 DEF DataInv, QueuedData
    <3> QED
      BY <3>1, <3>3
  <2> QED
    BY <2>1, <2>2
<1>4. Counted'
  <2>1. transferred[s] = p + q
    BY <1>1 DEF DataInv, Counted
  <2>2. p + q = (p + 1) + (q - 1)
    <3> HIDE DEF p, q
    <3> QED
      BY <1>1, OneShifted
  <2>3. transferred' = transferred /\ pc' = pc
    BY DEF Consume
  <2>4. \A t \in Streams : t \notin stopped' =>
          transferred'[t] = Len(played'[t]) + Len(queue'[t])
    <3> TAKE t \in Streams
    <3> HAVE t \notin stopped'
    <3>1. CASE t = s
      BY <1>1, <1>2, <2>1, <2>2, <2>3, <3>1
    <3>2. CASE t # s
      <4>1. queue'[t] = queue[t] /\ played'[t] = played[t] /\ t \notin stopped
        BY <1>1, <3>2
      <4> QED
        BY <2>3, <4>1 DEF DataInv, Counted
    <3> QED
      BY <3>1, <3>2
  <2>5. stopped \subseteq Streams
    BY DEF DataInv, OwnInv, TypeInv, TypeOK
  <2>6. \A t \in stopped' : queue'[t] = <<>>
    BY <1>1, <2>5 DEF DataInv, Counted
  <2>7. stopped' # {} => pc' \in {"stopping", "cleanup", "closed"}
    BY <1>1, <2>3 DEF DataInv, Counted
  <2> QED
    BY <2>4, <2>6, <2>7 DEF Counted
<1>5. PlayedInOrder'
  <2> SUFFICES ASSUME ~FlushMayFail, NEW t \in Streams, NEW i \in 1..Len(played'[t])
               PROVE  played'[t][i] = Chunk(t, i)
    BY DEF PlayedInOrder
  <2>1. CASE t = s /\ i \in 1..p
    BY <1>2, <2>1 DEF DataInv, PlayedInOrder
  <2>2. CASE t = s /\ i \notin 1..p
    BY <1>1, <1>2, <2>2
  <2>3. CASE t # s
    BY <1>1, <2>3 DEF DataInv, PlayedInOrder
  <2> QED
    BY <2>1, <2>2, <2>3
<1>6. HeldData' /\ FlushedData' /\ CleanupOnlyAfterFault'
  BY DEF Consume, DataInv, HeldData, FlushedData, CleanupOnlyAfterFault, Buf
<1> QED
  BY <1>0, <1>3, <1>4, <1>5, <1>6 DEF DataInv

LEMMA DataInit == Init => DataInv
<1> SUFFICES ASSUME Init PROVE DataInv
  OBVIOUS
<1>1. OwnInv
  BY OwnInit
<1>2. \A s \in Streams : /\ held[s] = None /\ transferred[s] = 0
                         /\ Len(queue[s]) = 0 /\ Len(played[s]) = 0
  BY DEF Init
<1> QED
  BY <1>1, <1>2 DEF Init, DataInv, HeldData, FlushedData, QueuedData, Counted,
                    PlayedInOrder, CleanupOnlyAfterFault

LEMMA DataNext == DataInv /\ [Next]_vars => DataInv'
<1> SUFFICES ASSUME DataInv, [Next]_vars PROVE DataInv'
  OBVIOUS
<1>1. CASE UNCHANGED vars
  <2>1. OwnInv'
    BY OwnNext DEF DataInv
  <2> QED
    BY <1>1, <2>1 DEF vars, DataInv, HeldData, FlushedData, QueuedData, Counted,
                      PlayedInOrder, CleanupOnlyAfterFault, Buf
<1> QED
  BY <1>1, DataTransfer, DataFinish, DataConsume DEF Next

LEMMA DataHolds == Spec => []DataInv
BY DataInit, DataNext, PTL DEF Spec

\* Every decoder plays the chunks of its file from the first on, in order, none
\* left out and none twice.  The argument: a buffer kept over RM_PENDING holds
\* the chunk after those transferred (HeldData), what is queued continues what
\* is played (QueuedData), and transferred counts both (Counted).
THEOREM InOrder == Spec => []PlayedInOrder
<1>1. DataInv => PlayedInOrder
  BY DEF DataInv
<1> QED
  BY DataHolds, <1>1, PTL

\* transfer_data calls cleanup, which ends the player, only when a driver call
\* has failed: a full queue or an empty pool never does.
THEOREM CleanupJustified == Spec => []CleanupOnlyAfterFault
<1>1. DataInv => CleanupOnlyAfterFault
  BY DEF DataInv
<1> QED
  BY DataHolds, <1>1, PTL

\* A buffer kept over RM_PENDING is sent again with the chunk it was filled
\* with, the one after the last chunk transferred.
THEOREM RetrySound == Spec => []RetryKeepsChunk
<1>1. DataInv => RetryKeepsChunk
  BY DEF DataInv, HeldData, RetryKeepsChunk
<1> QED
  BY DataHolds, <1>1, PTL

-----------------------------------------------------------------------------
(* What a step may not do. *)

LEMMA QueuedStep ==
  ASSUME OwnInv, [Next]_vars, NEW b \in Buffers, IsQueued(b)
  PROVE  cache'[b] = cache[b] /\ dram'[b] = dram[b]
<1>1. CASE CopyChunk \/ FlushCache
  <2>1. cur \in Streams /\ Buf = held[cur] /\ Buf # None
    BY <1>1 DEF CopyChunk, FlushCache, OwnInv, TypeInv, CallOK, Buf
  <2>2. Buf # b
    BY <1>1, <2>1 DEF CopyChunk, FlushCache, OwnInv, OneOwner, HeldNotQueued
  <2>3. cache \in [Buffers -> Chunks] /\ dram \in [Buffers -> Chunks]
    BY DEF OwnInv, TypeInv, TypeOK
  <2>4. CASE CopyChunk
    BY <2>2, <2>3, <2>4 DEF CopyChunk, driver
  <2>5. CASE FlushCache
    BY <2>2, <2>3, <2>5 DEF FlushCache
  <2> QED
    BY <1>1, <2>4, <2>5
<1>2. CASE Transfer /\ ~CopyChunk /\ ~FlushCache
  BY <1>2 DEF Transfer, BeginTransfer, GetBuffer, GetPending, AcquireBuffer, AcquireFails,
              FlushFails, SendAccepted, SendRefused, ReleaseAcquired, ReleaseAcquiredFails,
              ReleaseHeld, ReleaseHeldFails, driver
<1>3. CASE Finish
  BY <1>3 DEF Finish, LeaveLoop, Drained, ClosePool, OtherCallFails, DrainHeld,
              StopDecoder, StopNotSent, driver
<1>4. ASSUME NEW s \in Streams, Consume(s)
      PROVE  cache'[b] = cache[b] /\ dram'[b] = dram[b]
  BY <1>4 DEF Consume
<1>5. CASE UNCHANGED vars
  BY <1>5 DEF vars
<1> QED
  BY <1>1, <1>2, <1>3, <1>4, <1>5 DEF Next

\* Neither the memcpy of transfer_data nor a flush writes a buffer that a
\* decoder has queued.
THEOREM QueuedBuffersUntouched == Spec => QueuedUntouched
<1>1. OwnInv /\ [Next]_vars =>
        [\A b \in Buffers : IsQueued(b) => cache'[b] = cache[b] /\ dram'[b] = dram[b]]_vars
  BY QueuedStep
<1> QED
  BY OwnInit, OwnNext, <1>1, PTL DEF Spec, QueuedUntouched

-----------------------------------------------------------------------------
(* RuaPool implements StreamDelivery. *)

LEMMA DeliverySend ==
  ASSUME DataInv, SendAccepted PROVE Delivery!Send(cur)
<1>1. /\ cur \in Streams /\ pc = "send" /\ Len(queue[cur]) < QueueDepth
      /\ transferred[cur] < Length[cur]
  BY DEF SendAccepted, DataInv, OwnInv, TypeInv, CallOK
<1>2. stopped = {}
  BY <1>1 DEF DataInv, Counted
<1>3. transferred[cur] = Len(played[cur]) + Len(queue[cur])
  BY <1>1, <1>2 DEF DataInv, Counted
<1>4. Len(played[cur]) \in Nat /\ Len(queue[cur]) \in Nat
  BY <1>1 DEF DataInv, OwnInv, TypeInv, TypeOK
<1>5. transferred[cur] - Len(played[cur]) = Len(queue[cur])
  BY <1>3, <1>4, AddThenTake
<1> QED
  BY <1>1, <1>2, <1>5 DEF SendAccepted, Delivery!Send

LEMMA DeliveryPlay ==
  ASSUME DataInv, ~FlushMayFail, NEW s \in Streams, Consume(s) PROVE Delivery!Play(s)
<1>1. /\ s \notin stopped
      /\ Len(queue[s]) \in Nat \ {0} /\ Len(played[s]) \in Nat
      /\ dram[queue[s][1]] = Chunk(s, Len(played[s]) + 1)
  BY ConsumeTakesNext DEF DataInv, QueuedData
<1>2. transferred[s] = Len(played[s]) + Len(queue[s])
  BY <1>1 DEF DataInv, Counted
<1>3. Len(played[s]) < transferred[s]
  BY <1>1, <1>2, SmallerPart
<1>4. played' = [played EXCEPT ![s] = Append(@, dram[queue[s][1]])]
  <2>1. Head(queue[s]) = queue[s][1]
    BY DEF DataInv, OwnInv, TypeInv, TypeOK
  <2> QED
    BY <2>1 DEF Consume
<1> QED
  BY <1>1, <1>3, <1>4 DEF Consume, Delivery!Play, Delivery!Chunk, Chunk

LEMMA DeliveryStep ==
  ASSUME ~FlushMayFail, DataInv, [Next]_vars PROVE [Delivery!Next]_(Delivery!vars)
<1>1. CASE SendAccepted
  <2>1. cur \in Streams
    BY <1>1 DEF SendAccepted, DataInv, OwnInv, TypeInv, CallOK
  <2> QED
    BY <1>1, <2>1, DeliverySend DEF Delivery!Next
<1>2. ASSUME NEW s \in Streams, Consume(s) PROVE Delivery!Next
  BY <1>2, DeliveryPlay DEF Delivery!Next
<1>3. ASSUME NEW s \in Streams, StopDecoder(s) PROVE Delivery!Next
  BY <1>3 DEF StopDecoder, Delivery!Next, Delivery!Stop
<1>4. CASE Transfer /\ ~SendAccepted
  BY <1>4 DEF Transfer, BeginTransfer, GetBuffer, GetPending, CopyChunk, AcquireBuffer,
              AcquireFails, FlushCache, FlushFails, SendRefused, ReleaseAcquired,
              ReleaseAcquiredFails, ReleaseHeld, ReleaseHeldFails, driver, Delivery!vars
<1>5. CASE LeaveLoop \/ Drained \/ ClosePool \/ OtherCallFails \/ StopNotSent
           \/ \E s \in Streams : DrainHeld(s)
  BY <1>5 DEF LeaveLoop, Drained, ClosePool, OtherCallFails, StopNotSent, DrainHeld,
              driver, Delivery!vars
<1>6. CASE UNCHANGED vars
  BY <1>6 DEF vars, Delivery!vars
<1> QED
  BY <1>1, <1>2, <1>3, <1>4, <1>5, <1>6 DEF Next, Finish

\* A player that moves its files through the pool implements in-order delivery
\* when no flush fails: for every stream the pool is a channel of QueueDepth
\* chunks from the file to the decoder.
THEOREM PoolImplementsDelivery ==
  ASSUME ~FlushMayFail PROVE Spec => ImplementsDelivery
<1>1. Init => Delivery!Init
  BY DEF Init, Delivery!Init
<1>2. DataInv /\ [Next]_vars => [Delivery!Next]_(Delivery!vars)
  BY DeliveryStep
<1> QED
  BY DataHolds, <1>1, <1>2, PTL DEF Spec, Delivery!Spec, ImplementsDelivery

=============================================================================
