-------------------------- MODULE RawPlayerProofs ---------------------------
(***************************************************************************)
(* playrawmp4's loop is one of the players that module RuaPool allows, so  *)
(* everything proved of RuaPool holds of it.                               *)
(***************************************************************************)
EXTENDS RawPlayer, RuaPoolProofs

LEMMA RawStep ==
  ASSUME [RawNext]_allVars PROVE [Next]_vars
<1> USE DEF Next, Transfer, Finish
<1>1. CASE VideoTurn \/ AudioTurn
  BY <1>1, RawAssumption DEF VideoTurn, AudioTurn
<1>2. CASE AudioNotDue \/ AccountAudio \/ StartNotDue \/ Signal
  BY <1>2 DEF AudioNotDue, AccountAudio, StartNotDue, Signal, vars
<1>3. CASE StartPlay \/ StopFails
  BY <1>3 DEF StartPlay, StopFails
<1>4. CASE LoopEnds \/ RawClose
  BY <1>4 DEF LoopEnds, RawClose
<1>5. CASE PoolStep
  BY <1>5 DEF PoolStep
<1>6. CASE StopVideo \/ StopAudio
  BY <1>6, RawAssumption DEF StopVideo, StopAudio
<1>7. ASSUME NEW s \in Streams, DecoderStep(s) PROVE Next
  BY <1>7 DEF DecoderStep
<1>8. CASE UNCHANGED allVars
  BY <1>8 DEF allVars, vars
<1> QED
  BY <1>1, <1>2, <1>3, <1>4, <1>5, <1>6, <1>7, <1>8 DEF RawNext, PlayerStep

\* The transfer loop of playrawmp4 is a player of RuaPool: every step it makes
\* is one of the pool's or leaves the pool alone.
THEOREM RawPlayerIsPlayer == RawSpec => Spec
<1>1. RawInit => Init
  BY DEF RawInit
<1>2. [RawNext]_allVars => [Next]_vars
  BY RawStep
<1> QED
  BY <1>1, <1>2, PTL DEF RawSpec, Spec

\* So playrawmp4 never has a buffer that two parties use, loses none while no
\* call fails, and plays both files in order.
THEOREM RawPlayerSafe ==
  RawSpec => [](RefsCoverOwners /\ NoLeak /\ OneOwner /\ PlayedInOrder)
BY RawPlayerIsPlayer, OwnershipSafe, InOrder, PTL

-----------------------------------------------------------------------------
(* Where the loop is while the pool is where it is. *)

Sending == {"get", "copy", "acquire", "flush", "send", "unacquire", "release"}

Places ==
  /\ pc \in Sending => \/ cur = video /\ at = "audio"
                       \/ cur = audio /\ at = "account"
  /\ pc = "ready" => at \in {"video", "audio", "account", "start"}

LEMMA PlacesPool ==
  ASSUME Places, PoolStep PROVE Places'
<1>1. CASE \/ \E b \in Buffers : GetBuffer(b)
           \/ GetPending \/ CopyChunk \/ AcquireBuffer \/ AcquireFails
           \/ FlushCache \/ FlushFails
  <2>1. pc \in Sending /\ UNCHANGED <<cur, at>>
    BY <1>1 DEF GetBuffer, GetPending, CopyChunk, AcquireBuffer, AcquireFails, FlushCache,
         FlushFails, Sending, PoolStep, loop
  <2> QED
    BY <2>1 DEF Places
<1>2. CASE SendAccepted \/ SendRefused \/ ReleaseAcquired \/ ReleaseAcquiredFails
           \/ ReleaseHeld \/ ReleaseHeldFails
  <2>1. pc \in Sending /\ UNCHANGED <<cur, at>>
    BY <1>2 DEF SendAccepted, SendRefused, ReleaseAcquired, ReleaseAcquiredFails,
         ReleaseHeld, ReleaseHeldFails, Sending, PoolStep, loop
  <2> QED
    BY <2>1 DEF Places
<1>3. CASE Drained \/ \E s \in Streams : DrainHeld(s)
  <2>1. pc' \in {"drain", "stopping"}
    BY <1>3 DEF Drained, DrainHeld
  <2> QED
    BY <2>1 DEF Places, Sending
<1> QED
  BY <1>1, <1>2, <1>3 DEF PoolStep

LEMMA PlacesLoop ==
  ASSUME Places, VideoTurn \/ AudioTurn \/ AudioNotDue \/ AccountAudio \/ StartPlay \/ StartNotDue
  PROVE  Places'
<1>1. CASE VideoTurn \/ AudioTurn
  <2>1. /\ pc' \in Sending /\ pc' # "ready"
        /\ \/ cur' = video /\ at' = "audio"
           \/ cur' = audio /\ at' = "account"
    BY <1>1 DEF VideoTurn, AudioTurn, BeginTransfer, Goto, Sending
  <2> QED
    BY <2>1 DEF Places
<1>2. CASE AudioNotDue \/ AccountAudio \/ StartPlay \/ StartNotDue
  <2>1. pc' \in {"ready", "cleanup"} /\ at' \in {"start", "video"}
    BY <1>2 DEF AudioNotDue, AccountAudio, StartPlay, StartNotDue, OtherCallFails, InLoop,
         Goto, vars
  <2> QED
    BY <2>1 DEF Places, Sending
<1> QED
  BY <1>1, <1>2

LEMMA PlacesOthers ==
  ASSUME Places,
         \/ LoopEnds \/ StopVideo \/ StopAudio \/ StopFails \/ RawClose
         \/ Signal \/ (\E s \in Streams : DecoderStep(s)) \/ UNCHANGED allVars
  PROVE  Places'
<1>1. CASE LoopEnds \/ StopVideo \/ StopAudio \/ StopFails \/ RawClose
  <2>1. pc' \in {"drain", "stopping", "cleanup", "closed"}
    BY <1>1 DEF LoopEnds, LeaveLoop, StopVideo, StopAudio, StopFails, RawClose, StopDecoder,
         StopNotSent, OtherCallFails, ClosePool
  <2> QED
    BY <2>1 DEF Places, Sending
<1>2. CASE Signal \/ (\E s \in Streams : DecoderStep(s)) \/ UNCHANGED allVars
  <2>1. UNCHANGED <<pc, cur, at>>
    BY <1>2 DEF Signal, DecoderStep, Consume, allVars, vars, loop
  <2> QED
    BY <2>1 DEF Places
<1> QED
  BY <1>1, <1>2

LEMMA PlacesHold == RawSpec => []Places
<1>1. RawInit => Places
  BY DEF RawInit, Init, Places, Sending
<1>2. ASSUME Places, [RawNext]_allVars PROVE Places'
  BY <1>2, PlacesPool, PlacesLoop, PlacesOthers DEF RawNext, PlayerStep
<1> QED
  BY <1>1, <1>2, PTL DEF RawSpec

-----------------------------------------------------------------------------
(* Audio keeps to its share of the pool. *)

LEMMA Divides ==
  ASSUME NEW a \in Nat, NEW n \in Nat \ {0}
  PROVE  a \div n \in Nat /\ n * (a \div n) <= a /\ a < n * (a \div n) + n
OBVIOUS

LEMMA TimesMonotone ==
  ASSUME NEW c \in Nat, NEW a \in Nat, NEW b \in Nat, a <= b
  PROVE  c * a \in Nat /\ c * b \in Nat /\ c * a <= c * b /\ a * c = c * a
OBVIOUS

LEMMA SmallerAdds ==
  ASSUME NEW a \in Nat, NEW b \in Nat, NEW size \in Nat
  PROVE  Smaller(Smaller(a, size) + b, size) = Smaller(a + b, size)
BY DEF Smaller

LEMMA RawTypes ==
  /\ video \in Streams /\ audio \in Streams /\ video # audio
  /\ Size[video] \in Nat \ {0} /\ Size[audio] \in Nat \ {0} /\ BufferSize \in Nat \ {0}
BY RawAssumption

LEMMA FactorBounds ==
  /\ vafactor \in Nat
  /\ BufferSize * Size[video] <= Size[audio] * (vafactor + 1)
<1> DEFINE whole == BufferSize * Size[video]
           part == Size[audio]
<1>1. whole \in Nat /\ part \in Nat \ {0}
  BY RawTypes
<1>2. vafactor = whole \div part
  BY DEF vafactor
<1> HIDE DEF whole, part
<1>3. vafactor \in Nat /\ whole < part * vafactor + part
  BY <1>1, <1>2, Divides
<1>4. part * (vafactor + 1) = part * vafactor + part
  BY <1>1, <1>3
<1>5. part * vafactor \in Nat
  BY <1>1, <1>3
<1>6. whole <= part * (vafactor + 1)
  BY <1>1, <1>3, <1>4, <1>5
<1> QED
  BY <1>3, <1>6 DEF whole, part

\* All chunks before the last are full.
LEMMA FullChunks ==
  ASSUME NEW n \in Nat, n < Length[audio]
  PROVE  n * BufferSize \in Nat /\ n * BufferSize < Size[audio]
<1> DEFINE q == Length[audio]
           all == BufferSize * q
           some == BufferSize * (n + 1)
<1>1. BufferSize \in Nat \ {0} /\ Size[audio] \in Nat \ {0}
  BY RawTypes
<1>2. q \in Nat /\ all <= Size[audio] + BufferSize - 1
  <2>1. q = (Size[audio] + BufferSize - 1) \div BufferSize
    BY RawAssumption
  <2>2. Size[audio] + BufferSize - 1 \in Nat
    BY <1>1
  <2> QED
    BY <1>1, <2>1, <2>2, Divides
<1>3. some <= all /\ some \in Nat /\ all \in Nat
  BY <1>1, <1>2, TimesMonotone
<1>4. some = n * BufferSize + BufferSize /\ n * BufferSize \in Nat
  BY <1>1
<1> HIDE DEF some, all
<1> QED
  BY <1>1, <1>2, <1>3, <1>4

\* n full buffers of audio at v bytes of video are within the share.
InShare(n, v) == n * BufferSize * Size[video] <= Size[audio] * (v + n)

\* As many bytes of video as n buffers of audio wait for are enough.
LEMMA EnoughVideo ==
  ASSUME NEW n \in Nat, n < Length[audio], NEW v \in Nat,
         Smaller(n * vafactor, Size[video]) <= v
  PROVE  InShare(n, v)
<1> DEFINE bytes == n * BufferSize
           sv == Size[video]
           sa == Size[audio]
<1>1. bytes \in Nat /\ bytes < sa /\ sv \in Nat \ {0} /\ sa \in Nat \ {0}
  BY FullChunks, RawTypes
<1>2. vafactor \in Nat /\ n * vafactor \in Nat
  BY FactorBounds
<1>3. CASE sv <= v
  <2>1. bytes * sv <= sa * sv
    <3> HIDE DEF bytes, sv, sa
    <3> QED
      BY <1>1, TimesMonotone
  <2>2. sa * sv <= sa * (v + n)
    <3>1. sv <= v + n /\ v + n \in Nat
      BY <1>1, <1>3
    <3> HIDE DEF sv, sa
    <3> QED
      BY <1>1, <3>1, TimesMonotone
  <2>3. bytes * sv \in Nat /\ sa * sv \in Nat /\ sa * (v + n) \in Nat
    BY <1>1
  <2>4. bytes * sv <= sa * (v + n)
    <3> HIDE DEF bytes, sv, sa
    <3> QED
      BY <2>1, <2>2, <2>3
  <2> QED
    BY <2>4 DEF InShare
<1>4. CASE n * vafactor <= v
  <2> DEFINE rate == BufferSize * sv
             up == sa * (vafactor + 1)
  <2>1. rate \in Nat /\ up \in Nat /\ rate <= up
    BY <1>1, <1>2, FactorBounds, RawTypes
  <2>2. n * rate <= n * up /\ n * rate \in Nat /\ n * up \in Nat
    <3> HIDE DEF rate, up
    <3> QED
      BY <2>1, TimesMonotone
  <2>3. bytes * sv = n * rate
    BY <1>1, RawTypes
  <2>4. n * up = sa * (n * vafactor + n)
    <3> HIDE DEF sa
    <3> QED
      BY <1>1, <1>2
  <2>5. sa * (n * vafactor + n) <= sa * (v + n) /\ sa * (v + n) \in Nat
    <3>1. n * vafactor + n \in Nat /\ n * vafactor + n <= v + n /\ v + n \in Nat
      BY <1>2, <1>4
    <3> DEFINE x == n * vafactor + n
               y == v + n
    <3>2. x \in Nat /\ y \in Nat /\ x <= y /\ sa \in Nat
      BY <3>1, <1>1
    <3>3. sa * x <= sa * y /\ sa * y \in Nat
      <4> HIDE DEF x, y, sa
      <4> QED
        BY <3>2, TimesMonotone
    <3> QED
      BY <3>3
  <2>6. bytes * sv <= sa * (v + n)
    <3> DEFINE left == n * rate
               mid == n * up
               right == sa * (v + n)
    <3>1. left <= mid /\ mid <= right /\ left \in Nat /\ mid \in Nat /\ right \in Nat
      BY <2>2, <2>4, <2>5
    <3>2. left <= right
      <4> HIDE DEF left, mid, right
      <4> QED
        BY <3>1
    <3> QED
      BY <3>2, <2>3
  <2> QED
    BY <2>6 DEF InShare
<1> QED
  BY <1>1, <1>2, <1>3, <1>4 DEF Smaller

\* More video never takes a buffer of audio out of its share.
LEMMA ShareGrows ==
  ASSUME NEW n \in Nat, NEW v \in Nat, NEW w \in Nat, v <= w, InShare(n, v)
  PROVE  InShare(n, w)
<1> DEFINE a == v + n
           b == w + n
           left == n * BufferSize * Size[video]
           sa == Size[audio]
<1>1. a \in Nat /\ b \in Nat /\ a <= b /\ left \in Nat /\ sa \in Nat
  BY RawTypes
<1>2. left <= sa * a
  BY DEF InShare
<1>3. left <= sa * b
  <2> HIDE DEF a, b, left, sa
  <2>1. sa * a <= sa * b /\ sa * a \in Nat /\ sa * b \in Nat
    BY <1>1, TimesMonotone
  <2> QED
    BY <1>1, <1>2, <2>1
<1> QED
  BY <1>3 DEF InShare

LEMMA ShareIsWithin ==
  ASSUME TypeInv
  PROVE  AudioWithinShare <=> (transferred[audio] > 1 => InShare(transferred[audio] - 1, Bytes(video)))
BY DEF AudioWithinShare, InShare

LEMMA BytesMonotone ==
  ASSUME NEW m \in Nat, NEW n \in Nat, m <= n, NEW s \in Streams
  PROVE  /\ Smaller(m * BufferSize, Size[s]) \in Nat
         /\ Smaller(m * BufferSize, Size[s]) <= Smaller(n * BufferSize, Size[s])
<1>1. BufferSize \in Nat /\ Size[s] \in Nat
  BY RawAssumption
<1> DEFINE x == m * BufferSize
           y == n * BufferSize
<1>2. x \in Nat /\ y \in Nat /\ x <= y
  BY <1>1, TimesMonotone
<1> HIDE DEF x, y
<1>3. Smaller(x, Size[s]) \in Nat /\ Smaller(x, Size[s]) <= Smaller(y, Size[s])
  BY <1>1, <1>2 DEF Smaller
<1> QED
  BY <1>3 DEF x, y

\* avalue and vvalue after n buffers of audio were accounted for.
Known(n) ==
  /\ avalue = Smaller(n * BufferSize, Size[audio])
  /\ vvalue = Smaller(n * vafactor, Size[video])

\* The last buffer of audio was accepted and is not accounted for yet.
JustSent ==
  /\ transferred[audio] # 0 /\ transferred[audio] - 1 < Length[audio]
  /\ Known(transferred[audio] - 1)

\* What the loop has accounted for is what was transferred, up to the call in progress,
\* and audio is sent only when enough video was.
Accounts ==
  /\ pc = "ready" /\ at # "account" => Known(transferred[audio])
  /\ pc = "ready" /\ at = "account" => Known(transferred[audio]) \/ JustSent
  /\ pc \in Sending /\ cur = video => Known(transferred[audio])
  /\ pc \in Sending \ {"release"} /\ cur = audio =>
       Known(transferred[audio]) /\ vvalue <= Bytes(video)
  /\ pc = "release" /\ cur = audio => JustSent

ShareInv == Accounts /\ AudioWithinShare

\* Neither counts nor accounts change.
LEMMA KnownStays ==
  ASSUME UNCHANGED <<avalue, vvalue, transferred>>
  PROVE  /\ Known(transferred[audio])' <=> Known(transferred[audio])
         /\ JustSent' <=> JustSent
         /\ AudioWithinShare' <=> AudioWithinShare
         /\ Bytes(video)' = Bytes(video)
BY DEF Known, JustSent, AudioWithinShare, Bytes, Smaller, vafactor

\* Steps of the pool that send nothing, and steps beside the loop.
LEMMA ShareQuiet ==
  ASSUME ShareInv, UNCHANGED <<avalue, vvalue, transferred, cur, at>>,
         \/ pc' = pc \/ pc' \notin Sending \cup {"ready"}
         \/ /\ pc \in Sending \ {"release"} /\ pc' \in Sending \ {"release"}
         \/ /\ pc \in Sending /\ pc' = "ready"
            /\ (cur = video /\ at # "account") \/ (cur = audio /\ at = "account")
  PROVE  ShareInv'
<1>1. AudioWithinShare'
  BY KnownStays DEF ShareInv
<1>2. Accounts'
  BY KnownStays, RawTypes DEF ShareInv, Accounts, Sending
<1> QED
  BY <1>1, <1>2 DEF ShareInv

LEMMA SharePool ==
  ASSUME TypeInv, Places, ShareInv, PoolStep, ~SendAccepted PROVE ShareInv'
<1>1. UNCHANGED <<avalue, vvalue, at>>
  BY DEF PoolStep, loop
<1>2. CASE \/ \E b \in Buffers : GetBuffer(b)
           \/ GetPending \/ CopyChunk \/ AcquireBuffer \/ AcquireFails
           \/ FlushCache \/ FlushFails
  <2>1. /\ UNCHANGED <<transferred, cur>>
        /\ \/ pc' = "cleanup"
           \/ pc \in Sending \ {"release"} /\ pc' \in (Sending \ {"release"}) \cup {"ready"}
    BY <1>2 DEF GetBuffer, GetPending, CopyChunk, AcquireBuffer, AcquireFails, FlushCache,
         FlushFails, Sending
  <2>2. pc \in Sending => (cur = video /\ at # "account") \/ (cur = audio /\ at = "account")
    BY DEF Places
  <2>3. "cleanup" \notin Sending \cup {"ready"}
    BY DEF Sending
  <2> QED
    BY <1>1, <2>1, <2>2, <2>3, ShareQuiet
<1>3. CASE SendRefused \/ ReleaseAcquired \/ ReleaseAcquiredFails
           \/ ReleaseHeld \/ ReleaseHeldFails
  <2>1. /\ UNCHANGED <<transferred, cur>> /\ pc \in Sending
        /\ \/ pc' = "cleanup" \/ pc' = "ready"
           \/ pc \in Sending \ {"release"} /\ pc' \in Sending \ {"release"}
    BY <1>3 DEF SendRefused, ReleaseAcquired, ReleaseAcquiredFails, ReleaseHeld,
         ReleaseHeldFails, Sending
  <2>2. (cur = video /\ at # "account") \/ (cur = audio /\ at = "account")
    BY <2>1 DEF Places
  <2>3. "cleanup" \notin Sending \cup {"ready"}
    BY DEF Sending
  <2> QED
    BY <1>1, <2>1, <2>2, <2>3, ShareQuiet
<1>4. CASE Drained \/ \E s \in Streams : DrainHeld(s)
  <2>1. /\ UNCHANGED <<transferred, cur>> /\ pc' \in {"drain", "stopping"}
    BY <1>4 DEF Drained, DrainHeld
  <2>2. pc' \notin Sending \cup {"ready"}
    BY <2>1 DEF Sending
  <2> QED
    BY <1>1, <2>1, <2>2, ShareQuiet
<1> QED
  BY <1>2, <1>3, <1>4 DEF PoolStep

\* A chunk of video: more video. A chunk of audio: its share was waited for.
LEMMA ShareSend ==
  ASSUME TypeInv, TypeInv', Places, ShareInv, PoolStep, SendAccepted PROVE ShareInv'
<1>1. /\ pc = "send" /\ pc' = "release" /\ cur' = cur /\ UNCHANGED <<at, avalue, vvalue>>
      /\ transferred' = [transferred EXCEPT ![cur] = transferred[cur] + 1]
  BY DEF SendAccepted, PoolStep, loop
<1>2. /\ transferred \in [Streams -> Nat] /\ transferred[cur] < Length[cur]
      /\ cur \in {video, audio}
  BY <1>1, RawAssumption DEF TypeInv, TypeOK, CallOK
<1>3. pc \in Sending \ {"release"} /\ pc' \in Sending
  BY <1>1 DEF Sending
<1> DEFINE t == transferred[audio]
           v == Bytes(video)
           w == Bytes(video)'
<1>4. v \in Nat /\ w \in Nat /\ v <= w
  <2>1. /\ transferred[video] \in Nat /\ transferred'[video] \in Nat
        /\ transferred[video] <= transferred'[video]
    BY <1>1, <1>2, RawTypes
  <2>2. /\ v = Smaller(transferred[video] * BufferSize, Size[video])
        /\ w = Smaller(transferred'[video] * BufferSize, Size[video])
    BY DEF Bytes, Smaller
  <2>3. /\ Smaller(transferred[video] * BufferSize, Size[video]) \in Nat
        /\ Smaller(transferred[video] * BufferSize, Size[video]) <=
             Smaller(transferred'[video] * BufferSize, Size[video])
    BY <2>1, RawTypes, BytesMonotone
  <2>4. Smaller(transferred'[video] * BufferSize, Size[video]) \in Nat
    <3> DEFINE n == transferred'[video]
    <3>1. n \in Nat /\ n <= n
      BY <2>1
    <3> HIDE DEF n
    <3>2. Smaller(n * BufferSize, Size[video]) \in Nat
      BY <3>1, RawTypes, BytesMonotone
    <3> QED
      BY <3>2 DEF n
  <2> QED
    BY <2>2, <2>3, <2>4
<1>5. CASE cur = video
  <2>1. transferred'[audio] = t /\ t \in Nat
    BY <1>1, <1>2, <1>5, RawTypes
  <2>2. Known(t)
    BY <1>3, <1>5 DEF ShareInv, Accounts
  <2>3. Known(transferred[audio])'
    BY <1>1, <2>1, <2>2 DEF Known, Smaller, vafactor
  <2>4. Accounts'
    BY <1>1, <1>5, <2>3, RawTypes DEF Accounts, Sending
  <2>5. t > 1 => InShare(t - 1, v)
    BY ShareIsWithin DEF ShareInv
  <2>6. t > 1 => InShare(t - 1, w)
    <3> SUFFICES ASSUME t > 1 PROVE InShare(t - 1, w)
      OBVIOUS
    <3>1. t - 1 \in Nat /\ InShare(t - 1, v)
      BY <2>1, <2>5
    <3> HIDE DEF v, w, t
    <3> QED
      BY <1>4, <3>1, ShareGrows
  <2>7. AudioWithinShare'
    BY <2>1, <2>6 DEF AudioWithinShare, InShare
  <2> QED
    BY <2>4, <2>7 DEF ShareInv
<1>6. CASE cur = audio
  <2>1. transferred'[audio] = t + 1 /\ t \in Nat /\ t < Length[audio] /\ transferred'[video] = transferred[video]
    BY <1>1, <1>2, <1>6, RawTypes
  <2>2. Known(t) /\ vvalue <= v
    BY <1>3, <1>6 DEF ShareInv, Accounts
  <2>3. InShare(t, v)
    <3>1. Smaller(t * vafactor, Size[video]) <= v
      BY <2>2 DEF Known
    <3> HIDE DEF v, t
    <3> QED
      BY <1>4, <2>1, <3>1, EnoughVideo
  <2>4. w = v
    BY <2>1 DEF Bytes, Smaller
  <2>5. transferred'[audio] - 1 = t
    BY <2>1
  <2>6. AudioWithinShare'
    BY <2>3, <2>4, <2>5 DEF AudioWithinShare, InShare
  <2>7. JustSent'
    BY <1>1, <2>1, <2>2, <2>5 DEF JustSent, Known, Smaller, vafactor
  <2>8. Accounts'
    BY <1>1, <1>6, <2>7, RawTypes DEF Accounts, Sending
  <2> QED
    BY <2>6, <2>8 DEF ShareInv
<1> QED
  BY <1>2, <1>5, <1>6

LEMMA ShareTurn ==
  ASSUME TypeInv, ShareInv, VideoTurn \/ AudioTurn PROVE ShareInv'
<1>1. /\ pc = "ready" /\ at # "account" /\ pc' \in {"get", "acquire"}
      /\ \/ cur' = video
         \/ cur' = audio /\ vvalue <= Bytes(video)
      /\ UNCHANGED <<avalue, vvalue, transferred>>
  BY DEF VideoTurn, AudioTurn, AudioDue, BeginTransfer, InLoop
<1>2. Known(transferred[audio])' /\ AudioWithinShare' /\ Bytes(video)' = Bytes(video)
  BY <1>1, KnownStays DEF ShareInv, Accounts
<1>3. Accounts'
  BY <1>1, <1>2, RawTypes DEF Accounts, Sending
<1> QED
  BY <1>2, <1>3 DEF ShareInv

LEMMA ShareAccount ==
  ASSUME TypeInv, ShareInv, AccountAudio PROVE ShareInv'
<1>1. /\ pc = "ready" /\ at = "account" /\ pc' = "ready" /\ at' = "start"
      /\ UNCHANGED transferred
  BY DEF AccountAudio, InLoop, Goto, vars
<1>2. AudioWithinShare'
  BY <1>1 DEF ShareInv, AudioWithinShare, Bytes, Smaller
<1> DEFINE t == transferred[audio]
<1>3. t \in Nat
  BY RawTypes DEF TypeInv, TypeOK
<1>4. ASSUME Known(t) PROVE Known(transferred[audio])'
  <2>1. avalue = Bytes(audio)
    BY <1>4 DEF Known, Bytes
  <2>2. Bytes(audio) \in Nat
    BY <1>3, RawTypes, BytesMonotone DEF Bytes
  <2>3. ~(avalue < Bytes(audio))
    BY <2>1, <2>2
  <2>4. UNCHANGED <<avalue, vvalue>>
    BY <2>3 DEF AccountAudio
  <2> QED
    BY <1>1, <1>4, <2>4, KnownStays
<1>5. ASSUME JustSent PROVE Known(transferred[audio])'
  <2> DEFINE k == t - 1
             less == k * BufferSize
             more == t * BufferSize
             due == k * vafactor
  <2>1. k \in Nat /\ k < Length[audio] /\ Known(k)
    BY <1>3, <1>5 DEF JustSent
  <2>2. less \in Nat /\ less < Size[audio]
    BY <2>1, FullChunks
  <2>3. more = less + BufferSize /\ BufferSize \in Nat \ {0} /\ Size[audio] \in Nat \ {0}
    BY <1>3, RawTypes
  <2>4. due \in Nat /\ vafactor \in Nat /\ t * vafactor = due + vafactor /\ Size[video] \in Nat
    BY <1>3, <2>1, FactorBounds, RawTypes
  <2>5. avalue = Smaller(less, Size[audio]) /\ vvalue = Smaller(due, Size[video])
    BY <2>1 DEF Known
  <2>6. Bytes(audio) = Smaller(more, Size[audio])
    BY DEF Bytes
  <2> HIDE DEF less, more, due
  <2>7. avalue < Bytes(audio)
    BY <2>2, <2>3, <2>5, <2>6 DEF Smaller
  <2>8. /\ vvalue' = Smaller(vvalue + vafactor, Size[video])
        /\ avalue' = Smaller(avalue + BufferSize, Size[audio])
    BY <2>7 DEF AccountAudio
  <2>9. vvalue' = Smaller(due + vafactor, Size[video])
    BY <2>4, <2>5, <2>8, SmallerAdds
  <2>10. avalue' = Smaller(less + BufferSize, Size[audio])
    BY <2>2, <2>3, <2>5, <2>8, SmallerAdds
  <2> QED
    BY <1>1, <2>3, <2>4, <2>9, <2>10 DEF Known, Smaller, vafactor, more
<1>6. Known(t) \/ JustSent
  BY <1>1 DEF ShareInv, Accounts
<1>7. Known(transferred[audio])'
  BY <1>4, <1>5, <1>6
<1>8. Accounts'
  BY <1>1, <1>7 DEF Accounts, Sending
<1> QED
  BY <1>2, <1>8 DEF ShareInv

\* Steps of the loop that leave the accounts alone, and of the others.
LEMMA ShareLoop ==
  ASSUME TypeInv, ShareInv,
         \/ AudioNotDue \/ StartPlay \/ StartNotDue \/ LoopEnds
         \/ StopVideo \/ StopAudio \/ StopFails \/ RawClose
         \/ Signal \/ (\E s \in Streams : DecoderStep(s)) \/ UNCHANGED allVars
  PROVE  ShareInv'
<1>1. CASE AudioNotDue \/ StartPlay \/ StartNotDue
  <2>1. /\ pc = "ready" /\ at # "account" /\ pc' \in {"ready", "cleanup"} /\ at' # "account"
        /\ UNCHANGED <<avalue, vvalue, transferred>>
    BY <1>1 DEF AudioNotDue, StartPlay, StartNotDue, OtherCallFails, InLoop, Goto, vars
  <2>2. Known(transferred[audio])' /\ AudioWithinShare'
    BY <2>1, KnownStays DEF ShareInv, Accounts
  <2>3. Accounts'
    BY <2>1, <2>2 DEF Accounts, Sending
  <2> QED
    BY <2>2, <2>3 DEF ShareInv
<1>2. CASE LoopEnds \/ StopVideo \/ StopAudio \/ StopFails \/ RawClose
  <2>1. /\ pc' \in {"drain", "stopping", "cleanup", "closed"}
        /\ UNCHANGED <<avalue, vvalue, transferred>>
    BY <1>2 DEF LoopEnds, LeaveLoop, StopVideo, StopAudio, StopFails, RawClose, StopDecoder,
         StopNotSent, OtherCallFails, ClosePool, loop
  <2>2. AudioWithinShare'
    BY <2>1, KnownStays DEF ShareInv
  <2>3. Accounts'
    BY <2>1 DEF Accounts, Sending
  <2> QED
    BY <2>2, <2>3 DEF ShareInv
<1>3. CASE Signal \/ (\E s \in Streams : DecoderStep(s)) \/ UNCHANGED allVars
  <2>1. UNCHANGED <<avalue, vvalue, transferred, cur, at, pc>>
    BY <1>3 DEF Signal, DecoderStep, Consume, allVars, vars, loop
  <2> QED
    BY <2>1, ShareQuiet
<1> QED
  BY <1>1, <1>2, <1>3

LEMMA ShareStart == RawInit => ShareInv
<1> SUFFICES ASSUME RawInit PROVE ShareInv
  OBVIOUS
<1>1. /\ transferred[audio] = 0 /\ pc = "ready" /\ at = "video" /\ avalue = 0 /\ vvalue = 0
  BY RawTypes DEF RawInit, Init
<1>2. 0 * BufferSize = 0 /\ 0 * vafactor = 0 /\ Size[audio] \in Nat /\ Size[video] \in Nat
  BY RawTypes, FactorBounds
<1>3. Known(transferred[audio])
  BY <1>1, <1>2 DEF Known, Smaller
<1>4. AudioWithinShare
  BY <1>1 DEF AudioWithinShare
<1> QED
  BY <1>1, <1>3, <1>4 DEF ShareInv, Accounts, Sending

\* Audio never gets more of the pool than its share of the video transferred, whatever
\* the sizes of the files and of the buffers and wherever a send is refused: the video
\* always gets enough buffers to be buffered.
THEOREM ShareKept == RawSpec => []AudioWithinShare
<1>1. DataInv => TypeInv
  BY DEF DataInv, OwnInv
<1>2. ASSUME TypeInv, TypeInv', Places, ShareInv, [RawNext]_allVars PROVE ShareInv'
  BY <1>2, SharePool, ShareSend, ShareTurn, ShareAccount, ShareLoop DEF RawNext, PlayerStep
<1>3. ShareInv => AudioWithinShare
  BY DEF ShareInv
<1> QED
  BY <1>1, <1>2, <1>3, ShareStart, PlacesHold, RawPlayerIsPlayer, DataHolds, PTL DEF RawSpec

=============================================================================
