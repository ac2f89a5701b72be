-------------------------- MODULE DccSourcesProofs --------------------------
(***************************************************************************)
(* Proofs about the memory of the sources, for any number of video         *)
(* sources, parts and blocks, and any number of failing calls and crashes, *)
(* but for a crash between a giving back and the reset of its pointer;     *)
(* and proof that the sources lose no memory while nothing fails.          *)
(***************************************************************************)
EXTENDS DccSources, FiniteSetTheorems, SequenceTheorems, TLAPS

VideoPlaces == {"vrequired", "valloc", "vsource", "vsched", "vdec", "vopen", "vsurface",
                "cdecoder", "cparts", "ccount", "cdec", "cdecfree", "csched", "caddress",
                "cschedfree", "cend"}
AudioPlaces == {"aengine", "ashm", "asetshm", "amem", "aopen",
                "bdecoder", "bshm", "baddress", "bshmfree", "bparts"}

Types ==
  /\ alloc \subseteq Blocks
  /\ engine \in [Shared -> Blocks \cup {None}]
  /\ uses \in [Sources -> SUBSET Blocks]
  /\ handle \in [Sources -> {"none", "bare", "bound"}]
  /\ own \in [Sources -> [Parts -> Blocks \cup {None}]]
  /\ res \in [Kinds -> Blocks \cup {None}]

\* What the place in a call says of the source it is about.
Places ==
  /\ pc \in {"idle"} \cup VideoPlaces \cup AudioPlaces
  /\ pc \in VideoPlaces => cur \in VideoSources
  /\ pc \in AudioPlaces => cur \in AudioSources
  /\ \A s \in Sources : handle[s] # "bound" => own[s] = NoParts
  /\ pc \in {"vsched", "vdec", "vopen", "vsurface"} => handle[cur] = "bound"
  /\ pc \in {"idle", "vrequired", "aengine", "ashm"} => res = Nothing
  /\ pc \in {"cparts", "ccount"} /\ handle[cur] = "bound" => uses[cur] = {}
  /\ pc \in {"bshm", "baddress", "bshmfree", "bparts"} => uses[cur] = {}
  /\ pc \in {"cdec", "cdecfree", "csched", "caddress", "cschedfree"} =>
       \A v \in VideoSources : uses[v] = {}

\* Everybody's memory is given out, and belongs to one of them; a decoder works with
\* parts of its own source and memory of its own engine only.
Kept ==
  /\ \A s \in Sources, p \in Parts : own[s][p] # None => own[s][p] \in alloc
  /\ \A s, t \in Sources, p, q \in Parts :
       own[s][p] = own[t][q] /\ own[s][p] # None => s = t /\ p = q
  /\ \A k \in Shared : engine[k] # None => engine[k] \in alloc
  /\ \A k \in Shared, s \in Sources, p \in Parts : engine[k] # None => own[s][p] # engine[k]
  /\ \A k, l \in Shared : engine[k] = engine[l] /\ engine[k] # None => k = l
  /\ \A s \in Sources : uses[s] \subseteq alloc
  /\ \A s, t \in Sources, p \in Parts : own[t][p] \in uses[s] => s = t
  /\ \A a \in AudioSources : engine["sched"] \notin uses[a] /\ engine["dec"] \notin uses[a]
  /\ \A v \in VideoSources : engine["shm"] \notin uses[v]

\* What the call in progress has got and nobody else knows of.
Fresh(b) ==
  /\ b \in alloc
  /\ \A k \in Shared : engine[k] # b
  /\ \A s \in Sources : b \notin uses[s]
  /\ \A s \in Sources, p \in Parts : own[s][p] # b

InHand ==
  /\ \A k \in FreshKinds : res[k] # None => Fresh(res[k])
  /\ \A k, l \in FreshKinds : res[k] = res[l] /\ res[k] # None => k = l

SafeInv == Types /\ Places /\ Kept /\ InHand

-----------------------------------------------------------------------------
LEMMA Kindly ==
  /\ Shared \subseteq Kinds /\ Parts \subseteq Kinds /\ Parts \cap Shared = {}
  /\ "sched" \in Shared /\ "dec" \in Shared /\ "shm" \in Shared
  /\ FreshKinds \subseteq Kinds
  /\ \A i \in 1..Len(Private) : Private[i] \in Parts
BY SourcesAssumption DEF Shared, Kinds, Parts, FreshKinds

LEMMA NothingTyped ==
  Nothing \in [Kinds -> Blocks \cup {None}] /\ NoParts \in [Parts -> Blocks \cup {None}]
BY DEF Nothing, NoParts

LEMMA NoneIsNoBlock == None \notin Blocks /\ VideoSources \cap AudioSources = {}
BY SourcesAssumption

LEMMA KeptStays ==
  ASSUME Kept, UNCHANGED <<alloc, engine, uses, own>> PROVE Kept'
BY DEF Kept

\* The call returns, whatever it has in hand.
LEMMA ReturnSafe ==
  ASSUME SafeInv, Return, UNCHANGED <<alloc, engine, uses, handle, own>>
  PROVE  SafeInv'
<1>1. pc' = "idle" /\ res' = Nothing
  BY DEF Return
<1>2. Types'
  BY <1>1, NothingTyped DEF SafeInv, Types
<1>3. Places'
  BY <1>1 DEF SafeInv, Places, VideoPlaces, AudioPlaces
<1>4. Kept'
  BY KeptStays DEF SafeInv
<1>5. InHand'
  BY <1>1 DEF InHand, FreshKinds
<1> QED
  BY <1>2, <1>3, <1>4, <1>5 DEF SafeInv

LEMMA FailsSafe ==
  ASSUME SafeInv, CallFails PROVE SafeInv'
BY ReturnSafe DEF CallFails

\* The call goes on, to a place where it knows no more than before.
LEMMA GoesOn ==
  ASSUME SafeInv, UNCHANGED <<alloc, engine, uses, handle, own, res>>, Places',
         FreshKinds' \subseteq FreshKinds
  PROVE  SafeInv'
<1>1. Types'
  BY DEF SafeInv, Types
<1>2. Kept'
  BY KeptStays DEF SafeInv
<1>3. InHand'
  <2>1. ASSUME NEW k \in FreshKinds', res'[k] # None PROVE Fresh(res[k])'
    <3>1. Fresh(res[k]) /\ res'[k] = res[k]
      BY <2>1 DEF SafeInv, InHand
    <3> QED
      BY <3>1 DEF Fresh
  <2>2. \A k, l \in FreshKinds' : res'[k] = res'[l] /\ res'[k] # None => k = l
    BY DEF SafeInv, InHand
  <2> QED
    BY <2>1, <2>2 DEF InHand
<1> QED
  BY <1>1, <1>2, <1>3 DEF SafeInv


-----------------------------------------------------------------------------
(* Opening a source. *)

\* A call begins, or has asked what it needs: it has got nothing yet.
LEMMA Asked ==
  ASSUME SafeInv, UNCHANGED <<alloc, engine, uses, handle, own, res>>, Places', res = Nothing
  PROVE  SafeInv'
<1>1. Types'
  BY DEF SafeInv, Types
<1>2. Kept'
  BY KeptStays DEF SafeInv
<1>3. InHand'
  <2>1. \A k \in Kinds : res'[k] = None
    BY DEF Nothing
  <2>2. FreshKinds' \subseteq Kinds
    BY Kindly DEF FreshKinds
  <2> QED
    BY <2>1, <2>2 DEF InHand
<1> QED
  BY <1>1, <1>2, <1>3 DEF SafeInv

LEMMA BeginSafe ==
  ASSUME SafeInv,
         \/ \E v \in VideoSources : OpenVideo(v) \/ CloseVideo(v)
         \/ \E a \in AudioSources : OpenAudio(a) \/ CloseAudio(a)
  PROVE  SafeInv'
<1>1. /\ UNCHANGED <<alloc, engine, uses, handle, own, res>> /\ pc = "idle"
      /\ \/ /\ cur' \in VideoSources
            /\ \/ pc' \in {"vrequired", "cdecoder"}
               \/ pc' = "cparts" /\ handle[cur'] # "bound"
         \/ cur' \in AudioSources /\ pc' \in {"aengine", "bdecoder"}
  BY DEF OpenVideo, CloseVideo, OpenAudio, CloseAudio, At
<1>2. res = Nothing
  BY <1>1 DEF SafeInv, Places
<1>3. Places'
  BY <1>1, <1>2 DEF SafeInv, Places, VideoPlaces, AudioPlaces
<1> QED
  BY <1>1, <1>2, <1>3, Asked

LEMMA RequiredSafe ==
  ASSUME SafeInv, VideoRequired \/ AudioEngine PROVE SafeInv'
<1>1. CASE CallFails
  BY <1>1, FailsSafe
<1>2. CASE ~CallFails
  <2>1. /\ UNCHANGED <<alloc, engine, uses, handle, own, res, cur>>
        /\ \/ pc = "vrequired" /\ pc' = "valloc"
           \/ pc = "aengine" /\ pc' \in {"ashm", "amem"}
    BY <1>2 DEF VideoRequired, AudioEngine, At
  <2>2. res = Nothing
    BY <2>1 DEF SafeInv, Places
  <2>3. Places'
    BY <2>1, <2>2 DEF SafeInv, Places, VideoPlaces, AudioPlaces
  <2> QED
    BY <2>1, <2>2, <2>3, Asked
<1> QED
  BY <1>1, <1>2

\* A block that is given out is new to everybody.
LEMMA MallocSafe ==
  ASSUME SafeInv, NEW b \in Blocks, Malloc(b), NEW kind, res' = [res EXCEPT ![kind] = b],
         UNCHANGED <<engine, uses, handle, own>>, Places',
         FreshKinds' \subseteq FreshKinds \/ res = Nothing
  PROVE  SafeInv'
<1>1. b \notin alloc /\ alloc' = alloc \cup {b} /\ b # None
  BY NoneIsNoBlock DEF Malloc
<1>2. Types'
  BY <1>1 DEF SafeInv, Types
<1>3. Kept'
  BY <1>1 DEF SafeInv, Kept
<1>4. Fresh(b)'
  <2>1. \A k \in Shared : engine[k] # b
    BY <1>1 DEF SafeInv, Kept
  <2>2. \A s \in Sources : b \notin uses[s]
    BY <1>1 DEF SafeInv, Kept
  <2>3. \A s \in Sources, p \in Parts : own[s][p] # b
    BY <1>1 DEF SafeInv, Kept
  <2> QED
    BY <1>1, <2>1, <2>2, <2>3 DEF Fresh
<1>5. \A k \in Kinds : res'[k] = res[k] \/ (res'[k] = b /\ k = kind)
  <2>1. DOMAIN res = Kinds
    BY DEF SafeInv, Types
  <2> QED
    BY <2>1
<1>6. FreshKinds' \subseteq Kinds
  BY Kindly DEF FreshKinds
<1>7. ASSUME NEW k \in FreshKinds', res[k] # None PROVE k \in FreshKinds /\ Fresh(res[k])
  <2>1. k \in FreshKinds
    BY <1>6, <1>7 DEF Nothing
  <2> QED
    BY <1>7, <2>1 DEF SafeInv, InHand
<1>8. InHand'
  <2>1. ASSUME NEW k \in FreshKinds', res'[k] # None PROVE Fresh(res[k])'
    <3>1. CASE res'[k] = b
      BY <1>4, <3>1 DEF Fresh
    <3>2. CASE res'[k] = res[k]
      <4>1. Fresh(res[k])
        BY <1>7, <2>1, <3>2
      <4> QED
        BY <1>1, <3>2, <4>1 DEF Fresh
    <3> QED
      BY <1>5, <1>6, <3>1, <3>2
  <2>2. ASSUME NEW k \in FreshKinds', NEW l \in FreshKinds', res'[k] = res'[l], res'[k] # None
        PROVE  k = l
    <3>1. \/ res'[k] = res[k] \/ (res'[k] = b /\ k = kind)
      BY <1>5, <1>6
    <3>2. \/ res'[l] = res[l] \/ (res'[l] = b /\ l = kind)
      BY <1>5, <1>6
    <3>3. CASE res'[k] = res[k] /\ res'[l] = res[l]
      <4>1. k \in FreshKinds /\ l \in FreshKinds
        BY <1>7, <2>2, <3>3
      <4> QED
        BY <2>2, <3>3, <4>1 DEF SafeInv, InHand
    <3>4. ASSUME NEW m \in FreshKinds', res[m] = b PROVE FALSE
      <4>1. Fresh(res[m])
        BY <1>1, <1>7, <3>4
      <4> QED
        BY <1>1, <3>4, <4>1 DEF Fresh
    <3> QED
      BY <2>2, <3>1, <3>2, <3>3, <3>4
  <2> QED
    BY <2>1, <2>2 DEF InHand
<1> QED
  BY <1>2, <1>3, <1>8 DEF SafeInv

LEMMA AllocSafe ==
  ASSUME SafeInv, VideoAlloc \/ AudioAlloc \/ AllocFails \/ AudioShared PROVE SafeInv'
<1>1. CASE VideoAlloc \/ AudioAlloc
  <2>1. PICK b \in Blocks : Malloc(b) /\ res' = [res EXCEPT ![Head(todo)] = b]
    BY <1>1 DEF VideoAlloc, AudioAlloc
  <2>2. /\ UNCHANGED <<engine, uses, handle, own, cur>>
        /\ \/ pc = "valloc" /\ pc' \in {"valloc", "vsource"}
           \/ pc = "amem" /\ pc' \in {"amem", "aopen"}
    BY <1>1 DEF VideoAlloc, AudioAlloc, At
  <2>3. Places'
    BY <2>2 DEF SafeInv, Places, VideoPlaces, AudioPlaces
  <2>4. FreshKinds' \subseteq FreshKinds
    BY <2>2 DEF FreshKinds, Kinds, Shared, Parts
  <2> QED
    BY <2>1, <2>2, <2>3, <2>4, MallocSafe
<1>2. CASE AllocFails
  BY <1>2, ReturnSafe DEF AllocFails
<1>3. CASE AudioShared
  <2>1. /\ pc = "ashm" /\ pc' = "asetshm" /\ UNCHANGED <<engine, uses, handle, own, cur>>
        /\ \/ \E b \in Blocks : Malloc(b) /\ res' = [res EXCEPT !["shm"] = b]
           \/ UNCHANGED <<alloc, res>>
    BY <1>3 DEF AudioShared, At
  <2>2. res = Nothing
    BY <2>1 DEF SafeInv, Places
  <2>3. Places'
    BY <2>1 DEF SafeInv, Places, VideoPlaces, AudioPlaces
  <2>4. CASE UNCHANGED <<alloc, res>>
    BY <2>1, <2>2, <2>3, <2>4, Asked
  <2>5. ASSUME NEW b \in Blocks, Malloc(b), res' = [res EXCEPT !["shm"] = b] PROVE SafeInv'
    BY <2>1, <2>2, <2>3, <2>5, MallocSafe
  <2> QED
    BY <2>1, <2>4, <2>5
<1> QED
  BY <1>1, <1>2, <1>3

\* The structure is given to the client, with no parts yet.
LEMMA SourceSafe ==
  ASSUME SafeInv, VideoSource PROVE SafeInv'
<1>1. /\ pc = "vsource" /\ cur \in VideoSources /\ cur \in Sources
      /\ UNCHANGED <<alloc, engine, uses>>
  BY DEF VideoSource, At, SafeInv, Places, VideoPlaces, Sources
<1>2. CASE Return /\ UNCHANGED <<handle, own>>
  BY <1>1, <1>2, ReturnSafe
<1>3. CASE /\ own' = [own EXCEPT ![cur] = NoParts]
           /\ \/ /\ handle' = [handle EXCEPT ![cur] = "bound"]
                 /\ pc' = "vsched" /\ UNCHANGED <<cur, res>>
              \/ /\ handle' = [handle EXCEPT ![cur] = "bare"]
                 /\ pc' = "idle" /\ res' = Nothing
  <2>1. own' = [own EXCEPT ![cur] = NoParts] /\ pc' \in {"vsched", "idle"}
    BY <1>3
  <2>2. Types'
    BY <1>1, <1>3, NothingTyped DEF SafeInv, Types
  <2>3. \A s \in Sources, p \in Parts : own'[s][p] = own[s][p] \/ own'[s][p] = None
    BY <1>1, <2>1 DEF SafeInv, Types, NoParts
  <2>4. \A s \in Sources : None \notin uses[s]
    BY NoneIsNoBlock DEF SafeInv, Types
  <2>5. Kept'
    BY <1>1, <2>3, <2>4 DEF SafeInv, Kept
  <2>6. Places'
    BY <1>1, <1>3 DEF SafeInv, Types, Places, VideoPlaces, AudioPlaces
  <2>7. InHand'
    <3>1. CASE pc' = "idle"
      BY <3>1 DEF InHand, FreshKinds
    <3>2. CASE pc' = "vsched" /\ res' = res
      <4>1. FreshKinds' = FreshKinds
        BY <1>1, <3>2 DEF FreshKinds, Kinds, Parts
      <4>2. ASSUME NEW k \in FreshKinds, res[k] # None PROVE Fresh(res[k])'
        <5>1. Fresh(res[k])
          BY <4>2 DEF SafeInv, InHand
        <5> QED
          BY <1>1, <2>3, <3>2, <4>2, <5>1 DEF Fresh
      <4> QED
        BY <3>2, <4>1, <4>2 DEF SafeInv, InHand
    <3> QED
      BY <1>3, <3>1, <3>2
  <2> QED
    BY <2>2, <2>5, <2>6, <2>7 DEF SafeInv
<1> QED
  BY <1>2, <1>3 DEF VideoSource, Goto, Return

\* An engine is given what the call has got for it.
EngineGets(k) == engine' = engine \/ engine' = [engine EXCEPT ![k] = res[k]]

LEMMA NoneUnused ==
  ASSUME SafeInv
  PROVE  \A s \in Sources : None \notin uses[s]
BY NoneIsNoBlock DEF SafeInv, Types

LEMMA EngineKept ==
  ASSUME SafeInv, NEW k \in Shared, k \in FreshKinds, EngineGets(k), UNCHANGED <<alloc, uses, own, res>>
  PROVE  /\ Kept' /\ engine' \in [Shared -> Blocks \cup {None}]
         /\ \A l \in FreshKinds \ {k} : res[l] # None => Fresh(res[l])'
<1>1. engine \in [Shared -> Blocks \cup {None}] /\ res[k] \in Blocks \cup {None}
  BY Kindly DEF SafeInv, Types
<1>2. \A l \in Shared : engine'[l] = engine[l] \/ (l = k /\ engine'[l] = res[k])
  BY <1>1 DEF EngineGets
<1>3. res[k] # None => Fresh(res[k])
  BY DEF SafeInv, InHand
<1>4. Kept'
  <2>1. \A l \in Shared : engine'[l] # None => engine'[l] \in alloc
    BY <1>2, <1>3 DEF SafeInv, Kept, Fresh
  <2>2. \A l \in Shared, s \in Sources, p \in Parts : engine'[l] # None => own[s][p] # engine'[l]
    BY <1>2, <1>3 DEF SafeInv, Kept, Fresh
  <2>3. \A l, m \in Shared : engine'[l] = engine'[m] /\ engine'[l] # None => l = m
    BY <1>2, <1>3 DEF SafeInv, Kept, Fresh
  <2>4. ASSUME NEW l \in Shared, NEW s \in Sources, engine[l] \notin uses[s]
        PROVE  engine'[l] \notin uses[s]
    BY <1>2, <1>3, <2>4, NoneUnused DEF Fresh
  <2>5. /\ \A a \in AudioSources : engine'["sched"] \notin uses[a] /\ engine'["dec"] \notin uses[a]
        /\ \A v \in VideoSources : engine'["shm"] \notin uses[v]
    BY <2>4, Kindly DEF SafeInv, Kept, Sources
  <2> QED
    BY <2>1, <2>2, <2>3, <2>5 DEF SafeInv, Kept
<1>5. engine' \in [Shared -> Blocks \cup {None}]
  BY <1>1 DEF EngineGets
<1>6. ASSUME NEW l \in FreshKinds \ {k}, res[l] # None PROVE Fresh(res[l])'
  <2>1. Fresh(res[l]) /\ res[l] # res[k]
    BY <1>6 DEF SafeInv, InHand
  <2>2. \A m \in Shared : engine'[m] # res[l]
    BY <1>2, <2>1 DEF Fresh
  <2> QED
    BY <2>1, <2>2 DEF Fresh
<1> QED
  BY <1>4, <1>5, <1>6

LEMMA EngineSafe ==
  ASSUME SafeInv, VideoSetScheduler \/ AudioSetShared PROVE SafeInv'
<1>1. CASE CallFails
  BY <1>1, FailsSafe
<1>2. CASE VideoSetScheduler /\ ~CallFails
  <2>1. /\ pc = "vsched" /\ pc' = "vdec" /\ EngineGets("sched")
        /\ UNCHANGED <<alloc, uses, handle, own, cur, res>>
    BY <1>2 DEF VideoSetScheduler, SetShared, EngineGets, Goto, At
  <2>2. FreshKinds = Kinds /\ FreshKinds' = Kinds \ {"sched"}
    BY <2>1 DEF FreshKinds, Kinds, Parts
  <2>3. /\ Kept' /\ engine' \in [Shared -> Blocks \cup {None}]
        /\ \A l \in FreshKinds \ {"sched"} : res[l] # None => Fresh(res[l])'
    BY <2>1, <2>2, Kindly, EngineKept
  <2>4. Types'
    BY <2>1, <2>3 DEF SafeInv, Types
  <2>5. Places'
    BY <2>1 DEF SafeInv, Places, VideoPlaces, AudioPlaces
  <2>6. InHand'
    BY <2>1, <2>2, <2>3 DEF SafeInv, InHand
  <2> QED
    BY <2>3, <2>4, <2>5, <2>6 DEF SafeInv
<1>3. CASE AudioSetShared /\ ~CallFails
  <2>1. /\ pc = "asetshm" /\ pc' = "amem" /\ EngineGets("shm")
        /\ UNCHANGED <<alloc, uses, handle, own, cur, res>>
    BY <1>3 DEF AudioSetShared, EngineGets, Goto, At
  <2>2. FreshKinds = Kinds /\ FreshKinds' = Parts
    BY <2>1 DEF FreshKinds, Kinds, Parts
  <2>3. /\ Kept' /\ engine' \in [Shared -> Blocks \cup {None}]
        /\ \A l \in FreshKinds \ {"shm"} : res[l] # None => Fresh(res[l])'
    BY <2>1, <2>2, Kindly, EngineKept
  <2>4. Types'
    BY <2>1, <2>3 DEF SafeInv, Types
  <2>5. Places'
    BY <2>1 DEF SafeInv, Places, VideoPlaces, AudioPlaces
  <2>6. Parts \subseteq Kinds \ {"shm"}
    BY Kindly
  <2>7. InHand'
    BY <2>1, <2>2, <2>3, <2>6 DEF SafeInv, InHand
  <2> QED
    BY <2>3, <2>4, <2>5, <2>7 DEF SafeInv
<1> QED
  BY <1>1, <1>2, <1>3

\* The source takes over the parts that the call has got.
LEMMA PartsTaken ==
  ASSUME SafeInv, NEW s \in Sources, Parts \subseteq FreshKinds
  PROVE  /\ \A p \in Parts : res[p] # None => Fresh(res[p])
         /\ \A p, q \in Parts : res[p] = res[q] /\ res[p] # None => p = q
         /\ [own EXCEPT ![s] = [p \in Parts |-> res[p]]] \in [Sources -> [Parts -> Blocks \cup {None}]]
         /\ \A t \in Sources, p \in Parts :
              [own EXCEPT ![s] = [q \in Parts |-> res[q]]][t][p] = IF t = s THEN res[p] ELSE own[t][p]
<1>1. [p \in Parts |-> res[p]] \in [Parts -> Blocks \cup {None}]
  BY Kindly DEF SafeInv, Types
<1>2. own \in [Sources -> [Parts -> Blocks \cup {None}]]
  BY DEF SafeInv, Types
<1> QED
  BY <1>1, <1>2 DEF SafeInv, InHand

LEMMA DecoderSafe ==
  ASSUME SafeInv, VideoSetDecoder PROVE SafeInv'
<1>1. CASE CallFails
  BY <1>1, FailsSafe
<1>2. CASE ~CallFails
  <2>1. /\ pc = "vdec" /\ pc' = "vopen" /\ EngineGets("dec")
        /\ own' = [own EXCEPT ![cur] = [p \in Parts |-> res[p]]]
        /\ UNCHANGED <<alloc, uses, handle, cur, res>>
    BY <1>2 DEF VideoSetDecoder, SetShared, EngineGets, Goto, At
  <2>2. FreshKinds = Kinds \ {"sched"} /\ FreshKinds' = {} /\ "dec" \in FreshKinds
        /\ Parts \subseteq FreshKinds
    BY <2>1, Kindly DEF FreshKinds, Kinds
  <2>3. cur \in Sources /\ cur \in VideoSources /\ handle[cur] = "bound"
    BY <2>1 DEF SafeInv, Places, VideoPlaces, Sources
  <2>4. /\ \A p \in Parts : res[p] # None => Fresh(res[p])
        /\ \A p, q \in Parts : res[p] = res[q] /\ res[p] # None => p = q
        /\ own' \in [Sources -> [Parts -> Blocks \cup {None}]]
        /\ \A t \in Sources, p \in Parts : own'[t][p] = IF t = cur THEN res[p] ELSE own[t][p]
    BY <2>1, <2>2, <2>3, PartsTaken
  <2>5. engine \in [Shared -> Blocks \cup {None}] /\ res["dec"] \in Blocks \cup {None}
    BY Kindly DEF SafeInv, Types
  <2>6. \A l \in Shared : engine'[l] = engine[l] \/ (l = "dec" /\ engine'[l] = res["dec"])
    BY <2>1, <2>5 DEF EngineGets
  <2>7. /\ res["dec"] # None => Fresh(res["dec"])
        /\ \A p \in Parts : res[p] = res["dec"] => res[p] = None
    BY <2>2, Kindly DEF SafeInv, InHand
  <2>8. engine' \in [Shared -> Blocks \cup {None}]
    BY <2>1, <2>5 DEF EngineGets
  <2>9. Types'
    BY <2>1, <2>4, <2>8 DEF SafeInv, Types
  <2>10. Places'
    <3>1. \A s \in Sources : handle'[s] # "bound" => own'[s] = own[s]
      BY <2>1, <2>3 DEF SafeInv, Types
    <3> QED
      BY <2>1, <2>3, <3>1 DEF SafeInv, Places, VideoPlaces, AudioPlaces
  <2>11. InHand'
    BY <2>2 DEF InHand
  <2>12. Kept'
    <3>1. \A s \in Sources, p \in Parts : own'[s][p] # None => own'[s][p] \in alloc
      BY <2>4 DEF SafeInv, Kept, Fresh
    <3>2. \A s, t \in Sources, p, q \in Parts :
            own'[s][p] = own'[t][q] /\ own'[s][p] # None => s = t /\ p = q
      BY <2>4 DEF SafeInv, Kept, Fresh
    <3>3. \A l \in Shared : engine'[l] # None => engine'[l] \in alloc
      BY <2>6, <2>7 DEF SafeInv, Kept, Fresh
    <3>4. ASSUME NEW l \in Shared, NEW s \in Sources, NEW p \in Parts, engine'[l] # None
          PROVE  own'[s][p] # engine'[l]
      BY <2>4, <2>6, <2>7, <3>4 DEF SafeInv, Kept, Fresh
    <3>5. \A l, m \in Shared : engine'[l] = engine'[m] /\ engine'[l] # None => l = m
      BY <2>6, <2>7 DEF SafeInv, Kept, Fresh
    <3>6. ASSUME NEW s \in Sources, NEW t \in Sources, NEW p \in Parts, own'[t][p] \in uses[s]
          PROVE  s = t
      BY <2>4, <3>6, NoneUnused DEF SafeInv, Kept, Fresh
    <3>7. ASSUME NEW l \in Shared, NEW s \in Sources, engine[l] \notin uses[s]
          PROVE  engine'[l] \notin uses[s]
      BY <2>6, <2>7, <3>7, NoneUnused DEF Fresh
    <3>8. /\ \A a \in AudioSources : engine'["sched"] \notin uses[a] /\ engine'["dec"] \notin uses[a]
          /\ \A v \in VideoSources : engine'["shm"] \notin uses[v]
      BY <3>7, Kindly DEF SafeInv, Kept, Sources
    <3> QED
      BY <2>1, <3>1, <3>2, <3>3, <3>4, <3>5, <3>6, <3>8 DEF SafeInv, Kept
  <2> QED
    BY <2>9, <2>10, <2>11, <2>12 DEF SafeInv
<1> QED
  BY <1>1, <1>2

LEMMA VideoOpenSafe ==
  ASSUME SafeInv, VideoOpen \/ VideoSurface PROVE SafeInv'
<1>1. CASE CallFails
  BY <1>1, FailsSafe
<1>2. CASE Return /\ UNCHANGED <<alloc, engine, uses, handle, own>>
  BY <1>2, ReturnSafe
<1>3. CASE /\ pc = "vopen" /\ pc' = "vsurface"
           /\ uses' = [uses EXCEPT ![cur] =
                         OwnBlocks(cur) \cup ({engine["sched"], engine["dec"]} \ {None})]
           /\ UNCHANGED <<alloc, engine, handle, own, cur, res>>
  <2>1. cur \in VideoSources /\ cur \in Sources /\ cur \notin AudioSources
    BY <1>3, NoneIsNoBlock DEF SafeInv, Places, VideoPlaces, Sources
  <2> DEFINE mine == OwnBlocks(cur) \cup ({engine["sched"], engine["dec"]} \ {None})
  <2>2. mine \subseteq alloc
    BY <2>1, Kindly DEF SafeInv, Kept, OwnBlocks
  <2>3. \A b \in mine : b # None /\ \/ \E p \in Parts : b = own[cur][p]
                                    \/ b = engine["sched"] \/ b = engine["dec"]
    BY DEF OwnBlocks
  <2>4. uses \in [Sources -> SUBSET Blocks] /\ alloc \subseteq Blocks
    BY DEF SafeInv, Types
  <2> HIDE DEF mine
  <2>5. \A s \in Sources : uses'[s] = IF s = cur THEN mine ELSE uses[s]
    BY <1>3, <2>1, <2>4 DEF mine
  <2>6. Types'
    BY <1>3, <2>2, <2>4 DEF SafeInv, Types, mine
  <2>7. Places'
    BY <1>3, <2>1 DEF SafeInv, Places, VideoPlaces, AudioPlaces
  <2>8. InHand'
    BY <1>3 DEF InHand, FreshKinds
  <2>9. Kept'
    <3>1. \A s \in Sources : uses'[s] \subseteq alloc
      BY <2>2, <2>5 DEF SafeInv, Kept
    <3>2. ASSUME NEW s \in Sources, NEW t \in Sources, NEW p \in Parts, own[t][p] \in uses'[s]
          PROVE  s = t
      <4>1. CASE s = cur
        <5>1. own[t][p] \in mine
          BY <2>5, <3>2, <4>1
        <5>2. own[t][p] # None /\ \/ \E q \in Parts : own[t][p] = own[cur][q]
                                  \/ own[t][p] = engine["sched"] \/ own[t][p] = engine["dec"]
          BY <2>3, <5>1
        <5> QED
          BY <2>1, <4>1, <5>2, Kindly DEF SafeInv, Kept
      <4>2. CASE s # cur
        BY <2>5, <3>2, <4>2 DEF SafeInv, Kept
      <4> QED
        BY <4>1, <4>2
    <3>3. \A a \in AudioSources : engine["sched"] \notin uses'[a] /\ engine["dec"] \notin uses'[a]
      BY <2>1, <2>5 DEF SafeInv, Kept, Sources
    <3>4. ASSUME NEW v \in VideoSources, engine["shm"] \in uses'[v] PROVE FALSE
      <4>1. CASE v = cur
        <5>1. engine["shm"] \in mine
          BY <2>1, <2>5, <3>4, <4>1
        <5>2. engine["shm"] # None /\ \/ \E q \in Parts : engine["shm"] = own[cur][q]
                                      \/ engine["shm"] = engine["sched"] \/ engine["shm"] = engine["dec"]
          BY <2>3, <5>1
        <5> QED
          BY <2>1, <5>2, Kindly DEF SafeInv, Kept
      <4>2. CASE v # cur
        BY <2>5, <3>4, <4>2 DEF SafeInv, Kept, Sources
      <4> QED
        BY <4>1, <4>2
    <3> QED
      BY <1>3, <3>1, <3>2, <3>3, <3>4 DEF SafeInv, Kept
  <2> QED
    BY <2>6, <2>7, <2>8, <2>9 DEF SafeInv
<1> QED
  BY <1>1, <1>2, <1>3 DEF VideoOpen, VideoSurface, Goto, At

LEMMA AudioOpenSafe ==
  ASSUME SafeInv, AudioOpen PROVE SafeInv'
<1>1. CASE CallFails
  BY <1>1, FailsSafe
<1>2. CASE Return /\ UNCHANGED <<alloc, engine, uses, handle, own>>
  BY <1>2, ReturnSafe
<1>3. CASE /\ pc = "aopen" /\ Return
           /\ own' = [own EXCEPT ![cur] = [p \in Parts |-> res[p]]]
           /\ uses' = [uses EXCEPT ![cur] = ({res[p] : p \in Parts} \cup {engine["shm"]}) \ {None}]
           /\ handle' = [handle EXCEPT ![cur] = "bound"]
           /\ UNCHANGED <<alloc, engine>>
  <2>1. cur \in AudioSources /\ cur \in Sources /\ cur \notin VideoSources /\ FreshKinds = Parts
    BY <1>3, NoneIsNoBlock DEF SafeInv, Places, AudioPlaces, Sources, FreshKinds
  <2> DEFINE mine == ({res[p] : p \in Parts} \cup {engine["shm"]}) \ {None}
  <2>2. /\ \A p \in Parts : res[p] # None => Fresh(res[p])
        /\ \A p, q \in Parts : res[p] = res[q] /\ res[p] # None => p = q
        /\ own' \in [Sources -> [Parts -> Blocks \cup {None}]]
        /\ \A t \in Sources, p \in Parts : own'[t][p] = IF t = cur THEN res[p] ELSE own[t][p]
    BY <1>3, <2>1, PartsTaken
  <2>3. mine \subseteq alloc
    BY <2>2, Kindly DEF SafeInv, Kept, Fresh
  <2>4. \A b \in mine : b # None /\ \/ \E p \in Parts : b = res[p] /\ Fresh(res[p])
                                    \/ b = engine["shm"]
    BY <2>2
  <2>5. uses \in [Sources -> SUBSET Blocks] /\ alloc \subseteq Blocks
    BY DEF SafeInv, Types
  <2> HIDE DEF mine
  <2>6. \A s \in Sources : uses'[s] = IF s = cur THEN mine ELSE uses[s]
    BY <1>3, <2>1, <2>5 DEF mine
  <2>7. pc' = "idle" /\ res' = Nothing
    BY <1>3 DEF Return
  <2>8. Types'
    <3>1. uses' \in [Sources -> SUBSET Blocks]
      BY <1>3, <2>3, <2>5 DEF mine
    <3>2. handle' \in [Sources -> {"none", "bare", "bound"}]
      BY <1>3 DEF SafeInv, Types
    <3> QED
      BY <1>3, <2>2, <2>7, <3>1, <3>2, NothingTyped DEF SafeInv, Types
  <2>9. Places'
    <3>1. \A s \in Sources : handle'[s] # "bound" => own'[s] = own[s] /\ handle'[s] = handle[s]
      BY <1>3, <2>1 DEF SafeInv, Types
    <3> QED
      BY <2>7, <3>1 DEF SafeInv, Places, VideoPlaces, AudioPlaces
  <2>10. InHand'
    BY <2>7 DEF InHand, FreshKinds
  <2>11. Kept'
    <3>1. \A s \in Sources, p \in Parts : own'[s][p] # None => own'[s][p] \in alloc
      BY <2>2 DEF SafeInv, Kept, Fresh
    <3>2. \A s, t \in Sources, p, q \in Parts :
            own'[s][p] = own'[t][q] /\ own'[s][p] # None => s = t /\ p = q
      BY <2>2 DEF SafeInv, Kept, Fresh
    <3>3. ASSUME NEW l \in Shared, NEW s \in Sources, NEW p \in Parts, engine[l] # None
          PROVE  own'[s][p] # engine[l]
      BY <2>2, <3>3 DEF SafeInv, Kept, Fresh
    <3>4. \A s \in Sources : uses'[s] \subseteq alloc
      BY <2>3, <2>6 DEF SafeInv, Kept
    <3>5. ASSUME NEW s \in Sources, NEW t \in Sources, NEW p \in Parts, own'[t][p] \in uses'[s]
          PROVE  s = t
      <4>1. CASE s = cur /\ t # cur
        <5>1. own[t][p] \in mine
          BY <2>2, <2>6, <3>5, <4>1
        <5>2. own[t][p] # None /\ \/ \E q \in Parts : own[t][p] = res[q] /\ Fresh(res[q])
                                  \/ own[t][p] = engine["shm"]
          BY <2>4, <5>1
        <5> QED
          BY <5>2, Kindly DEF SafeInv, Kept, Fresh
      <4>2. CASE s # cur /\ t = cur
        <5>1. res[p] \in uses[s]
          BY <2>2, <2>6, <3>5, <4>2
        <5>2. res[p] # None
          BY <5>1, NoneUnused
        <5> QED
          BY <2>2, <5>1, <5>2 DEF Fresh
      <4>3. CASE s # cur /\ t # cur
        BY <2>2, <2>6, <3>5, <4>3 DEF SafeInv, Kept
      <4> QED
        BY <4>1, <4>2, <4>3
    <3>6. \A v \in VideoSources : engine["shm"] \notin uses'[v]
      BY <2>1, <2>6 DEF SafeInv, Kept, Sources
    <3>7. ASSUME NEW a \in AudioSources, NEW k \in {"sched", "dec"}, engine[k] \in uses'[a]
          PROVE  FALSE
      <4>1. CASE a = cur
        <5>1. engine[k] \in mine
          BY <2>1, <2>6, <3>7, <4>1
        <5>2. engine[k] # None /\ \/ \E q \in Parts : engine[k] = res[q] /\ Fresh(res[q])
                                  \/ engine[k] = engine["shm"]
          BY <2>4, <5>1
        <5> QED
          BY <5>2, Kindly DEF SafeInv, Kept, Fresh, Shared
      <4>2. CASE a # cur
        BY <2>6, <3>7, <4>2 DEF SafeInv, Kept, Sources
      <4> QED
        BY <4>1, <4>2
    <3>8. \A a \in AudioSources, k \in {"sched", "dec"} : engine[k] \notin uses'[a]
      BY <3>7
    <3>9. \A a \in AudioSources : engine["sched"] \notin uses'[a] /\ engine["dec"] \notin uses'[a]
      <4>1. "sched" \in {"sched", "dec"} /\ "dec" \in {"sched", "dec"}
        OBVIOUS
      <4> QED
        BY <3>8, <4>1
    <3>10. UNCHANGED <<alloc, engine>>
      BY <1>3
    <3>11. \A l \in Shared, s \in Sources, p \in Parts : engine[l] # None => own'[s][p] # engine[l]
      BY <3>3
    <3>12. \A s, t \in Sources, p \in Parts : own'[t][p] \in uses'[s] => s = t
      BY <3>5
    <3>13. /\ \A k \in Shared : engine[k] # None => engine[k] \in alloc
           /\ \A k, l \in Shared : engine[k] = engine[l] /\ engine[k] # None => k = l
      BY DEF SafeInv, Kept
    <3> QED
      BY <3>1, <3>2, <3>4, <3>6, <3>9, <3>10, <3>11, <3>12, <3>13 DEF Kept
  <2> QED
    BY <2>8, <2>9, <2>10, <2>11 DEF SafeInv
<1> QED
  BY <1>1, <1>2, <1>3 DEF AudioOpen, At

-----------------------------------------------------------------------------
(* Closing a source. *)

LEMMA CloseDecoderSafe ==
  ASSUME SafeInv, CloseDecoder PROVE SafeInv'
<1>1. CASE CallFails
  BY <1>1, FailsSafe
<1>2. CASE ~CallFails
  <2>1. /\ uses' = [uses EXCEPT ![cur] = {}]
        /\ \/ pc = "cdecoder" /\ pc' = "cparts"
           \/ pc = "bdecoder" /\ pc' = "bshm"
        /\ UNCHANGED <<alloc, engine, handle, own, cur, res>>
    BY <1>2 DEF CloseDecoder, Goto
  <2>2. cur \in Sources
    BY <2>1 DEF SafeInv, Places, VideoPlaces, AudioPlaces, Sources
  <2>3. uses \in [Sources -> SUBSET Blocks]
    BY DEF SafeInv, Types
  <2>4. \A s \in Sources : uses'[s] = IF s = cur THEN {} ELSE uses[s]
    BY <2>1, <2>2, <2>3
  <2>5. Types'
    BY <2>1, <2>3 DEF SafeInv, Types
  <2>6. Places'
    BY <2>1, <2>2, <2>4 DEF SafeInv, Places, VideoPlaces, AudioPlaces
  <2>7. Kept'
    BY <2>1, <2>4 DEF SafeInv, Kept, Sources
  <2>8. InHand'
    BY <2>1 DEF InHand, FreshKinds
  <2> QED
    BY <2>5, <2>6, <2>7, <2>8 DEF SafeInv
<1> QED
  BY <1>1, <1>2

\* Nobody opens a decoder while none is counted.
LEMMA CountedOpen ==
  ASSUME ConnectedTaskCount = 0 PROVE \A v \in VideoSources : uses[v] = {}
<1> DEFINE open == {v \in VideoSources : Open(v)}
<1>1. IsFiniteSet(open)
  BY SourcesAssumption, FS_Subset
<1>2. open = {}
  BY <1>1, FS_EmptySet DEF ConnectedTaskCount
<1> QED
  BY <1>2 DEF Open

LEMMA CloseGoesOn ==
  ASSUME SafeInv, PartsFreed \/ CloseCount \/ ForgetAddress PROVE SafeInv'
<1>1. CASE CallFails
  BY <1>1, FailsSafe
<1>2. CASE PartsFreed
  <2>1. /\ pc = "cparts" /\ pc' \in {"ccount", "cend"}
        /\ UNCHANGED <<alloc, engine, uses, handle, own, cur, res>>
    BY <1>2 DEF PartsFreed, Goto, At
  <2>2. Places'
    BY <2>1 DEF SafeInv, Places, VideoPlaces, AudioPlaces
  <2>3. FreshKinds' = {}
    BY <2>1 DEF FreshKinds
  <2> QED
    BY <2>1, <2>2, <2>3, GoesOn
<1>3. CASE CloseCount /\ ~CallFails
  <2>1. /\ pc = "ccount" /\ pc' \in {"cdec", "cend"}
        /\ pc' = "cdec" => ConnectedTaskCount = 0
        /\ UNCHANGED <<alloc, engine, uses, handle, own, cur, res>>
    BY <1>3 DEF CloseCount, Goto, At
  <2>2. Places'
    BY <2>1, CountedOpen DEF SafeInv, Places, VideoPlaces, AudioPlaces
  <2>3. FreshKinds' = {}
    BY <2>1 DEF FreshKinds
  <2> QED
    BY <2>1, <2>2, <2>3, GoesOn
<1>4. CASE ForgetAddress /\ ~CallFails
  <2>1. /\ \/ pc = "caddress" /\ pc' = "cschedfree"
           \/ pc = "baddress" /\ pc' = "bshmfree"
        /\ UNCHANGED <<alloc, engine, uses, handle, own, cur, res>>
    BY <1>4 DEF ForgetAddress, Goto
  <2>2. Places'
    BY <2>1 DEF SafeInv, Places, VideoPlaces, AudioPlaces
  <2>3. FreshKinds' = FreshKinds
    BY <2>1 DEF FreshKinds
  <2> QED
    BY <2>1, <2>2, <2>3, GoesOn
<1> QED
  BY <1>1, <1>2, <1>3, <1>4

\* A block nobody works with or knows of is given back, or kept for good.
LEMMA FreeKept ==
  ASSUME SafeInv, NEW b, Free(b), UNCHANGED <<engine, uses>>,
         \A s \in Sources : b \notin uses[s],
         \A k \in Shared : engine[k] = b => b = None,
         \A s \in Sources, p \in Parts : own'[s][p] = own[s][p] \/ own'[s][p] = None,
         \A s \in Sources, p \in Parts : own'[s][p] = b => b = None
  PROVE  Kept' /\ alloc' \subseteq Blocks
<1>1. alloc' = alloc \/ alloc' = alloc \ {b}
  BY DEF Free
<1>2. \A x \in alloc : x # b => x \in alloc'
  BY <1>1
<1>3. /\ \A s \in Sources, p \in Parts : own'[s][p] # None => own'[s][p] \in alloc'
      /\ \A k \in Shared : engine[k] # None => engine[k] \in alloc'
      /\ \A s \in Sources : uses[s] \subseteq alloc'
  BY <1>2 DEF SafeInv, Kept
<1>4. \A s, t \in Sources, p, q \in Parts :
        own'[s][p] = own'[t][q] /\ own'[s][p] # None => s = t /\ p = q
  BY DEF SafeInv, Kept
<1>5. \A k \in Shared, s \in Sources, p \in Parts : engine[k] # None => own'[s][p] # engine[k]
  BY DEF SafeInv, Kept
<1>6. \A s, t \in Sources, p \in Parts : own'[t][p] \in uses[s] => s = t
  BY NoneUnused DEF SafeInv, Kept
<1>7. alloc' \subseteq Blocks
  BY <1>1 DEF SafeInv, Types
<1> QED
  BY <1>3, <1>4, <1>5, <1>6, <1>7 DEF SafeInv, Kept

LEMMA FreePartSafe ==
  ASSUME SafeInv, FreePart PROVE SafeInv'
<1>1. PICK i \in 1..Len(Private) :
        /\ own[cur][Private[i]] # None
        /\ Free(own[cur][Private[i]])
        /\ own' = [own EXCEPT ![cur][Private[i]] = None]
  BY DEF FreePart, Comes
<1>2. /\ pc \in {"cparts", "bparts"} /\ pc' = pc
      /\ UNCHANGED <<engine, uses, handle, cur, res>>
  BY DEF FreePart
<1>3. Private[i] \in Parts
  BY Kindly
<1> DEFINE part == Private[i]
           b == own[cur][part]
<1>4. cur \in Sources
  BY <1>2 DEF SafeInv, Places, VideoPlaces, AudioPlaces, Sources
<1>5. own \in [Sources -> [Parts -> Blocks \cup {None}]]
  BY DEF SafeInv, Types
<1> HIDE DEF part
<1>6. part \in Parts /\ own' = [own EXCEPT ![cur][part] = None] /\ Free(b) /\ b # None
  BY <1>1, <1>3 DEF part
<1>7. \A s \in Sources, p \in Parts :
        own'[s][p] = IF s = cur /\ p = part THEN None ELSE own[s][p]
  BY <1>4, <1>5, <1>6
<1>8. handle[cur] = "bound"
  <2>1. own[cur] # NoParts
    BY <1>6 DEF NoParts
  <2> QED
    BY <1>4, <2>1 DEF SafeInv, Places
<1>9. uses[cur] = {}
  BY <1>2, <1>8 DEF SafeInv, Places
<1>10. \A s \in Sources : b \notin uses[s]
  BY <1>4, <1>6, <1>9 DEF SafeInv, Kept
<1>11. \A k \in Shared : engine[k] # b
  BY <1>4, <1>6 DEF SafeInv, Kept
<1>12. \A s \in Sources, p \in Parts : own'[s][p] # b
  BY <1>4, <1>6, <1>7 DEF SafeInv, Kept
<1>13. \A s \in Sources, p \in Parts : own'[s][p] = own[s][p] \/ own'[s][p] = None
  BY <1>7
<1> HIDE DEF b
<1>14. Kept' /\ alloc' \subseteq Blocks
  BY <1>2, <1>6, <1>10, <1>11, <1>12, <1>13, FreeKept
<1>15. own' \in [Sources -> [Parts -> Blocks \cup {None}]]
  BY <1>4, <1>5, <1>6
<1>16. Types'
  BY <1>2, <1>14, <1>15 DEF SafeInv, Types
<1>17. Places'
  <2>1. \A s \in Sources : handle[s] # "bound" => own'[s] = own[s]
    BY <1>4, <1>5, <1>6, <1>8
  <2> QED
    BY <1>2, <2>1 DEF SafeInv, Places
<1>18. InHand'
  BY <1>2 DEF InHand, FreshKinds
<1> QED
  BY <1>14, <1>16, <1>17, <1>18 DEF SafeInv

\* The memory of an engine that nobody works with goes into the call's hands.
LEMMA TakeSafe ==
  ASSUME SafeInv, NEW k \in Shared, engine[k] # None,
         res' = [res EXCEPT ![k] = engine[k]], engine' = [engine EXCEPT ![k] = None],
         UNCHANGED <<alloc, uses, handle, own, cur>>, Places', FreshKinds' = {k},
         \A s \in Sources : engine[k] \notin uses[s]
  PROVE  SafeInv'
<1>1. engine \in [Shared -> Blocks \cup {None}] /\ res \in [Kinds -> Blocks \cup {None}] /\ k \in Kinds
  BY Kindly DEF SafeInv, Types
<1>2. \A l \in Shared : engine'[l] = IF l = k THEN None ELSE engine[l]
  BY <1>1
<1>3. Types'
  BY <1>1 DEF SafeInv, Types
<1>4. Kept'
  <2>1. /\ \A l \in Shared : engine'[l] # None => engine'[l] \in alloc
        /\ \A l \in Shared, s \in Sources, p \in Parts : engine'[l] # None => own[s][p] # engine'[l]
        /\ \A l, m \in Shared : engine'[l] = engine'[m] /\ engine'[l] # None => l = m
    BY <1>2 DEF SafeInv, Kept
  <2>2. ASSUME NEW l \in Shared, NEW s \in Sources, engine[l] \notin uses[s]
        PROVE  engine'[l] \notin uses[s]
    BY <1>2, <2>2, NoneUnused
  <2>3. /\ \A a \in AudioSources : engine'["sched"] \notin uses[a] /\ engine'["dec"] \notin uses[a]
        /\ \A v \in VideoSources : engine'["shm"] \notin uses[v]
    BY <2>2, Kindly DEF SafeInv, Kept, Sources
  <2> QED
    BY <2>1, <2>3 DEF SafeInv, Kept
<1>5. InHand'
  <2>1. res'[k] = engine[k]
    BY <1>1
  <2>2. Fresh(res[k])'
    BY <1>2, <2>1 DEF SafeInv, Kept, Fresh
  <2> QED
    BY <2>2 DEF InHand
<1> QED
  BY <1>3, <1>4, <1>5 DEF SafeInv

\* What the call has in hand is given back.
LEMMA FreeSafe ==
  ASSUME SafeInv, NEW k \in Shared, k \in FreshKinds, Free(res[k]),
         res' = [res EXCEPT ![k] = None], UNCHANGED <<engine, uses, handle, own, cur>>,
         Places', FreshKinds' = {}
  PROVE  SafeInv'
<1> DEFINE b == res[k]
<1>1. b # None => Fresh(b)
  BY DEF SafeInv, InHand
<1>2. \A s \in Sources : b \notin uses[s]
  BY <1>1, NoneUnused DEF Fresh
<1>3. \A l \in Shared : engine[l] = b => b = None
  BY <1>1 DEF Fresh
<1>4. \A s \in Sources, p \in Parts : own'[s][p] = own[s][p] /\ (own'[s][p] = b => b = None)
  BY <1>1 DEF Fresh
<1> HIDE DEF b
<1>5. Kept' /\ alloc' \subseteq Blocks
  <2>1. Free(b)
    BY DEF b
  <2> QED
    BY <2>1, <1>2, <1>3, <1>4, FreeKept
<1>6. Types'
  BY <1>5 DEF SafeInv, Types
<1>7. InHand'
  BY DEF InHand
<1> QED
  BY <1>5, <1>6, <1>7 DEF SafeInv

OneAudio == \A a, b \in AudioSources : a = b

\* The last video source that is closed takes the engine's memory.
LEMMA TakeVideoSafe ==
  ASSUME SafeInv, NEW k \in {"sched", "dec"},
         pc \in {"cdec", "csched"}, engine[k] # None,
         res' = [res EXCEPT ![k] = engine[k]], engine' = [engine EXCEPT ![k] = None],
         UNCHANGED <<alloc, uses, handle, own, cur>>,
         \/ k = "dec" /\ pc' = "cdecfree"
         \/ k = "sched" /\ pc' = "caddress"
  PROVE  SafeInv'
<1>1. k \in Shared
  BY DEF Shared
<1>2. \A v \in VideoSources : uses[v] = {}
  BY DEF SafeInv, Places
<1>3. \A a \in AudioSources : engine[k] \notin uses[a]
  BY DEF SafeInv, Kept
<1>4. \A s \in Sources : engine[k] \notin uses[s]
  BY <1>2, <1>3 DEF Sources
<1>5. Places'
  BY DEF SafeInv, Places, VideoPlaces, AudioPlaces
<1>6. FreshKinds' = {k}
  BY DEF FreshKinds
<1> QED
  BY <1>1, <1>4, <1>5, <1>6, TakeSafe

\* The audio source that is closed takes its engine's memory: there is no other.
LEMMA TakeAudioSafe ==
  ASSUME SafeInv, OneAudio, pc = "bshm", engine["shm"] # None,
         res' = [res EXCEPT !["shm"] = engine["shm"]], engine' = [engine EXCEPT !["shm"] = None],
         UNCHANGED <<alloc, uses, handle, own, cur>>, pc' = "baddress"
  PROVE  SafeInv'
<1>1. cur \in AudioSources /\ uses[cur] = {}
  BY DEF SafeInv, Places, AudioPlaces
<1>2. \A a \in AudioSources : uses[a] = {}
  <2>1. \A a \in AudioSources : a = cur
    BY <1>1 DEF OneAudio
  <2> QED
    BY <1>1, <2>1
<1>3. \A v \in VideoSources : engine["shm"] \notin uses[v]
  BY DEF SafeInv, Kept
<1>4. \A s \in Sources : engine["shm"] \notin uses[s]
  BY <1>2, <1>3 DEF Sources
<1>5. Places'
  BY DEF SafeInv, Places, VideoPlaces, AudioPlaces
<1>6. FreshKinds' = {"shm"}
  BY DEF FreshKinds
<1> QED
  BY <1>4, <1>5, <1>6, Kindly, TakeSafe

LEMMA SkipSafe ==
  ASSUME SafeInv, UNCHANGED <<alloc, engine, uses, handle, own, cur, res>>,
         \/ pc = "cdec" /\ pc' = "csched"
         \/ pc = "csched" /\ pc' = "cend"
         \/ pc = "bshm" /\ pc' = "bparts"
  PROVE  SafeInv'
<1>1. Places'
  BY DEF SafeInv, Places, VideoPlaces, AudioPlaces
<1>2. FreshKinds' = {}
  BY DEF FreshKinds
<1> QED
  BY <1>1, <1>2, GoesOn

LEMMA TakenSafe ==
  ASSUME SafeInv, OneAudio, TakeDecoder \/ TakeScheduler \/ TakeAudio PROVE SafeInv'
<1>1. CASE CallFails
  BY <1>1, FailsSafe
<1>2. CASE TakeDecoder /\ ~CallFails
  <2>1. /\ pc = "cdec" /\ UNCHANGED <<alloc, uses, handle, own, cur>>
        /\ \/ /\ engine["dec"] # None /\ pc' = "cdecfree"
              /\ res' = [res EXCEPT !["dec"] = engine["dec"]]
              /\ engine' = [engine EXCEPT !["dec"] = None]
           \/ pc' = "csched" /\ UNCHANGED <<engine, res>>
    BY <1>2 DEF TakeDecoder, TakeShared, At, Goto
  <2>2. CASE pc' = "csched" /\ UNCHANGED <<engine, res>>
    BY <2>1, <2>2, SkipSafe
  <2> QED
    BY <2>1, <2>2, TakeVideoSafe
<1>3. CASE TakeScheduler /\ ~CallFails
  <2>1. /\ pc = "csched" /\ UNCHANGED <<alloc, uses, handle, own, cur>>
        /\ \/ /\ engine["sched"] # None /\ pc' = "caddress"
              /\ res' = [res EXCEPT !["sched"] = engine["sched"]]
              /\ engine' = [engine EXCEPT !["sched"] = None]
           \/ pc' = "cend" /\ UNCHANGED <<engine, res>>
    BY <1>3 DEF TakeScheduler, TakeShared, At, Goto
  <2>2. CASE pc' = "cend" /\ UNCHANGED <<engine, res>>
    BY <2>1, <2>2, SkipSafe
  <2> QED
    BY <2>1, <2>2, TakeVideoSafe
<1>4. CASE TakeAudio /\ ~CallFails
  <2>1. /\ pc = "bshm" /\ UNCHANGED <<alloc, uses, handle, own, cur>>
        /\ \/ /\ engine["shm"] # None /\ pc' = "baddress"
              /\ res' = [res EXCEPT !["shm"] = engine["shm"]]
              /\ engine' = [engine EXCEPT !["shm"] = None]
           \/ pc' = "bparts" /\ UNCHANGED <<engine, res>>
    BY <1>4 DEF TakeAudio, TakeShared, At, Goto
  <2>2. CASE pc' = "bparts" /\ UNCHANGED <<engine, res>>
    BY <2>1, <2>2, SkipSafe
  <2> QED
    BY <2>1, <2>2, TakeAudioSafe
<1> QED
  BY <1>1, <1>2, <1>3, <1>4

LEMMA FreedSafe ==
  ASSUME SafeInv, FreeDecoder \/ FreeScheduler \/ FreeAudio PROVE SafeInv'
<1>1. \E k \in Shared :
        /\ Free(res[k]) /\ res' = [res EXCEPT ![k] = None]
        /\ UNCHANGED <<engine, uses, handle, own, cur>>
        /\ \/ k = "dec" /\ pc = "cdecfree" /\ pc' = "csched"
           \/ k = "sched" /\ pc = "cschedfree" /\ pc' = "cend"
           \/ k = "shm" /\ pc = "bshmfree" /\ pc' = "bparts"
  BY Kindly DEF FreeDecoder, FreeScheduler, FreeAudio, FreeShared, At
<1>2. PICK k \in Shared :
        /\ Free(res[k]) /\ res' = [res EXCEPT ![k] = None]
        /\ UNCHANGED <<engine, uses, handle, own, cur>>
        /\ \/ k = "dec" /\ pc = "cdecfree" /\ pc' = "csched"
           \/ k = "sched" /\ pc = "cschedfree" /\ pc' = "cend"
           \/ k = "shm" /\ pc = "bshmfree" /\ pc' = "bparts"
  BY <1>1
<1>3. k \in FreshKinds /\ FreshKinds' = {}
  BY <1>2 DEF FreshKinds
<1>4. Places'
  BY <1>2 DEF SafeInv, Places, VideoPlaces, AudioPlaces
<1> QED
  BY <1>2, <1>3, <1>4, FreeSafe

LEMMA EndSafe ==
  ASSUME SafeInv, CloseEnds \/ \E s \in Sources : Forget(s) PROVE SafeInv'
<1>1. PICK s \in Sources :
        /\ handle' = [handle EXCEPT ![s] = "none"]
        /\ pc' = "idle" /\ res' = Nothing /\ UNCHANGED <<alloc, engine, uses>>
        /\ \/ own' = own /\ OwnBlocks(s) = {}
           \/ own' = [own EXCEPT ![s] = NoParts]
  <2>1. CASE CloseEnds
    <3>1. cur \in Sources
      BY <2>1 DEF CloseEnds, SafeInv, Places, VideoPlaces, AudioPlaces, Sources
    <3> QED
      BY <2>1, <3>1 DEF CloseEnds, Return
  <2>2. CASE \E s \in Sources : Forget(s)
    BY <2>2 DEF Forget, At, SafeInv, Places
  <2> QED
    BY <2>1, <2>2
<1>2. own \in [Sources -> [Parts -> Blocks \cup {None}]]
  BY DEF SafeInv, Types
<1>3. \A t \in Sources, p \in Parts : own'[t][p] = own[t][p] \/ own'[t][p] = None
  BY <1>1, <1>2 DEF NoParts
<1>4. own'[s] = NoParts /\ \A t \in Sources : t # s => own'[t] = own[t]
  <2>1. CASE own' = own /\ OwnBlocks(s) = {}
    <3>1. \A p \in Parts : own[s][p] = None
      BY <2>1 DEF OwnBlocks
    <3>2. own[s] \in [Parts -> Blocks \cup {None}]
      BY <1>2
    <3> QED
      BY <2>1, <3>1, <3>2 DEF NoParts
  <2> QED
    BY <1>1, <1>2, <2>1
<1>5. own' \in [Sources -> [Parts -> Blocks \cup {None}]]
  BY <1>1, <1>2, NothingTyped
<1>6. handle' \in [Sources -> {"none", "bare", "bound"}] /\ \A t \in Sources : t # s => handle'[t] = handle[t]
  BY <1>1 DEF SafeInv, Types
<1>7. Types'
  BY <1>1, <1>5, <1>6, NothingTyped DEF SafeInv, Types
<1>8. Places'
  BY <1>1, <1>4, <1>6 DEF SafeInv, Places, VideoPlaces, AudioPlaces
<1>9. Kept'
  BY <1>1, <1>3, NoneUnused DEF SafeInv, Kept
<1>10. InHand'
  BY <1>1 DEF InHand, FreshKinds
<1> QED
  BY <1>7, <1>8, <1>9, <1>10 DEF SafeInv

-----------------------------------------------------------------------------
LEMMA InitSafe == Init => SafeInv
<1> SUFFICES ASSUME Init PROVE SafeInv
  OBVIOUS
<1>1. Types
  BY NothingTyped DEF Init, Types
<1>2. Places
  BY DEF Init, Places, VideoPlaces, AudioPlaces
<1>3. Kept
  <2>1. /\ alloc = {} /\ \A k \in Shared : engine[k] = None
        /\ \A s \in Sources : uses[s] = {}
        /\ \A s \in Sources, p \in Parts : own[s][p] = None
    BY DEF Init, NoParts
  <2> QED
    BY <2>1 DEF Kept, Sources
<1>4. InHand
  BY DEF Init, InHand, FreshKinds
<1> QED
  BY <1>1, <1>2, <1>3, <1>4 DEF SafeInv

LEMMA SafeStep ==
  ASSUME SafeInv, OneAudio, CallStep \/ UNCHANGED vars PROVE SafeInv'
<1>1. CASE VideoStep
  BY <1>1, BeginSafe, RequiredSafe, AllocSafe, SourceSafe, EngineSafe, DecoderSafe, VideoOpenSafe,
     CloseDecoderSafe, FreePartSafe, CloseGoesOn, TakenSafe, FreedSafe, EndSafe DEF VideoStep
<1>2. CASE AudioStep
  BY <1>2, BeginSafe, RequiredSafe, AllocSafe, EngineSafe, AudioOpenSafe, TakenSafe, FreedSafe
     DEF AudioStep
<1>3. CASE Crash
  BY <1>3, FailsSafe DEF Crash
<1>4. CASE \E s \in Sources : Forget(s)
  BY <1>4, EndSafe
<1>5. CASE UNCHANGED vars
  <2>1. UNCHANGED <<alloc, engine, uses, handle, own, res, cur, pc>>
    BY <1>5 DEF vars
  <2>2. Places'
    BY <2>1 DEF SafeInv, Places
  <2>3. FreshKinds' = FreshKinds
    BY <2>1 DEF FreshKinds
  <2> QED
    BY <2>1, <2>2, <2>3, GoesOn
<1> QED
  BY <1>1, <1>2, <1>3, <1>4, <1>5 DEF CallStep

\* All this ends where a crash tears a giving back.
LEMMA TornOrSafe == (torn \/ SafeInv) /\ OneAudio /\ [Next]_vars => torn' \/ SafeInv'
<1> SUFFICES ASSUME torn \/ SafeInv, OneAudio, [Next]_vars PROVE torn' \/ SafeInv'
  OBVIOUS
<1>1. CASE CrashTorn
  BY <1>1 DEF CrashTorn
<1>2. CASE torn' = torn /\ (CallStep \/ UNCHANGED vars)
  BY <1>2, SafeStep
<1> QED
  BY <1>1, <1>2 DEF Next, vars

LEMMA KeptIsSafe ==
  ASSUME SafeInv PROVE MemorySafe
<1>1. \A s \in Sources : \A b \in OwnBlocks(s) : b # None /\ \E p \in Parts : b = own[s][p]
  BY DEF OwnBlocks
<1>2. UsedIsAllocated
  BY DEF SafeInv, Kept, UsedIsAllocated
<1>3. \A s \in Sources : OwnBlocks(s) \subseteq alloc
  BY <1>1 DEF SafeInv, Kept
<1>4. \A s \in Sources : \A p, q \in Parts : own[s][p] = own[s][q] /\ own[s][p] # None => p = q
  BY DEF SafeInv, Kept
<1>5. ASSUME NEW s \in Sources, NEW t \in Sources, s # t PROVE OwnBlocks(s) \cap OwnBlocks(t) = {}
  <2>1. ASSUME NEW b \in OwnBlocks(s), b \in OwnBlocks(t) PROVE FALSE
    <3>1. PICK p \in Parts : b # None /\ b = own[s][p]
      BY <1>1
    <3>2. PICK q \in Parts : b = own[t][q]
      BY <1>1, <2>1
    <3>3. own[s][p] = own[t][q] /\ own[s][p] # None
      BY <3>1, <3>2
    <3>4. s = t
      BY <3>3 DEF SafeInv, Kept
    <3> QED
      BY <1>5, <3>4
  <2> QED
    BY <2>1
<1>6. \A k \in Shared : engine[k] # None =>
        engine[k] \in alloc /\ \A s \in Sources : engine[k] \notin OwnBlocks(s)
  BY <1>1 DEF SafeInv, Kept
<1>7. \A k, l \in Shared : engine[k] = engine[l] /\ engine[k] # None => k = l
  BY DEF SafeInv, Kept
<1> QED
  BY <1>2, <1>3, <1>4, <1>5, <1>6, <1>7 DEF MemorySafe, FreedOnce

\* Whatever call fails, wherever memory runs out and wherever a signal ends a call but in
\* the windows of CrashTorn, no decoder works with a block DCCCloseVideoSource or
\* DCCCloseAudioSource gave back, and none is given back twice, provided there is one audio
\* source at most: reserved1C is 1 in every audio source, so the first that is closed frees
\* what they share.
THEOREM SourcesMemorySafe ==
  ASSUME \A a, b \in AudioSources : a = b
  PROVE  Spec => []MemorySafe
<1>1. OneAudio
  BY DEF OneAudio
<1>2. (torn \/ SafeInv) /\ [Next]_vars => torn' \/ SafeInv'
  BY <1>1, TornOrSafe
<1>3. torn \/ SafeInv => MemorySafe
  BY KeptIsSafe DEF MemorySafe
<1> QED
  BY <1>2, <1>3, InitSafe, PTL DEF Spec

-----------------------------------------------------------------------------
(* Nothing is lost while nothing fails. *)


\* A source that is open, and one that is not.
Working(s) == handle[s] = "bound" /\ uses[s] # {} /\ \A p \in Parts : own[s][p] # None
Absent(s) == handle[s] = "none" /\ uses[s] = {}

Opening == {"vrequired", "valloc", "vsource", "aengine", "ashm", "asetshm", "amem", "aopen"}
Closing == {"cparts", "ccount", "cdec", "cdecfree", "csched", "caddress", "cschedfree", "cend",
            "bshm", "baddress", "bshmfree", "bparts"}

\* The sources the call in progress is not about are the one or the other; what the
\* place in the call says of its own.
Whole ==
  /\ \A s \in Sources : pc = "idle" \/ s # cur => Working(s) \/ Absent(s)
  /\ pc \in Opening => Absent(cur)
  /\ pc \in {"vsched", "vdec"} => handle[cur] = "bound" /\ uses[cur] = {} /\ own[cur] = NoParts
  /\ pc = "vopen" => handle[cur] = "bound" /\ uses[cur] = {} /\ \A p \in Parts : own[cur][p] # None
  /\ pc \in {"vsurface", "cdecoder", "bdecoder"} => Working(cur)
  /\ pc \in Closing => handle[cur] = "bound" /\ uses[cur] = {}

\* Every block that is given out is known to somebody.
Known ==
  \A b \in alloc :
    \/ \E s \in Sources, p \in Parts : own[s][p] = b
    \/ \E k \in Shared : engine[k] = b
    \/ \E k \in FreshKinds : res[k] = b

AnyVideo == \E v \in VideoSources : handle[v] # "none"
OtherVideo == \E v \in VideoSources : v # cur /\ handle[v] # "none"
AnyAudio == \E a \in AudioSources : handle[a] # "none"

ToGet(k) == pc = "valloc" /\ \E i \in 1..Len(todo) : todo[i] = k

\* The scheduler's memory: there, or got by the call, while a video source is.
Scheduled ==
  /\ pc \notin {"vsched", "caddress", "cschedfree", "cend"} => (engine["sched"] # None <=> AnyVideo)
  /\ pc \in {"valloc", "vsource"} => (engine["sched"] = None <=> res["sched"] # None \/ ToGet("sched"))
  /\ pc = "vsched" => (engine["sched"] = None <=> res["sched"] # None)
  /\ pc \in {"caddress", "cschedfree", "cend"} => (engine["sched"] # None <=> OtherVideo)

\* The memory the decoders share: only a source that is alone asks for it.
Decoded ==
  /\ pc \notin {"vsched", "vdec", "cdecfree", "csched", "caddress", "cschedfree", "cend"} =>
       (engine["dec"] # None => AnyVideo)
  /\ pc \in {"vsched", "vdec", "cdecfree", "csched", "caddress", "cschedfree", "cend"} =>
       (engine["dec"] # None => OtherVideo)
  /\ pc \in {"valloc", "vsource", "vsched", "vdec"} /\ (res["dec"] # None \/ ToGet("dec")) =>
       cur \in NeedsShared
  /\ pc \in {"valloc", "vsource", "vsched", "vdec"} => res["shm"] = None /\ ~ToGet("shm")

\* That of the audio engine.
Heard ==
  /\ pc \notin {"ashm", "asetshm", "amem", "aopen", "baddress", "bshmfree", "bparts"} =>
       (engine["shm"] # None <=> AnyAudio)
  /\ pc \in {"ashm", "asetshm", "baddress", "bshmfree", "bparts"} => engine["shm"] = None
  /\ pc \in {"amem", "aopen"} => engine["shm"] # None
  /\ pc = "asetshm" => res["shm"] # None /\ \A k \in Kinds \ {"shm"} : res[k] = None

\* What the call has still to get it has not got, and the rest of its parts it has.
ListOf(s) ==
  /\ s \in Seq(Kinds) /\ s # <<>>
  /\ \A i, j \in 1..Len(s) : s[i] = s[j] => i = j
Listed ==
  /\ pc \in {"valloc", "amem"} =>
       /\ ListOf(todo)
       /\ \A i \in 1..Len(todo) : res[todo[i]] = None
       /\ \A p \in Parts : res[p] # None \/ \E i \in 1..Len(todo) : todo[i] = p
  /\ pc = "amem" => \A i \in 1..Len(todo) : todo[i] \in Parts
  /\ pc \in {"ashm", "asetshm"} => todo = Private
  /\ pc \in {"vsource", "vsched", "vdec", "aopen"} => \A p \in Parts : res[p] # None

NothingLost == Whole /\ Known /\ Scheduled /\ Decoded /\ Heard /\ Listed

LeakInv == faults \in Nat /\ (faults = 0 => SafeInv /\ NothingLost)

\* RUAMalloc finds memory whenever it is called.
Plenty == pc \in {"valloc", "ashm", "amem"} => alloc # Blocks

-----------------------------------------------------------------------------
LEMMA NoCallFails ==
  ASSUME ~Fault PROVE ~CallFails
BY DEF CallFails

LEMMA KindsApart ==
  /\ Parts \subseteq Kinds /\ Shared \subseteq Kinds
  /\ "sched" \notin Parts /\ "dec" \notin Parts /\ "shm" \notin Parts
  /\ "sched" \in Shared /\ "dec" \in Shared /\ "shm" \in Shared
  /\ Kinds = Parts \cup Shared /\ Shared = {"sched", "dec", "shm"}
BY SourcesAssumption DEF Kinds, Shared

LEMMA NothingIsNone == \A k \in Kinds : Nothing[k] = None
BY DEF Nothing

LEMMA PrivateListed ==
  /\ ListOf(Private)
  /\ \A i \in 1..Len(Private) : Private[i] \in Parts
  /\ \A p \in Parts : \E i \in 1..Len(Private) : Private[i] = p
<1>1. /\ \A i \in 1..Len(Private) : Private[i] \in Parts
      /\ \A p \in Parts : \E i \in 1..Len(Private) : Private[i] = p
  BY DEF Parts
<1>2. Private \in Seq(Kinds)
  BY <1>1, SourcesAssumption, KindsApart
<1> QED
  BY <1>1, <1>2, SourcesAssumption DEF ListOf

\* One kind more at the head of a list.
LEMMA ListedBefore ==
  ASSUME NEW s, ListOf(s), NEW k \in Kinds, \A i \in 1..Len(s) : s[i] # k
  PROVE  /\ ListOf(<<k>> \o s)
         /\ \A l : (\E i \in 1..Len(<<k>> \o s) : (<<k>> \o s)[i] = l)
                     <=> l = k \/ \E i \in 1..Len(s) : s[i] = l
<1> DEFINE t == <<k>> \o s
<1>1. s \in Seq(Kinds) /\ <<k>> \in Seq(Kinds) /\ Len(s) \in Nat
  BY DEF ListOf
<1>2. /\ t \in Seq(Kinds) /\ Len(t) = Len(s) + 1 /\ t[1] = k
      /\ \A i \in 1..Len(s) : t[i + 1] = s[i]
  BY <1>1
<1> HIDE DEF t
<1>3. \A i \in 1..Len(t) : i = 1 \/ (i - 1 \in 1..Len(s) /\ t[i] = s[i - 1])
  <2> SUFFICES ASSUME NEW i \in 1..Len(t), i # 1 PROVE i - 1 \in 1..Len(s) /\ t[i] = s[i - 1]
    OBVIOUS
  <2>1. i - 1 \in 1..Len(s) /\ (i - 1) + 1 = i
    BY <1>1, <1>2
  <2> QED
    BY <1>2, <2>1
<1>4. ASSUME NEW l
      PROVE  (\E i \in 1..Len(t) : t[i] = l) <=> l = k \/ \E i \in 1..Len(s) : s[i] = l
  <2>1. ASSUME NEW i \in 1..Len(s), s[i] = l PROVE \E j \in 1..Len(t) : t[j] = l
    <3>1. i + 1 \in 1..Len(t) /\ t[i + 1] = l
      BY <1>1, <1>2, <2>1
    <3> QED
      BY <3>1
  <2>2. 1 \in 1..Len(t)
    BY <1>1, <1>2
  <2> QED
    BY <1>2, <1>3, <2>1, <2>2
<1>5. ASSUME NEW i \in 1..Len(t), NEW j \in 1..Len(t), t[i] = t[j] PROVE i = j
  <2>1. CASE i = 1 \/ j = 1
    BY <1>2, <1>3, <1>5, <2>1
  <2>2. CASE i # 1 /\ j # 1
    <3>1. i - 1 = j - 1
      BY <1>3, <1>5, <2>2 DEF ListOf
    <3> QED
      BY <3>1
  <2> QED
    BY <2>1, <2>2
<1>6. ListOf(t)
  <2>1. t # <<>>
    BY <1>1, <1>2
  <2> QED
    BY <1>2, <1>5, <2>1 DEF ListOf
<1> QED
  BY <1>4, <1>6 DEF t

\* What DCCGetVideoSourceRequired asks for.
LEMMA NeededListed ==
  /\ ListOf(Needed)
  /\ (\E i \in 1..Len(Needed) : Needed[i] = "sched") <=> engine["sched"] = None
  /\ (\E i \in 1..Len(Needed) : Needed[i] = "dec") <=> cur \in NeedsShared
  /\ ~\E i \in 1..Len(Needed) : Needed[i] = "shm"
  /\ \A p \in Parts : \E i \in 1..Len(Needed) : Needed[i] = p
<1> DEFINE s == (IF cur \in NeedsShared THEN <<"dec">> ELSE <<>>) \o Private
<1>1. /\ ListOf(s)
      /\ \A l : (\E i \in 1..Len(s) : s[i] = l) <=>
                  (cur \in NeedsShared /\ l = "dec") \/ \E i \in 1..Len(Private) : Private[i] = l
  <2>1. CASE cur \in NeedsShared
    <3>1. s = <<"dec">> \o Private
      BY <2>1
    <3>2. "dec" \in Kinds /\ \A i \in 1..Len(Private) : Private[i] # "dec"
      BY KindsApart, PrivateListed
    <3>3. /\ ListOf(<<"dec">> \o Private)
          /\ \A l : (\E i \in 1..Len(<<"dec">> \o Private) : (<<"dec">> \o Private)[i] = l)
                      <=> l = "dec" \/ \E i \in 1..Len(Private) : Private[i] = l
      BY <3>2, PrivateListed, ListedBefore
    <3> HIDE DEF s
    <3> QED
      BY <2>1, <3>1, <3>3
  <2>2. CASE cur \notin NeedsShared
    <3>1. s = Private
      BY <2>2, PrivateListed DEF ListOf
    <3> QED
      BY <2>2, <3>1, PrivateListed
  <2> QED
    BY <2>1, <2>2
<1>2. Needed = (IF engine["sched"] = None THEN <<"sched">> ELSE <<>>) \o s
  <2>1. Private \in Seq(Kinds)
    BY PrivateListed DEF ListOf
  <2>2. \A a, b \in Seq(Kinds) : (a \o b) \o Private = a \o (b \o Private)
    BY <2>1, ConcatAssociative
  <2> DEFINE x == IF engine["sched"] = None THEN <<"sched">> ELSE <<>>
             y == IF cur \in NeedsShared THEN <<"dec">> ELSE <<>>
  <2>3. x \in Seq(Kinds) /\ y \in Seq(Kinds)
    <3>1. <<>> \in Seq(Kinds) /\ <<"sched">> \in Seq(Kinds) /\ <<"dec">> \in Seq(Kinds)
      BY KindsApart
    <3> QED
      BY <3>1
  <2>4. Needed = (x \o y) \o Private /\ s = y \o Private
    BY DEF Needed
  <2> HIDE DEF x, y, s
  <2>5. Needed = x \o s
    BY <2>2, <2>3, <2>4
  <2> QED
    BY <2>5 DEF x
<1> HIDE DEF s
<1>3. /\ ListOf(Needed)
      /\ \A l : (\E i \in 1..Len(Needed) : Needed[i] = l) <=>
                  (engine["sched"] = None /\ l = "sched") \/ \E i \in 1..Len(s) : s[i] = l
  <2>1. CASE engine["sched"] = None
    <3>1. Needed = <<"sched">> \o s
      BY <1>2, <2>1
    <3>2. "sched" \in Kinds /\ \A i \in 1..Len(s) : s[i] # "sched"
      BY <1>1, KindsApart, PrivateListed
    <3> QED
      BY <1>1, <2>1, <3>1, <3>2, ListedBefore
  <2>2. CASE engine["sched"] # None
    <3>1. Needed = s
      BY <1>1, <1>2, <2>2 DEF ListOf
    <3> QED
      BY <1>1, <2>2, <3>1
  <2> QED
    BY <2>1, <2>2
<1>4. \A l : (\E i \in 1..Len(Needed) : Needed[i] = l) <=>
              \/ engine["sched"] = None /\ l = "sched"
              \/ cur \in NeedsShared /\ l = "dec"
              \/ \E i \in 1..Len(Private) : Private[i] = l
  BY <1>1, <1>3
<1>5. \A l : (\E i \in 1..Len(Private) : Private[i] = l) <=> l \in Parts
  BY PrivateListed
<1>6. \A l : (\E i \in 1..Len(Needed) : Needed[i] = l) <=>
              \/ engine["sched"] = None /\ l = "sched"
              \/ cur \in NeedsShared /\ l = "dec"
              \/ l \in Parts
  BY <1>4, <1>5
<1> QED
  BY <1>3, <1>6, KindsApart

-----------------------------------------------------------------------------
(* Opening a source. *)

LEMMA BeginKeeps ==
  ASSUME SafeInv, NothingLost, ~Fault,
         \/ \E v \in VideoSources : OpenVideo(v) \/ CloseVideo(v)
         \/ \E a \in AudioSources : OpenAudio(a) \/ CloseAudio(a)
  PROVE  NothingLost'
<1>1. /\ pc = "idle" /\ cur' \in Sources
      /\ UNCHANGED <<alloc, engine, uses, handle, own, todo, res>>
      /\ \/ pc' \in {"vrequired", "aengine"} /\ handle[cur'] = "none"
         \/ pc' = "cdecoder" /\ handle[cur'] = "bound"
         \/ pc' = "cparts" /\ handle[cur'] \notin {"bound", "none"}
         \/ pc' = "bdecoder" /\ handle[cur'] # "none"
  BY DEF OpenVideo, CloseVideo, OpenAudio, CloseAudio, At, Sources
<1>2. \A s \in Sources : Working(s) \/ Absent(s)
  BY <1>1 DEF NothingLost, Whole
<1>3. \/ pc' \in {"vrequired", "aengine"} /\ Absent(cur')
      \/ pc' \in {"cdecoder", "bdecoder"} /\ Working(cur')
  BY <1>1, <1>2 DEF Working, Absent
<1>4. Whole'
  BY <1>1, <1>2, <1>3 DEF Whole, Working, Absent, Opening, Closing
<1>5. Known'
  BY <1>1, <1>3 DEF NothingLost, Known, FreshKinds
<1>6. Scheduled'
  BY <1>1, <1>3 DEF NothingLost, Scheduled, AnyVideo
<1>7. Decoded'
  BY <1>1, <1>3 DEF NothingLost, Decoded, AnyVideo
<1>8. Heard'
  BY <1>1, <1>3 DEF NothingLost, Heard, AnyAudio
<1>9. Listed'
  BY <1>1, <1>3 DEF Listed
<1> QED
  BY <1>4, <1>5, <1>6, <1>7, <1>8, <1>9 DEF NothingLost

LEMMA VideoRequiredKeeps ==
  ASSUME SafeInv, NothingLost, ~Fault, VideoRequired PROVE NothingLost'
<1>1. /\ pc = "vrequired" /\ pc' = "valloc" /\ todo' = Needed
      /\ UNCHANGED <<alloc, engine, uses, handle, own, cur, res>>
  BY NoCallFails DEF VideoRequired, At
<1>2. \A k \in Kinds : res[k] = None
  BY <1>1, NothingIsNone DEF SafeInv, Places
<1>3. /\ ListOf(todo')
      /\ \A k : ToGet(k)' <=> \E i \in 1..Len(Needed) : Needed[i] = k
  BY <1>1, NeededListed DEF ToGet
<1>4. Whole'
  BY <1>1 DEF NothingLost, Whole, Working, Absent, Opening, Closing
<1>5. Known'
  BY <1>1 DEF NothingLost, Known, FreshKinds
<1>6. Scheduled'
  BY <1>1, <1>2, <1>3, NeededListed, KindsApart DEF NothingLost, Scheduled, AnyVideo
<1>7. Decoded'
  BY <1>1, <1>2, <1>3, NeededListed, KindsApart DEF NothingLost, Decoded, AnyVideo
<1>8. Heard'
  BY <1>1 DEF NothingLost, Heard, AnyAudio
<1>9. Listed'
  <2>1. \A i \in 1..Len(Needed) : Needed[i] \in Kinds
    BY NeededListed DEF ListOf
  <2> QED
    BY <1>1, <1>2, <1>3, <2>1, NeededListed DEF Listed
<1> QED
  BY <1>4, <1>5, <1>6, <1>7, <1>8, <1>9 DEF NothingLost

LEMMA AudioEngineKeeps ==
  ASSUME SafeInv, NothingLost, ~Fault, AudioEngine PROVE NothingLost'
<1>1. /\ pc = "aengine" /\ todo' = Private
      /\ \/ pc' = "ashm" /\ engine["shm"] = None
         \/ pc' = "amem" /\ engine["shm"] # None
      /\ UNCHANGED <<alloc, engine, uses, handle, own, cur, res>>
  BY NoCallFails DEF AudioEngine, At
<1>2. \A k \in Kinds : res[k] = None
  BY <1>1, NothingIsNone DEF SafeInv, Places
<1>4. Whole'
  BY <1>1 DEF NothingLost, Whole, Working, Absent, Opening, Closing
<1>5. Known'
  BY <1>1 DEF NothingLost, Known, FreshKinds
<1>6. Scheduled'
  BY <1>1 DEF NothingLost, Scheduled, AnyVideo
<1>7. Decoded'
  BY <1>1 DEF NothingLost, Decoded, AnyVideo
<1>8. Heard'
  BY <1>1 DEF Heard
<1>9. Listed'
  BY <1>1, <1>2, PrivateListed, KindsApart DEF Listed
<1> QED
  BY <1>4, <1>5, <1>6, <1>7, <1>8, <1>9 DEF NothingLost

\* The next part is got.
LEMMA AllocKeeps ==
  ASSUME SafeInv, NothingLost, VideoAlloc \/ AudioAlloc PROVE NothingLost'
<1> DEFINE k == Head(todo)
<1>1. PICK b \in Blocks : Malloc(b) /\ res' = [res EXCEPT ![k] = b]
  BY DEF VideoAlloc, AudioAlloc
<1>2. /\ todo' = Tail(todo) /\ UNCHANGED <<engine, uses, handle, own, cur>>
      /\ \/ pc = "valloc" /\ pc' = IF Len(todo) = 1 THEN "vsource" ELSE "valloc"
         \/ pc = "amem" /\ pc' = IF Len(todo) = 1 THEN "aopen" ELSE "amem"
  BY DEF VideoAlloc, AudioAlloc, At
<1>3. /\ ListOf(todo) /\ \A i \in 1..Len(todo) : res[todo[i]] = None
      /\ \A p \in Parts : res[p] # None \/ \E i \in 1..Len(todo) : todo[i] = p
      /\ pc = "amem" => \A i \in 1..Len(todo) : todo[i] \in Parts
  BY <1>2 DEF NothingLost, Listed
<1>4. /\ Len(todo) \in Nat \ {0} /\ todo[1] = k /\ k \in Kinds
      /\ Len(Tail(todo)) = Len(todo) - 1 /\ Tail(todo) \in Seq(Kinds)
      /\ \A i \in 1..Len(Tail(todo)) : Tail(todo)[i] = todo[i + 1] /\ i + 1 \in 1..Len(todo)
  BY <1>3 DEF ListOf
<1> HIDE DEF k
<1>5. res \in [Kinds -> Blocks \cup {None}] /\ b # None
  BY NoneIsNoBlock DEF SafeInv, Types
<1>6. \A l \in Kinds : res'[l] = IF l = k THEN b ELSE res[l]
  BY <1>1, <1>4, <1>5
<1>7. ASSUME NEW l, NEW i \in 1..Len(todo), todo[i] = l, l # k
      PROVE  \E j \in 1..Len(Tail(todo)) : Tail(todo)[j] = l
  <2>1. i # 1
    BY <1>4, <1>7
  <2>2. i - 1 \in 1..Len(Tail(todo)) /\ (i - 1) + 1 = i
    BY <1>4, <2>1
  <2>3. Tail(todo)[i - 1] = l
    BY <1>4, <1>7, <2>2
  <2> QED
    BY <2>2, <2>3
<1>8. \A i \in 1..Len(Tail(todo)) : Tail(todo)[i] # k
  <2>1. 1 \in 1..Len(todo) /\ \A i \in 1..Len(Tail(todo)) : i + 1 # 1
    BY <1>4
  <2> QED
    BY <1>3, <1>4, <2>1 DEF ListOf
<1>9. \A l : (\E i \in 1..Len(todo) : todo[i] = l) <=> l = k \/ \E j \in 1..Len(Tail(todo)) : Tail(todo)[j] = l
  <2>1. 1 \in 1..Len(todo)
    BY <1>4
  <2> QED
    BY <1>4, <1>7, <2>1
<1>10. pc = "valloc" => \A l : ToGet(l) <=> l = k \/ ToGet(l)'
  <2>1. ASSUME pc = "valloc", Len(todo) = 1 PROVE \A l : ~\E j \in 1..Len(Tail(todo)) : Tail(todo)[j] = l
    BY <1>4, <2>1
  <2>2. ASSUME pc = "valloc", Len(todo) # 1, NEW l PROVE ToGet(l) <=> l = k \/ ToGet(l)'
    BY <1>2, <1>9, <2>2 DEF ToGet
  <2>3. ASSUME pc = "valloc", Len(todo) = 1, NEW l PROVE ToGet(l) <=> l = k \/ ToGet(l)'
    BY <1>2, <1>9, <2>1, <2>3 DEF ToGet
  <2> QED
    BY <2>2, <2>3
<1>11. Whole'
  BY <1>2 DEF NothingLost, Whole, Working, Absent, Opening, Closing
<1>12. Known'
  <2>1. alloc' = alloc \cup {b}
    BY <1>1 DEF Malloc
  <2>2. k \in FreshKinds /\ FreshKinds' = FreshKinds
    <3>1. CASE pc = "valloc"
      BY <1>2, <1>4, <3>1 DEF FreshKinds, Kinds, Parts
    <3>2. CASE pc = "amem"
      <4>1. k \in Parts
        BY <1>3, <1>4, <3>2
      <4> QED
        BY <1>2, <3>2, <4>1 DEF FreshKinds, Parts
    <3> QED
      BY <1>2, <3>1, <3>2
  <2>3. \A l \in FreshKinds : l \in Kinds
    BY Kindly
  <2>4. ASSUME NEW c \in alloc, c # b
        PROVE  \/ \E s \in Sources, p \in Parts : own[s][p] = c
               \/ \E l \in Shared : engine[l] = c
               \/ \E l \in FreshKinds : res'[l] = c
    <3>1. ASSUME NEW l \in FreshKinds, res[l] = c PROVE res'[l] = c
      <4>1. c # None /\ res[k] = None
        BY <1>3, <1>4, <2>4, NoneIsNoBlock DEF SafeInv, Types
      <4> QED
        BY <1>6, <2>3, <3>1, <4>1
    <3> QED
      BY <2>4, <3>1 DEF NothingLost, Known
  <2>5. \E l \in FreshKinds : res'[l] = b
    BY <1>4, <1>6, <2>2
  <2> QED
    BY <1>2, <2>1, <2>2, <2>4, <2>5 DEF Known
<1>13. Scheduled'
  <2>1. pc = "valloc" => (res["sched"] # None \/ ToGet("sched") <=> res'["sched"] # None \/ ToGet("sched")')
    <3>1. res'["sched"] = IF "sched" = k THEN b ELSE res["sched"]
      BY <1>6, KindsApart
    <3> QED
      BY <1>5, <1>10, <3>1
  <2>2. pc' \in {"valloc", "vsource"} => pc = "valloc"
    BY <1>2
  <2> QED
    BY <1>2, <2>1, <2>2 DEF NothingLost, Scheduled, AnyVideo
<1>14. Decoded'
  <2>1. /\ res'["dec"] = IF "dec" = k THEN b ELSE res["dec"]
        /\ res'["shm"] = IF "shm" = k THEN b ELSE res["shm"]
    BY <1>6, KindsApart
  <2>2. pc' \in {"valloc", "vsource", "vsched", "vdec"} => pc = "valloc"
    BY <1>2
  <2>3. pc = "valloc" => (res'["dec"] # None \/ ToGet("dec")' => res["dec"] # None \/ ToGet("dec"))
    BY <1>10, <2>1
  <2>4. pc = "valloc" /\ res["shm"] = None /\ ~ToGet("shm") => res'["shm"] = None /\ ~ToGet("shm")'
    BY <1>10, <2>1
  <2> QED
    BY <1>2, <2>2, <2>3, <2>4 DEF NothingLost, Decoded, AnyVideo
<1>15. Heard'
  BY <1>2 DEF NothingLost, Heard, AnyAudio
<1>16. Listed'
  <2>1. pc' \in {"valloc", "amem"} => ListOf(todo')
    <3>1. ASSUME pc' \in {"valloc", "amem"} PROVE Len(Tail(todo)) # 0
      BY <1>2, <1>4, <3>1
    <3>2. \A i, j \in 1..Len(Tail(todo)) : Tail(todo)[i] = Tail(todo)[j] => i = j
      <4> SUFFICES ASSUME NEW i \in 1..Len(Tail(todo)), NEW j \in 1..Len(Tail(todo)),
                          Tail(todo)[i] = Tail(todo)[j]
                   PROVE  i = j
        OBVIOUS
      <4>1. i + 1 = j + 1
        BY <1>3, <1>4 DEF ListOf
      <4> QED
        BY <4>1
    <3> QED
      BY <1>2, <1>4, <3>1, <3>2 DEF ListOf
  <2>2. \A i \in 1..Len(todo') : res'[todo'[i]] = None
    BY <1>2, <1>3, <1>4, <1>6, <1>8 DEF ListOf
  <2>3. \A p \in Parts : res'[p] # None \/ \E i \in 1..Len(todo') : todo'[i] = p
    <3> SUFFICES ASSUME NEW p \in Parts PROVE res'[p] # None \/ \E i \in 1..Len(todo') : todo'[i] = p
      OBVIOUS
    <3>1. res'[p] = IF p = k THEN b ELSE res[p]
      BY <1>6, KindsApart
    <3> QED
      BY <1>2, <1>3, <1>5, <1>9, <3>1
  <2>4. pc' = "amem" => \A i \in 1..Len(todo') : todo'[i] \in Parts
    BY <1>2, <1>3, <1>4
  <2>5. pc' \in {"vsource", "aopen"} => Len(todo') = 0
    BY <1>2, <1>4
  <2>6. pc' \in {"valloc", "vsource", "amem", "aopen"}
    BY <1>2
  <2> QED
    BY <2>1, <2>2, <2>3, <2>4, <2>5, <2>6 DEF Listed
<1> QED
  BY <1>11, <1>12, <1>13, <1>14, <1>15, <1>16 DEF NothingLost

LEMMA EnoughMemory ==
  ASSUME Plenty, ~Fault, pc \in {"valloc", "ashm", "amem"} PROVE ~NoMemory
BY DEF NoMemory, Plenty

LEMMA AudioSharedKeeps ==
  ASSUME SafeInv, NothingLost, Plenty, ~Fault, AudioShared PROVE NothingLost'
<1>1. PICK b \in Blocks : Malloc(b) /\ res' = [res EXCEPT !["shm"] = b]
  BY EnoughMemory DEF AudioShared, At
<1>2. /\ pc = "ashm" /\ pc' = "asetshm" /\ alloc' = alloc \cup {b}
      /\ UNCHANGED <<engine, uses, handle, own, cur, todo>>
  BY <1>1 DEF AudioShared, At, Malloc
<1>3. \A k \in Kinds : res[k] = None
  BY <1>2, NothingIsNone DEF SafeInv, Places
<1>4. b # None /\ res \in [Kinds -> Blocks \cup {None}]
  BY NoneIsNoBlock DEF SafeInv, Types
<1>5. res'["shm"] = b /\ \A k \in Kinds \ {"shm"} : res'[k] = None
  BY <1>1, <1>3, <1>4, KindsApart
<1>6. Whole'
  BY <1>2 DEF NothingLost, Whole, Working, Absent, Opening, Closing
<1>7. Known'
  <2>1. FreshKinds = {} /\ "shm" \in FreshKinds'
    BY <1>2, KindsApart DEF FreshKinds, Kinds, Parts
  <2> QED
    BY <1>2, <1>5, <2>1 DEF NothingLost, Known
<1>8. Scheduled'
  BY <1>2 DEF NothingLost, Scheduled, AnyVideo
<1>9. Decoded'
  BY <1>2 DEF NothingLost, Decoded, AnyVideo
<1>10. Heard'
  BY <1>2, <1>4, <1>5 DEF NothingLost, Heard
<1>11. Listed'
  BY <1>2 DEF NothingLost, Listed
<1> QED
  BY <1>6, <1>7, <1>8, <1>9, <1>10, <1>11 DEF NothingLost

LEMMA AudioSetSharedKeeps ==
  ASSUME SafeInv, NothingLost, ~Fault, AudioSetShared PROVE NothingLost'
<1>1. /\ pc = "asetshm" /\ pc' = "amem" /\ engine' = [engine EXCEPT !["shm"] = res["shm"]]
      /\ UNCHANGED <<alloc, uses, handle, own, cur, todo, res>>
  BY NoCallFails DEF AudioSetShared, At, Goto
<1>2. \A k \in Shared : engine'[k] = IF k = "shm" THEN res["shm"] ELSE engine[k]
  BY <1>1 DEF SafeInv, Types
<1>3. /\ res["shm"] # None /\ \A k \in Kinds \ {"shm"} : res[k] = None
      /\ engine["shm"] = None /\ todo = Private
  BY <1>1 DEF NothingLost, Heard, Listed
<1>4. engine'["sched"] = engine["sched"] /\ engine'["dec"] = engine["dec"] /\ engine'["shm"] # None
  BY <1>2, <1>3, KindsApart
<1>5. Whole'
  BY <1>1 DEF NothingLost, Whole, Working, Absent, Opening, Closing
<1>6. Known'
  <2>1. FreshKinds = Kinds
    BY <1>1 DEF FreshKinds, Kinds, Parts
  <2> SUFFICES ASSUME NEW b \in alloc
               PROVE  \/ \E s \in Sources, p \in Parts : own[s][p] = b
                      \/ \E k \in Shared : engine'[k] = b
    BY <1>1 DEF Known
  <2>2. b # None
    BY NoneIsNoBlock DEF SafeInv, Types
  <2>3. CASE \E k \in Shared : engine[k] = b
    BY <1>2, <1>3, <2>2, <2>3
  <2>4. CASE \E k \in Kinds : res[k] = b
    BY <1>2, <1>3, <2>2, <2>4, KindsApart
  <2> QED
    BY <2>1, <2>3, <2>4 DEF NothingLost, Known
<1>7. Scheduled'
  BY <1>1, <1>4 DEF NothingLost, Scheduled, AnyVideo
<1>8. Decoded'
  BY <1>1, <1>4 DEF NothingLost, Decoded, AnyVideo
<1>9. Heard'
  BY <1>1, <1>4 DEF Heard
<1>10. Listed'
  <2>1. \A i \in 1..Len(Private) : res[Private[i]] = None
    <3>1. \A p \in Parts : res[p] = None
      BY <1>3, KindsApart
    <3> QED
      BY <3>1, PrivateListed
  <2> QED
    BY <1>1, <1>3, <2>1, PrivateListed DEF Listed
<1> QED
  BY <1>5, <1>6, <1>7, <1>8, <1>9, <1>10 DEF NothingLost

LEMMA VideoSourceKeeps ==
  ASSUME SafeInv, NothingLost, ~Fault, VideoSource PROVE NothingLost'
<1>1. /\ pc = "vsource" /\ pc' = "vsched"
      /\ handle' = [handle EXCEPT ![cur] = "bound"] /\ own' = [own EXCEPT ![cur] = NoParts]
      /\ UNCHANGED <<alloc, engine, uses, cur, todo, res>>
  BY DEF VideoSource, At, Goto
<1>2. cur \in VideoSources /\ cur \in Sources /\ cur \notin AudioSources /\ Absent(cur)
  BY <1>1, NoneIsNoBlock DEF SafeInv, Places, VideoPlaces, Sources, NothingLost, Whole, Opening
<1>3. own[cur] = NoParts
  BY <1>2 DEF SafeInv, Places, Absent
<1>4. own' = own /\ own'[cur] = NoParts
  BY <1>1, <1>2, <1>3 DEF SafeInv, Types
<1>5. \A s \in Sources : handle'[s] = IF s = cur THEN "bound" ELSE handle[s]
  BY <1>1, <1>2 DEF SafeInv, Types
<1>6. Whole'
  BY <1>1, <1>2, <1>4, <1>5 DEF NothingLost, Whole, Working, Absent, Opening, Closing
<1>7. Known'
  BY <1>1, <1>4 DEF NothingLost, Known, FreshKinds, Kinds, Parts
<1>8. (OtherVideo' <=> AnyVideo) /\ (AnyAudio' <=> AnyAudio)
  BY <1>1, <1>2, <1>5 DEF OtherVideo, AnyVideo, AnyAudio, Sources, Absent
<1>9. Scheduled'
  BY <1>1 DEF NothingLost, Scheduled, ToGet
<1>10. Decoded'
  BY <1>1, <1>8 DEF NothingLost, Decoded, ToGet
<1>11. Heard'
  BY <1>1, <1>8 DEF NothingLost, Heard
<1>12. Listed'
  BY <1>1 DEF NothingLost, Listed
<1> QED
  BY <1>6, <1>7, <1>9, <1>10, <1>11, <1>12 DEF NothingLost

LEMMA VideoSetSchedulerKeeps ==
  ASSUME SafeInv, NothingLost, ~Fault, VideoSetScheduler PROVE NothingLost'
<1>1. /\ pc = "vsched" /\ pc' = "vdec" /\ EngineGets("sched")
      /\ res["sched"] # None => engine' = [engine EXCEPT !["sched"] = res["sched"]]
      /\ res["sched"] = None => engine' = engine
      /\ UNCHANGED <<alloc, uses, handle, own, cur, todo, res>>
  BY NoCallFails DEF VideoSetScheduler, SetShared, EngineGets, At, Goto
<1>2. engine["sched"] = None <=> res["sched"] # None
  BY <1>1 DEF NothingLost, Scheduled
<1>3. \A k \in Shared : engine'[k] = IF k = "sched" /\ res["sched"] # None THEN res["sched"] ELSE engine[k]
  BY <1>1 DEF SafeInv, Types
<1>4. engine'["sched"] # None /\ engine'["dec"] = engine["dec"] /\ engine'["shm"] = engine["shm"]
  BY <1>2, <1>3, KindsApart
<1>5. cur \in VideoSources /\ handle[cur] = "bound"
  BY <1>1 DEF SafeInv, Places, VideoPlaces
<1>6. Whole'
  BY <1>1 DEF NothingLost, Whole, Working, Absent, Opening, Closing
<1>7. Known'
  <2>1. FreshKinds = Kinds /\ FreshKinds' = Kinds \ {"sched"}
    BY <1>1 DEF FreshKinds, Kinds, Parts
  <2> SUFFICES ASSUME NEW b \in alloc
               PROVE  \/ \E s \in Sources, p \in Parts : own[s][p] = b
                      \/ \E k \in Shared : engine'[k] = b
                      \/ \E k \in Kinds \ {"sched"} : res[k] = b
    BY <1>1, <2>1 DEF Known
  <2>2. b # None
    BY NoneIsNoBlock DEF SafeInv, Types
  <2>3. CASE \E k \in Shared : engine[k] = b
    BY <1>2, <1>3, <2>2, <2>3
  <2>4. CASE \E k \in Kinds : res[k] = b
    BY <1>3, <2>2, <2>4, KindsApart
  <2> QED
    BY <2>1, <2>3, <2>4 DEF NothingLost, Known
<1>8. Scheduled'
  BY <1>1, <1>4, <1>5 DEF Scheduled, AnyVideo
<1>9. Decoded'
  BY <1>1, <1>4 DEF NothingLost, Decoded, OtherVideo, ToGet
<1>10. Heard'
  BY <1>1, <1>4 DEF NothingLost, Heard, AnyAudio
<1>11. Listed'
  BY <1>1 DEF NothingLost, Listed
<1> QED
  BY <1>6, <1>7, <1>8, <1>9, <1>10, <1>11 DEF NothingLost

LoneShared == \A v \in NeedsShared, w \in VideoSources : v = w

LEMMA VideoSetDecoderKeeps ==
  ASSUME SafeInv, NothingLost, LoneShared, ~Fault, VideoSetDecoder PROVE NothingLost'
<1>1. /\ pc = "vdec" /\ pc' = "vopen"
      /\ res["dec"] # None => engine' = [engine EXCEPT !["dec"] = res["dec"]]
      /\ res["dec"] = None => engine' = engine
      /\ own' = [own EXCEPT ![cur] = [p \in Parts |-> res[p]]]
      /\ UNCHANGED <<alloc, uses, handle, cur, todo, res>>
  BY NoCallFails DEF VideoSetDecoder, SetShared, At, Goto
<1>2. cur \in VideoSources /\ cur \in Sources /\ handle[cur] = "bound"
  BY <1>1 DEF SafeInv, Places, VideoPlaces, Sources
<1>3. own[cur] = NoParts /\ uses[cur] = {} /\ \A p \in Parts : res[p] # None
  BY <1>1 DEF NothingLost, Whole, Listed
<1>4. \A s \in Sources, p \in Parts : own'[s][p] = IF s = cur THEN res[p] ELSE own[s][p]
  BY <1>1, <1>2 DEF SafeInv, Types
<1>5. res["dec"] # None => engine["dec"] = None
  <2>1. ASSUME res["dec"] # None PROVE ~OtherVideo
    BY <1>1, <2>1 DEF NothingLost, Decoded, LoneShared, OtherVideo
  <2> QED
    BY <1>1, <2>1 DEF NothingLost, Decoded
<1>6. \A k \in Shared : engine'[k] = IF k = "dec" /\ res["dec"] # None THEN res["dec"] ELSE engine[k]
  BY <1>1 DEF SafeInv, Types
<1>7. engine'["sched"] = engine["sched"] /\ engine'["shm"] = engine["shm"] /\ res["shm"] = None
  BY <1>1, <1>6, KindsApart DEF NothingLost, Decoded
<1>8. Whole'
  <2>1. \A s \in Sources : s # cur => own'[s] = own[s]
    BY <1>1, <1>2 DEF SafeInv, Types
  <2> QED
    BY <1>1, <1>2, <1>3, <1>4, <2>1 DEF NothingLost, Whole, Working, Absent, Opening, Closing
<1>9. Known'
  <2>1. FreshKinds = Kinds \ {"sched"}
    BY <1>1 DEF FreshKinds, Kinds, Parts
  <2> SUFFICES ASSUME NEW b \in alloc
               PROVE  \/ \E s \in Sources, p \in Parts : own'[s][p] = b
                      \/ \E k \in Shared : engine'[k] = b
    BY <1>1 DEF Known
  <2>2. b # None
    BY NoneIsNoBlock DEF SafeInv, Types
  <2>3. CASE \E k \in Shared : engine[k] = b
    BY <1>5, <1>6, <2>2, <2>3
  <2>4. CASE \E k \in Kinds \ {"sched"} : res[k] = b
    <3>1. PICK k \in Kinds : k # "sched" /\ res[k] = b
      BY <2>4
    <3>2. CASE k \in Parts
      BY <1>2, <1>4, <3>1, <3>2
    <3>3. CASE k = "dec"
      BY <1>6, <2>2, <3>1, <3>3, KindsApart
    <3> QED
      BY <1>7, <2>2, <3>1, <3>2, <3>3, KindsApart
  <2>5. CASE \E s \in Sources, p \in Parts : own[s][p] = b
    <3>1. PICK s \in Sources, p \in Parts : own[s][p] = b
      BY <2>5
    <3>2. s # cur
      BY <1>3, <2>2, <3>1 DEF NoParts
    <3> QED
      BY <1>4, <3>1, <3>2
  <2> QED
    BY <2>1, <2>3, <2>4, <2>5 DEF NothingLost, Known
<1>10. Scheduled'
  BY <1>1, <1>7 DEF NothingLost, Scheduled, AnyVideo
<1>11. Decoded'
  BY <1>1, <1>2 DEF Decoded, AnyVideo
<1>12. Heard'
  BY <1>1, <1>7 DEF NothingLost, Heard, AnyAudio
<1>13. Listed'
  BY <1>1 DEF Listed
<1> QED
  BY <1>8, <1>9, <1>10, <1>11, <1>12, <1>13 DEF NothingLost

LEMMA SomePart == Private[1] \in Parts
BY SourcesAssumption DEF Parts

LEMMA VideoOpenKeeps ==
  ASSUME SafeInv, NothingLost, ~Fault, VideoOpen PROVE NothingLost'
<1>1. pc = "vopen" /\ cur \in VideoSources /\ cur \in Sources
  BY DEF VideoOpen, At, SafeInv, Places, VideoPlaces, Sources
<1>2. handle[cur] = "bound" /\ uses[cur] = {} /\ \A p \in Parts : own[cur][p] # None
  BY <1>1 DEF NothingLost, Whole
<1>3. /\ pc' = "vsurface"
      /\ uses' = [uses EXCEPT ![cur] = OwnBlocks(cur) \cup ({engine["sched"], engine["dec"]} \ {None})]
      /\ UNCHANGED <<alloc, engine, handle, own, cur, todo, res>>
  BY <1>2, NoCallFails DEF VideoOpen, Open, Goto
<1>4. uses'[cur] # {}
  <2>1. own[cur][Private[1]] \in OwnBlocks(cur)
    BY <1>2, SomePart DEF OwnBlocks
  <2> QED
    BY <1>1, <1>3, <2>1 DEF SafeInv, Types
<1>5. \A s \in Sources : s # cur => uses'[s] = uses[s]
  BY <1>3 DEF SafeInv, Types
<1>6. Whole'
  BY <1>1, <1>2, <1>3, <1>4, <1>5 DEF NothingLost, Whole, Working, Absent, Opening, Closing
<1>7. Known'
  BY <1>1, <1>3 DEF NothingLost, Known, FreshKinds
<1>8. Scheduled' /\ Decoded' /\ Heard'
  BY <1>1, <1>3 DEF NothingLost, Scheduled, Decoded, Heard, AnyVideo, AnyAudio
<1>9. Listed'
  BY <1>3 DEF Listed
<1> QED
  BY <1>6, <1>7, <1>8, <1>9 DEF NothingLost

LEMMA VideoSurfaceKeeps ==
  ASSUME SafeInv, NothingLost, ~Fault, VideoSurface PROVE NothingLost'
<1>1. /\ pc = "vsurface" /\ pc' = "idle" /\ UNCHANGED <<alloc, engine, uses, handle, own>>
  BY NoCallFails DEF VideoSurface, At, Return
<1>2. Whole'
  BY <1>1 DEF NothingLost, Whole, Working, Absent, Opening, Closing
<1>3. Known'
  BY <1>1 DEF NothingLost, Known, FreshKinds
<1>4. Scheduled' /\ Decoded' /\ Heard'
  BY <1>1 DEF NothingLost, Scheduled, Decoded, Heard, AnyVideo, AnyAudio
<1>5. Listed'
  BY <1>1 DEF Listed
<1> QED
  BY <1>2, <1>3, <1>4, <1>5 DEF NothingLost

LEMMA AudioOpenKeeps ==
  ASSUME SafeInv, NothingLost, ~Fault, AudioOpen PROVE NothingLost'
<1>1. /\ pc = "aopen" /\ cur \in AudioSources /\ cur \in Sources /\ cur \notin VideoSources
  BY NoneIsNoBlock DEF AudioOpen, At, SafeInv, Places, AudioPlaces, Sources
<1>2. Absent(cur) /\ own[cur] = NoParts /\ engine["shm"] # None /\ \A p \in Parts : res[p] # None
  BY <1>1 DEF NothingLost, Whole, Opening, Heard, Listed, Absent, SafeInv, Places
<1>3. /\ pc' = "idle"
      /\ own' = [own EXCEPT ![cur] = [p \in Parts |-> res[p]]]
      /\ uses' = [uses EXCEPT ![cur] = ({res[p] : p \in Parts} \cup {engine["shm"]}) \ {None}]
      /\ handle' = [handle EXCEPT ![cur] = "bound"]
      /\ UNCHANGED <<alloc, engine>>
  BY <1>2, NoCallFails DEF AudioOpen, Absent, Open, Return
<1>4. /\ \A s \in Sources : s # cur => own'[s] = own[s] /\ uses'[s] = uses[s] /\ handle'[s] = handle[s]
      /\ handle'[cur] = "bound" /\ \A p \in Parts : own'[cur][p] = res[p]
      /\ engine["shm"] \in uses'[cur]
  BY <1>1, <1>2, <1>3 DEF SafeInv, Types
<1>5. Whole'
  <2>1. \A s \in Sources : Working(s)' \/ Absent(s)'
    BY <1>1, <1>2, <1>4 DEF NothingLost, Whole, Working, Absent
  <2> QED
    BY <1>3, <2>1 DEF Whole, Opening, Closing
<1>6. Known'
  <2> SUFFICES ASSUME NEW b \in alloc
               PROVE  \/ \E s \in Sources, p \in Parts : own'[s][p] = b
                      \/ \E k \in Shared : engine[k] = b
    BY <1>3 DEF Known
  <2>1. b # None /\ FreshKinds = Parts
    BY <1>1, NoneIsNoBlock DEF SafeInv, Types, FreshKinds
  <2>2. CASE \E s \in Sources, p \in Parts : own[s][p] = b
    <3>1. PICK s \in Sources, p \in Parts : own[s][p] = b
      BY <2>2
    <3>2. s # cur
      BY <1>2, <2>1, <3>1 DEF NoParts
    <3> QED
      BY <1>4, <3>1, <3>2
  <2>3. CASE \E k \in Parts : res[k] = b
    BY <1>1, <1>4, <2>3
  <2> QED
    BY <2>1, <2>2, <2>3 DEF NothingLost, Known
<1>7. AnyVideo' = AnyVideo /\ AnyAudio'
  BY <1>1, <1>4 DEF AnyVideo, AnyAudio, Sources
<1>8. Scheduled'
  BY <1>1, <1>3, <1>7 DEF NothingLost, Scheduled
<1>9. Decoded'
  BY <1>1, <1>3, <1>7 DEF NothingLost, Decoded
<1>10. Heard'
  BY <1>2, <1>3, <1>7 DEF Heard
<1>11. Listed'
  BY <1>3 DEF Listed
<1> QED
  BY <1>5, <1>6, <1>8, <1>9, <1>10, <1>11 DEF NothingLost

-----------------------------------------------------------------------------
(* Closing a source. *)

LEMMA CloseDecoderKeeps ==
  ASSUME SafeInv, NothingLost, ~Fault, CloseDecoder PROVE NothingLost'
<1>1. /\ uses' = [uses EXCEPT ![cur] = {}]
      /\ \/ pc = "cdecoder" /\ pc' = "cparts"
         \/ pc = "bdecoder" /\ pc' = "bshm"
      /\ UNCHANGED <<alloc, engine, handle, own, cur, todo, res>>
  BY NoCallFails DEF CloseDecoder, Goto
<1>2. cur \in Sources /\ Working(cur)
  BY <1>1 DEF SafeInv, Places, VideoPlaces, AudioPlaces, Sources, NothingLost, Whole
<1>3. uses'[cur] = {} /\ \A s \in Sources : s # cur => uses'[s] = uses[s]
  BY <1>1, <1>2 DEF SafeInv, Types
<1>4. Whole'
  BY <1>1, <1>2, <1>3 DEF NothingLost, Whole, Working, Absent, Opening, Closing
<1>5. Known'
  BY <1>1 DEF NothingLost, Known, FreshKinds
<1>6. Scheduled' /\ Decoded' /\ Heard'
  BY <1>1 DEF NothingLost, Scheduled, Decoded, Heard, AnyVideo, AnyAudio
<1>7. Listed'
  BY <1>1 DEF Listed
<1> QED
  BY <1>4, <1>5, <1>6, <1>7 DEF NothingLost

LEMMA FreePartKeeps ==
  ASSUME SafeInv, NothingLost, ~Fault, FreePart PROVE NothingLost'
<1>1. PICK i \in 1..Len(Private) :
        /\ Free(own[cur][Private[i]])
        /\ own' = [own EXCEPT ![cur][Private[i]] = None]
  BY DEF FreePart
<1> DEFINE b == own[cur][Private[i]]
<1>2. /\ pc \in {"cparts", "bparts"} /\ alloc' = alloc \ {b}
      /\ UNCHANGED <<engine, uses, handle, cur, pc, todo, res>>
  BY <1>1 DEF FreePart, Free
<1>3. cur \in Sources
  BY <1>2 DEF SafeInv, Places, VideoPlaces, AudioPlaces, Sources
<1>4. \A s \in Sources, p \in Parts : own[s][p] # b => own'[s][p] = own[s][p]
  BY <1>1, <1>3 DEF SafeInv, Types
<1>5. \A s \in Sources : s # cur => own'[s] = own[s]
  BY <1>1 DEF SafeInv, Types
<1> HIDE DEF b
<1>6. Whole'
  BY <1>2, <1>5 DEF NothingLost, Whole, Working, Absent, Opening, Closing
<1>7. Known'
  BY <1>2, <1>4 DEF NothingLost, Known, FreshKinds
<1>8. Scheduled' /\ Decoded' /\ Heard'
  BY <1>2 DEF NothingLost, Scheduled, Decoded, Heard, AnyVideo, OtherVideo, AnyAudio
<1>9. Listed'
  BY <1>2 DEF Listed
<1> QED
  BY <1>6, <1>7, <1>8, <1>9 DEF NothingLost

LEMMA CountedSome ==
  ASSUME ConnectedTaskCount # 0 PROVE \E v \in VideoSources : uses[v] # {}
<1>1. Cardinality({}) = 0
  BY FS_EmptySet
<1> QED
  BY <1>1 DEF ConnectedTaskCount, Open

LEMMA CloseGoesOnKeeps ==
  ASSUME SafeInv, NothingLost, ~Fault, PartsFreed \/ CloseCount \/ ForgetAddress PROVE NothingLost'
<1>1. /\ UNCHANGED <<alloc, engine, uses, handle, own, cur, res, todo>>
      /\ \/ pc = "cparts" /\ pc' = IF handle[cur] = "bound" THEN "ccount" ELSE "cend"
         \/ pc = "ccount" /\ pc' = IF ConnectedTaskCount = 0 THEN "cdec" ELSE "cend"
         \/ pc = "caddress" /\ pc' = "cschedfree"
         \/ pc = "baddress" /\ pc' = "bshmfree"
  BY NoCallFails DEF PartsFreed, CloseCount, ForgetAddress, At, Goto
<1>2. handle[cur] = "bound" /\ uses[cur] = {}
  BY <1>1 DEF NothingLost, Whole, Closing
<1>3. Whole'
  BY <1>1, <1>2 DEF NothingLost, Whole, Working, Absent, Opening, Closing
<1>4. Known'
  BY <1>1, <1>2 DEF NothingLost, Known, FreshKinds
<1>5. Heard'
  BY <1>1, <1>2 DEF NothingLost, Heard, AnyAudio
<1>6. Listed'
  BY <1>1, <1>2 DEF Listed
<1>7. AnyVideo' = AnyVideo /\ OtherVideo' = OtherVideo
  BY <1>1 DEF AnyVideo, OtherVideo
<1>8. pc = "ccount" => AnyVideo /\ (pc' = "cend" => OtherVideo)
  <2> SUFFICES ASSUME pc = "ccount" PROVE AnyVideo /\ (pc' = "cend" => OtherVideo)
    OBVIOUS
  <2>1. AnyVideo
    BY <1>2 DEF AnyVideo, SafeInv, Places, VideoPlaces
  <2>2. ASSUME pc' = "cend" PROVE OtherVideo
    <3>1. PICK v \in VideoSources : uses[v] # {}
      BY <1>1, <2>2, CountedSome
    <3>2. v # cur /\ Working(v)
      BY <1>2, <3>1 DEF NothingLost, Whole, Absent, Sources
    <3> QED
      BY <3>2 DEF OtherVideo, Working
  <2> QED
    BY <2>1, <2>2
<1>9. Scheduled' /\ Decoded'
  <2>1. CASE pc = "ccount"
    BY <1>1, <1>7, <1>8, <2>1 DEF NothingLost, Scheduled, Decoded
  <2>2. CASE pc \in {"cparts", "caddress", "baddress"}
    BY <1>1, <1>2, <1>7, <2>2 DEF NothingLost, Scheduled, Decoded
  <2> QED
    BY <1>1, <2>1, <2>2
<1> QED
  BY <1>3, <1>4, <1>5, <1>6, <1>9 DEF NothingLost

\* While the engine's memory is given back no other video source is open.
LEMMA LastVideo ==
  ASSUME SafeInv, Whole, pc \in {"cdec", "cdecfree", "csched", "caddress", "cschedfree"}
  PROVE  ~OtherVideo /\ AnyVideo
<1>1. /\ \A v \in VideoSources : uses[v] = {}
      /\ cur \in VideoSources /\ handle[cur] = "bound"
  BY DEF SafeInv, Places, VideoPlaces, Whole, Closing
<1>2. \A v \in VideoSources : v # cur => handle[v] = "none"
  BY <1>1 DEF Whole, Working, Absent, Sources
<1> QED
  BY <1>1, <1>2 DEF OtherVideo, AnyVideo

\* An engine's memory passes to the call.
LEMMA TakeKeeps ==
  ASSUME SafeInv, NothingLost, NEW k \in Shared,
         res' = [res EXCEPT ![k] = engine[k]], engine' = [engine EXCEPT ![k] = None],
         UNCHANGED <<alloc, uses, handle, own, cur, todo>>,
         pc \in {"cdec", "csched", "bshm"}, pc' \in Closing, FreshKinds' = {k}
  PROVE  /\ Whole' /\ Known' /\ Listed'
         /\ \A l \in Shared : engine'[l] = IF l = k THEN None ELSE engine[l]
         /\ AnyVideo' = AnyVideo /\ OtherVideo' = OtherVideo /\ AnyAudio' = AnyAudio
<1>1. engine \in [Shared -> Blocks \cup {None}] /\ res \in [Kinds -> Blocks \cup {None}] /\ k \in Kinds
  BY KindsApart DEF SafeInv, Types
<1>2. res'[k] = engine[k] /\ \A l \in Shared : engine'[l] = IF l = k THEN None ELSE engine[l]
  BY <1>1
<1>3. Whole'
  BY DEF NothingLost, Whole, Working, Absent, Opening, Closing
<1>4. Known'
  <2>1. FreshKinds = {}
    BY DEF FreshKinds
  <2> QED
    BY <1>2, <2>1 DEF NothingLost, Known
<1>5. Listed'
  BY DEF Listed, Closing
<1>6. AnyVideo' = AnyVideo /\ OtherVideo' = OtherVideo /\ AnyAudio' = AnyAudio
  BY DEF AnyVideo, OtherVideo, AnyAudio
<1> QED
  BY <1>2, <1>3, <1>4, <1>5, <1>6

LEMMA TakeDecoderKeeps ==
  ASSUME SafeInv, NothingLost, ~Fault, TakeDecoder PROVE NothingLost'
<1>1. CASE engine["dec"] # None
  <2>1. /\ pc = "cdec" /\ pc' = "cdecfree" /\ UNCHANGED <<alloc, uses, handle, own, cur, todo>>
        /\ res' = [res EXCEPT !["dec"] = engine["dec"]] /\ engine' = [engine EXCEPT !["dec"] = None]
    BY <1>1, NoCallFails DEF TakeDecoder, TakeShared, At
  <2>2. FreshKinds' = {"dec"} /\ pc' \in Closing
    BY <2>1 DEF FreshKinds, Closing
  <2>3. /\ Whole' /\ Known' /\ Listed'
        /\ \A l \in Shared : engine'[l] = IF l = "dec" THEN None ELSE engine[l]
        /\ AnyVideo' = AnyVideo /\ OtherVideo' = OtherVideo /\ AnyAudio' = AnyAudio
    BY <2>1, <2>2, KindsApart, TakeKeeps
  <2>4. engine'["dec"] = None /\ engine'["sched"] = engine["sched"] /\ engine'["shm"] = engine["shm"]
    BY <2>3, KindsApart
  <2>5. Scheduled' /\ Decoded' /\ Heard'
    BY <2>1, <2>3, <2>4 DEF NothingLost, Scheduled, Decoded, Heard
  <2> QED
    BY <2>3, <2>5 DEF NothingLost
<1>2. CASE engine["dec"] = None
  <2>1. pc = "cdec" /\ pc' = "csched" /\ UNCHANGED <<alloc, engine, uses, handle, own, cur, todo, res>>
    BY <1>2, NoCallFails DEF TakeDecoder, TakeShared, At, Goto
  <2>2. Whole' /\ Listed'
    BY <2>1 DEF NothingLost, Whole, Listed, Working, Absent, Opening, Closing
  <2>3. Known'
    BY <2>1 DEF NothingLost, Known, FreshKinds
  <2>4. Scheduled' /\ Decoded' /\ Heard'
    BY <1>2, <2>1 DEF NothingLost, Scheduled, Decoded, Heard, AnyVideo, AnyAudio
  <2> QED
    BY <2>2, <2>3, <2>4 DEF NothingLost
<1> QED
  BY <1>1, <1>2

LEMMA TakeSchedulerKeeps ==
  ASSUME SafeInv, NothingLost, ~Fault, TakeScheduler PROVE NothingLost'
<1>1. pc = "csched"
  BY DEF TakeScheduler, At
<1>2. ~OtherVideo /\ AnyVideo
  BY <1>1, LastVideo DEF NothingLost
<1>3. engine["sched"] # None /\ engine["dec"] = None
  BY <1>1, <1>2 DEF NothingLost, Scheduled, Decoded
<1>4. /\ pc' = "caddress" /\ UNCHANGED <<alloc, uses, handle, own, cur, todo>>
      /\ res' = [res EXCEPT !["sched"] = engine["sched"]] /\ engine' = [engine EXCEPT !["sched"] = None]
  BY <1>3, NoCallFails DEF TakeScheduler, TakeShared
<1>5. FreshKinds' = {"sched"} /\ pc' \in Closing
  BY <1>4 DEF FreshKinds, Closing
<1>6. /\ Whole' /\ Known' /\ Listed'
      /\ \A l \in Shared : engine'[l] = IF l = "sched" THEN None ELSE engine[l]
      /\ AnyVideo' = AnyVideo /\ OtherVideo' = OtherVideo /\ AnyAudio' = AnyAudio
  BY <1>1, <1>4, <1>5, KindsApart, TakeKeeps
<1>7. engine'["dec"] = None /\ engine'["sched"] = None /\ engine'["shm"] = engine["shm"]
  BY <1>3, <1>6, KindsApart
<1>8. Scheduled' /\ Decoded' /\ Heard'
  BY <1>1, <1>2, <1>4, <1>6, <1>7 DEF NothingLost, Scheduled, Decoded, Heard
<1> QED
  BY <1>6, <1>8 DEF NothingLost

LEMMA TakeAudioKeeps ==
  ASSUME SafeInv, NothingLost, ~Fault, TakeAudio PROVE NothingLost'
<1>1. pc = "bshm" /\ cur \in AudioSources /\ handle[cur] = "bound"
  BY DEF TakeAudio, At, SafeInv, Places, AudioPlaces, NothingLost, Whole, Closing
<1>2. engine["shm"] # None
  BY <1>1 DEF NothingLost, Heard, AnyAudio
<1>3. /\ pc' = "baddress" /\ UNCHANGED <<alloc, uses, handle, own, cur, todo>>
      /\ res' = [res EXCEPT !["shm"] = engine["shm"]] /\ engine' = [engine EXCEPT !["shm"] = None]
  BY <1>2, NoCallFails DEF TakeAudio, TakeShared
<1>4. FreshKinds' = {"shm"} /\ pc' \in Closing
  BY <1>3 DEF FreshKinds, Closing
<1>5. /\ Whole' /\ Known' /\ Listed'
      /\ \A l \in Shared : engine'[l] = IF l = "shm" THEN None ELSE engine[l]
      /\ AnyVideo' = AnyVideo /\ OtherVideo' = OtherVideo /\ AnyAudio' = AnyAudio
  BY <1>1, <1>3, <1>4, KindsApart, TakeKeeps
<1>6. engine'["dec"] = engine["dec"] /\ engine'["sched"] = engine["sched"] /\ engine'["shm"] = None
  BY <1>5, KindsApart
<1>7. Scheduled' /\ Decoded' /\ Heard'
  BY <1>1, <1>3, <1>5, <1>6 DEF NothingLost, Scheduled, Decoded, Heard
<1> QED
  BY <1>5, <1>7 DEF NothingLost

LEMMA FreedKeeps ==
  ASSUME SafeInv, NothingLost, ~Fault, FreeDecoder \/ FreeScheduler \/ FreeAudio PROVE NothingLost'
<1>1. \E k \in Shared :
        /\ alloc' = alloc \ {res[k]} /\ FreshKinds = {k}
        /\ UNCHANGED <<engine, uses, handle, own, cur, todo>>
        /\ \/ k = "dec" /\ pc = "cdecfree" /\ pc' = "csched"
           \/ k = "sched" /\ pc = "cschedfree" /\ pc' = "cend"
           \/ k = "shm" /\ pc = "bshmfree" /\ pc' = "bparts"
  BY KindsApart DEF FreeDecoder, FreeScheduler, FreeAudio, FreeShared, Free, FreshKinds, At
<1>2. Whole' /\ Listed'
  BY <1>1 DEF NothingLost, Whole, Listed, Working, Absent, Opening, Closing
<1>3. Known'
  BY <1>1 DEF NothingLost, Known
<1>4. AnyVideo' = AnyVideo /\ OtherVideo' = OtherVideo /\ AnyAudio' = AnyAudio
  BY <1>1 DEF AnyVideo, OtherVideo, AnyAudio
<1>5. Scheduled' /\ Decoded' /\ Heard'
  BY <1>1, <1>4 DEF NothingLost, Scheduled, Decoded, Heard
<1> QED
  BY <1>2, <1>3, <1>5 DEF NothingLost

LEMMA CloseEndsKeeps ==
  ASSUME SafeInv, NothingLost, OneAudio, CloseEnds PROVE NothingLost'
<1>1. /\ pc' = "idle" /\ handle' = [handle EXCEPT ![cur] = "none"]
      /\ UNCHANGED <<alloc, engine, uses, own>>
      /\ \/ pc = "cend" /\ cur \in VideoSources /\ cur \notin AudioSources
         \/ pc = "bparts" /\ cur \in AudioSources /\ cur \notin VideoSources
  BY NoneIsNoBlock DEF CloseEnds, Return, SafeInv, Places, VideoPlaces, AudioPlaces
<1>2. cur \in Sources /\ uses[cur] = {}
  BY <1>1 DEF Sources, NothingLost, Whole, Closing
<1>3. \A s \in Sources : handle'[s] = IF s = cur THEN "none" ELSE handle[s]
  BY <1>1, <1>2 DEF SafeInv, Types
<1>4. Whole'
  BY <1>1, <1>2, <1>3 DEF NothingLost, Whole, Working, Absent, Opening, Closing
<1>5. Known'
  BY <1>1 DEF NothingLost, Known, FreshKinds
<1>6. Listed'
  BY <1>1 DEF Listed
<1>7. CASE pc = "cend"
  <2>1. (AnyVideo' <=> OtherVideo) /\ (AnyAudio' <=> AnyAudio)
    BY <1>1, <1>3, <1>7 DEF AnyVideo, OtherVideo, AnyAudio, Sources
  <2>2. Scheduled' /\ Decoded' /\ Heard'
    BY <1>1, <1>7, <2>1 DEF NothingLost, Scheduled, Decoded, Heard
  <2> QED
    BY <1>4, <1>5, <1>6, <2>2 DEF NothingLost
<1>8. CASE pc = "bparts"
  <2>1. AnyVideo' <=> AnyVideo
    BY <1>1, <1>3, <1>8 DEF AnyVideo, Sources
  <2>2. ~AnyAudio'
    BY <1>1, <1>3, <1>8 DEF AnyAudio, Sources, OneAudio
  <2>3. Scheduled' /\ Decoded' /\ Heard'
    BY <1>1, <1>8, <2>1, <2>2 DEF NothingLost, Scheduled, Decoded, Heard
  <2> QED
    BY <1>4, <1>5, <1>6, <2>3 DEF NothingLost
<1> QED
  BY <1>1, <1>7, <1>8

-----------------------------------------------------------------------------
LEMMA KeepsStep ==
  ASSUME SafeInv, NothingLost, OneAudio, LoneShared, Plenty, faults = 0, ~Fault, [Next]_vars
  PROVE  NothingLost'
<1>1. CASE VideoStep
  <2>1. ~AllocFails
    BY EnoughMemory DEF AllocFails
  <2> QED
    BY <1>1, <2>1, BeginKeeps, VideoRequiredKeeps, AllocKeeps, VideoSourceKeeps, VideoSetSchedulerKeeps,
       VideoSetDecoderKeeps, VideoOpenKeeps, VideoSurfaceKeeps, CloseDecoderKeeps, FreePartKeeps,
       CloseGoesOnKeeps, TakeDecoderKeeps, TakeSchedulerKeeps, FreedKeeps, CloseEndsKeeps DEF VideoStep
<1>2. CASE AudioStep
  BY <1>2, BeginKeeps, AudioEngineKeeps, AudioSharedKeeps, AudioSetSharedKeeps, AllocKeeps,
     AudioOpenKeeps, TakeAudioKeeps, FreedKeeps DEF AudioStep
<1>3. ~Crash /\ ~\E s \in Sources : Forget(s)
  BY NoCallFails DEF Crash, Forget
<1>4. CASE UNCHANGED vars
  <2>1. UNCHANGED <<alloc, engine, uses, handle, own, cur, pc, todo, res>>
    BY <1>4 DEF vars
  <2>2. Whole' /\ Listed'
    BY <2>1 DEF NothingLost, Whole, Listed, Working, Absent
  <2>3. Known'
    BY <2>1 DEF NothingLost, Known, FreshKinds
  <2>4. Scheduled' /\ Decoded' /\ Heard'
    BY <2>1 DEF NothingLost, Scheduled, Decoded, Heard, AnyVideo, OtherVideo, AnyAudio, ToGet
  <2> QED
    BY <2>2, <2>3, <2>4 DEF NothingLost
<1>5. ~CrashTorn
  BY DEF CrashTorn
<1> QED
  BY <1>1, <1>2, <1>3, <1>4, <1>5 DEF Next, CallStep

\* A step that fails is counted, and none is forgotten.
LEMMA FaultsCount ==
  ASSUME faults \in Nat, [Next]_vars
  PROVE  /\ faults' \in Nat
         /\ faults' = 0 => faults = 0 /\ ~Fault
<1>1. faults' = faults \/ (Fault /\ faults' = faults + 1)
  <2>1. CallFails => Fault
    BY DEF CallFails
  <2>2. CASE VideoStep
    <3> USE DEF NoFault, NoMemory, Free
    <3>1. CASE \/ \E v \in VideoSources : OpenVideo(v) \/ CloseVideo(v)
               \/ VideoRequired \/ VideoAlloc \/ AllocFails \/ VideoSource
      BY <2>1, <3>1 DEF OpenVideo, CloseVideo, VideoRequired, VideoAlloc, AllocFails, VideoSource, Fault
    <3>2. CASE VideoSetScheduler \/ VideoSetDecoder \/ VideoOpen \/ VideoSurface \/ CloseDecoder
      BY <2>1, <3>2 DEF VideoSetScheduler, VideoSetDecoder, VideoOpen, VideoSurface, CloseDecoder, Fault
    <3>3. CASE FreePart \/ PartsFreed \/ CloseCount \/ ForgetAddress \/ CloseEnds
      BY <2>1, <3>3 DEF FreePart, PartsFreed, CloseCount, ForgetAddress, CloseEnds, Fault
    <3>4. CASE TakeDecoder \/ FreeDecoder \/ TakeScheduler \/ FreeScheduler
      BY <2>1, <3>4 DEF TakeDecoder, FreeDecoder, TakeScheduler, FreeScheduler, TakeShared, FreeShared, Fault
    <3> QED
      BY <2>2, <3>1, <3>2, <3>3, <3>4 DEF VideoStep
  <2>3. CASE AudioStep
    BY <2>1, <2>3 DEF AudioStep, OpenAudio, CloseAudio, AudioEngine, AudioShared, AudioSetShared, AudioAlloc,
       AudioOpen, TakeAudio, FreeAudio, TakeShared, FreeShared, NoFault, NoMemory, Free, Fault
  <2>4. CASE Crash \/ \E s \in Sources : Forget(s)
    BY <2>1, <2>4 DEF Crash, Forget, Fault
  <2>5. CASE UNCHANGED vars
    BY <2>5 DEF vars
  <2>6. CASE CrashTorn
    BY <2>6 DEF CrashTorn, Fault
  <2> QED
    BY <2>2, <2>3, <2>4, <2>5, <2>6 DEF Next, CallStep
<1>2. Fault => faults' = faults + 1
  BY DEF Fault
<1> QED
  BY <1>1, <1>2

LEMMA LeakInit == Init => LeakInv
<1> SUFFICES ASSUME Init PROVE LeakInv
  OBVIOUS
<1>1. SafeInv
  BY InitSafe
<1>2. /\ pc = "idle" /\ alloc = {} /\ faults = 0 /\ \A k \in Shared : engine[k] = None
      /\ \A s \in Sources : Absent(s)
  BY DEF Init, Absent
<1>3. ~AnyVideo /\ ~AnyAudio
  BY <1>2 DEF AnyVideo, AnyAudio, Absent, Sources
<1>4. NothingLost
  <2>1. Whole
    BY <1>2 DEF Whole, Opening, Closing
  <2>2. Known
    BY <1>2 DEF Known
  <2>3. Scheduled /\ Decoded /\ Heard
    BY <1>2, <1>3, KindsApart DEF Scheduled, Decoded, Heard
  <2>4. Listed
    BY <1>2 DEF Listed
  <2> QED
    BY <2>1, <2>2, <2>3, <2>4 DEF NothingLost
<1> QED
  BY <1>1, <1>2, <1>4 DEF LeakInv

LEMMA LeakStep ==
  ASSUME LeakInv, OneAudio, LoneShared, Plenty, [Next]_vars PROVE LeakInv'
<1>1. faults' \in Nat /\ (faults' = 0 => faults = 0 /\ ~Fault)
  BY FaultsCount DEF LeakInv
<1>2. ~Fault => CallStep \/ UNCHANGED vars
  BY DEF Next, CrashTorn
<1>3. faults' = 0 => SafeInv' /\ NothingLost'
  BY <1>1, <1>2, SafeStep, KeepsStep DEF LeakInv
<1> QED
  BY <1>1, <1>3 DEF LeakInv

LEMMA KnownIsNoLeak ==
  ASSUME LeakInv PROVE NoLeak
<1> SUFFICES ASSUME faults = 0, pc = "idle"
             PROVE  /\ alloc = (UNION {OwnBlocks(s) : s \in Sources}) \cup ({engine[k] : k \in Shared} \ {None})
                    /\ SharedWhileUsed
  BY DEF NoLeak
<1>1. NothingLost
  BY DEF LeakInv
<1>2. FreshKinds = {}
  BY DEF FreshKinds
<1> DEFINE ofSources == UNION {OwnBlocks(s) : s \in Sources}
           ofEngines == {engine[k] : k \in Shared} \ {None}
           known == ofSources \cup ofEngines
<1>3. \A b : b \in known <=>
              \/ \E s \in Sources : b \in OwnBlocks(s)
              \/ b # None /\ \E k \in Shared : engine[k] = b
  <2>1. \A b : b \in ofSources <=> \E s \in Sources : b \in OwnBlocks(s)
    BY Zenon
  <2>2. \A b : b \in ofEngines <=> b # None /\ \E k \in Shared : engine[k] = b
    OBVIOUS
  <2> HIDE DEF ofSources, ofEngines
  <2> QED
    BY <2>1, <2>2
<1> HIDE DEF known
<1>4. ASSUME NEW b \in alloc PROVE b \in known
  <2>1. b # None
    BY NoneIsNoBlock DEF LeakInv, SafeInv, Types
  <2>2. ASSUME NEW s \in Sources, NEW p \in Parts, own[s][p] = b PROVE b \in known
    BY <1>3, <2>1, <2>2 DEF OwnBlocks
  <2>3. (\E s \in Sources, p \in Parts : own[s][p] = b) \/ \E k \in Shared : engine[k] = b
    BY <1>1, <1>2 DEF NothingLost, Known
  <2> QED
    BY <1>3, <2>1, <2>2, <2>3
<1>5. ASSUME NEW b \in known PROVE b \in alloc
  <2>1. CASE \E s \in Sources : b \in OwnBlocks(s)
    BY <2>1 DEF OwnBlocks, LeakInv, SafeInv, Kept
  <2>2. CASE b # None /\ \E k \in Shared : engine[k] = b
    BY <2>2 DEF LeakInv, SafeInv, Kept
  <2> QED
    BY <1>3, <2>1, <2>2
<1>6. alloc = known
  BY <1>4, <1>5
<1>7. SharedWhileUsed
  BY <1>1 DEF NothingLost, Scheduled, Heard, AnyVideo, AnyAudio, SharedWhileUsed
<1> QED
  BY <1>6, <1>7, Zenon DEF known

\* As long as nothing fails and memory does not run out, no sequence of opens and closes
\* loses any: between the calls every block belongs to a source or to an engine that has
\* a source.  Provided there is one audio source at most, and a video source whose decoder
\* data size is 0 is the only one: it asks for shared memory whatever the engine has, and
\* SetShared replaces what was there.
THEOREM SourcesLoseNothing ==
  ASSUME \A a, b \in AudioSources : a = b,
         \A v \in NeedsShared, w \in VideoSources : v = w
  PROVE  Spec /\ []Plenty => []NoLeak
<1>1. OneAudio /\ LoneShared
  BY DEF OneAudio, LoneShared
<1>2. LeakInv /\ Plenty /\ [Next]_vars => LeakInv'
  BY <1>1, LeakStep
<1> QED
  BY <1>2, LeakInit, KnownIsNoLeak, PTL DEF Spec

-----------------------------------------------------------------------------
(* The refinement: how the memory looks to MemoryCustody. *)

LEMMA InTransitIs == \A b : b \in InTransit <=> b # None /\ \E k \in FreshKinds : res[k] = b
BY DEF InTransit

LEMMA OwnedIs ==
  \A s \in Sources : \A b : b \in OwnBlocks(s) <=> b # None /\ \E p \in Parts : own[s][p] = b
BY DEF OwnBlocks

LEMMA EngineIs == \A k \in Shared : \A b : b \in EngineBlocks(k) <=> b # None /\ engine[k] = b
BY DEF EngineBlocks

\* The keepers and what they keep.
Members ==
  /\ \A b : b \in InTransit <=> b # None /\ \E k \in FreshKinds : res[k] = b
  /\ \A s \in Sources : \A b : b \in OwnBlocks(s) <=> b # None /\ \E p \in Parts : own[s][p] = b
  /\ \A k \in Shared : \A b : b \in EngineBlocks(k) <=> b # None /\ engine[k] = b

LEMMA MembersKnown == Members
BY InTransitIs, OwnedIs, EngineIs DEF Members

LEMMA MembersNext == Members'
BY MembersKnown, PTL

\* Each block has one keeper, and is given out.
Apart ==
  /\ InTransit \subseteq alloc
  /\ \A s \in Sources : OwnBlocks(s) \subseteq alloc
  /\ \A k \in Shared : EngineBlocks(k) \subseteq alloc
  /\ \A s \in Sources, b \in InTransit : b \notin OwnBlocks(s)
  /\ \A k \in Shared, b \in InTransit : b \notin EngineBlocks(k)
  /\ \A k \in Shared, s \in Sources : \A b \in OwnBlocks(s) : b \notin EngineBlocks(k)
  /\ \A s, t \in Sources : \A b \in OwnBlocks(s) : b \in OwnBlocks(t) => s = t
  /\ \A k, l \in Shared : \A b \in EngineBlocks(k) : b \in EngineBlocks(l) => k = l

LEMMA SafeApart == SafeInv => Apart
<1> SUFFICES ASSUME SafeInv PROVE Apart
  OBVIOUS
<1>1. InHand /\ Kept /\ Members
  BY MembersKnown DEF SafeInv
<1>2. \A b \in InTransit : Fresh(b)
  BY <1>1 DEF InHand, Members
<1>3. /\ InTransit \subseteq alloc
      /\ \A s \in Sources, b \in InTransit : b \notin OwnBlocks(s)
      /\ \A k \in Shared, b \in InTransit : b \notin EngineBlocks(k)
  BY <1>1, <1>2 DEF Fresh, Members
<1>4. /\ \A s \in Sources : OwnBlocks(s) \subseteq alloc
      /\ \A k \in Shared : EngineBlocks(k) \subseteq alloc
      /\ \A k \in Shared, s \in Sources : \A b \in OwnBlocks(s) : b \notin EngineBlocks(k)
      /\ \A s, t \in Sources : \A b \in OwnBlocks(s) : b \in OwnBlocks(t) => s = t
      /\ \A k, l \in Shared : \A b \in EngineBlocks(k) : b \in EngineBlocks(l) => k = l
  BY <1>1 DEF Kept, Members
<1> QED
  BY <1>3, <1>4 DEF Apart

LEMMA ApartNext == SafeInv' => Apart'
BY SafeApart, PTL

LEMMA ByEngines == \A b : b \in Custody!KeptByEngines <=> \E k \in Shared : b \in EngineBlocks(k)
BY DEF Custody!KeptByEngines

LEMMA BySources == \A b : b \in Custody!KeptBySources <=> \E s \in Sources : b \in OwnBlocks(s)
BY DEF Custody!KeptBySources

LEMMA ByDecoders == \A b : b \in Custody!WorkedWith <=> \E s \in Sources : b \in uses[s]
BY DEF Custody!WorkedWith

LEMMA ApartIsOneKeeper == Apart => Custody!OneKeeper
<1> SUFFICES ASSUME Apart PROVE Custody!OneKeeper
  OBVIOUS
<1>1. \A b \in InTransit : b \notin Custody!KeptByEngines /\ b \notin Custody!KeptBySources
  BY ByEngines, BySources DEF Apart
<1>2. \A b \in Custody!KeptByEngines : b \notin Custody!KeptBySources
  BY ByEngines, BySources DEF Apart
<1>3. \A s, t \in Sources : s # t => OwnBlocks(s) \cap OwnBlocks(t) = {}
  BY DEF Apart
<1>4. \A k, l \in Shared : k # l => EngineBlocks(k) \cap EngineBlocks(l) = {}
  BY DEF Apart
<1> QED
  BY <1>1, <1>2, <1>3, <1>4 DEF Custody!OneKeeper

LEMMA OneKeeperNext == SafeInv' => (Custody!OneKeeper)'
<1>1. SafeInv => Custody!OneKeeper
  BY SafeApart, ApartIsOneKeeper
<1> QED
  BY <1>1, PTL

\* Blocks are handed on if no source and no engine gets one but from the call.
LEMMA HandedOn ==
  ASSUME SafeInv, SafeInv', alloc' = alloc,
         \A b \in InTransit' : b \in InTransit \/ \E k \in Shared : b \in EngineBlocks(k),
         \A s \in Sources : \A b \in OwnBlocks(s)' : b \in OwnBlocks(s) \/ b \in InTransit,
         \A k \in Shared : \A b \in EngineBlocks(k)' : b \in EngineBlocks(k) \/ b \in InTransit
  PROVE  Custody!Passed
<1>1. InTransit' \in SUBSET (InTransit \cup Custody!KeptByEngines)
  BY ByEngines
<1>2. Apart'
  BY ApartNext
<1>3. /\ [s \in Sources |-> OwnBlocks(s)]' \in [Sources -> SUBSET alloc]
      /\ [k \in Shared |-> EngineBlocks(k)]' \in [Shared -> SUBSET alloc]
  BY <1>2 DEF Apart
<1>4. \A s \in Sources : OwnBlocks(s)' \subseteq OwnBlocks(s) \cup InTransit
  OBVIOUS
<1>5. \A k \in Shared : EngineBlocks(k)' \subseteq EngineBlocks(k) \cup InTransit
  OBVIOUS
<1>6. (Custody!OneKeeper)'
  BY OneKeeperNext
<1> QED
  BY <1>1, <1>3, <1>4, <1>5, <1>6 DEF Custody!Passed

\* Some may be lost, and nothing else happens.
LEMMA Quiet ==
  ASSUME SafeInv, SafeInv', alloc' = alloc, uses' = uses, engine' = engine,
         \A s \in Sources, p \in Parts : own'[s][p] = own[s][p] \/ own'[s][p] = None,
         \/ FreshKinds' \subseteq FreshKinds /\ \A k \in FreshKinds' : res'[k] = res[k] \/ res'[k] = None
         \/ res' = Nothing
  PROVE  Custody!Pass
<1>1. Members /\ Members'
  BY MembersKnown, MembersNext
<1>2. FreshKinds' \subseteq Kinds
  BY Kindly DEF FreshKinds
<1>3. \A k \in Kinds : Nothing[k] = None
  BY NothingIsNone
<1>4. \A b \in InTransit' : b \in InTransit
  BY <1>1, <1>2, <1>3 DEF Members
<1>5. \A s \in Sources : \A b \in OwnBlocks(s)' : b \in OwnBlocks(s)
  BY <1>1 DEF Members
<1>6. \A k \in Shared : \A b \in EngineBlocks(k)' : b \in EngineBlocks(k)
  BY <1>1 DEF Members
<1>7. Custody!Passed
  BY <1>4, <1>5, <1>6, HandedOn
<1> QED
  BY <1>7 DEF Custody!Pass

\* What a call has to ask for: it has not got it yet.
Asking ==
  /\ pc \in {"valloc", "amem"} => ListOf(todo) /\ \A i \in 1..Len(todo) : res[todo[i]] = None
  /\ pc = "amem" => \A i \in 1..Len(todo) : todo[i] \in Parts
  /\ pc \in {"ashm", "asetshm"} => todo = Private
  /\ pc = "asetshm" => \A p \in Parts : res[p] = None

Asks == {"valloc", "ashm", "asetshm", "amem"}

LEMMA NewListAsked ==
  ASSUME res = Nothing, res' = res
  PROVE  /\ pc' = "valloc" /\ todo' = Needed => Asking'
         /\ pc' \in {"ashm", "amem"} /\ todo' = Private => Asking'
<1>1. /\ \A i \in 1..Len(Needed) : Nothing[Needed[i]] = None
      /\ \A i \in 1..Len(Private) : Nothing[Private[i]] = None
  BY NothingIsNone, NeededListed, PrivateListed DEF ListOf
<1>2. pc' = "valloc" /\ todo' = Needed => Asking'
  BY <1>1, NeededListed DEF Asking, ListOf
<1>3. pc' \in {"ashm", "amem"} /\ todo' = Private => Asking'
  BY <1>1, PrivateListed DEF Asking, ListOf
<1> QED
  BY <1>2, <1>3

\* The first of the list is got.
LEMMA FirstAsked ==
  ASSUME SafeInv, Asking, pc \in {"valloc", "amem"}, NEW b,
         res' = [res EXCEPT ![Head(todo)] = b], todo' = Tail(todo),
         pc' \in {pc, "vsource", "aopen"}, pc' = pc => Len(todo) # 1
  PROVE  /\ Asking' /\ Head(todo) \in Kinds /\ res[Head(todo)] = None
         /\ pc = "amem" => Head(todo) \in Parts
         /\ \A k \in Kinds : res'[k] = IF k = Head(todo) THEN b ELSE res[k]
<1> DEFINE k == Head(todo)
<1>1. /\ ListOf(todo) /\ \A i \in 1..Len(todo) : res[todo[i]] = None
      /\ pc = "amem" => \A i \in 1..Len(todo) : todo[i] \in Parts
  BY DEF Asking
<1>2. /\ Len(todo) \in Nat \ {0} /\ todo[1] = k /\ k \in Kinds
      /\ Len(Tail(todo)) = Len(todo) - 1 /\ Tail(todo) \in Seq(Kinds)
      /\ \A i \in 1..Len(Tail(todo)) : Tail(todo)[i] = todo[i + 1] /\ i + 1 \in 1..Len(todo)
  BY <1>1 DEF ListOf
<1>3. 1 \in 1..Len(todo)
  BY <1>2
<1> HIDE DEF k
<1>4. res \in [Kinds -> Blocks \cup {None}] /\ res' = [res EXCEPT ![k] = b]
  BY DEF SafeInv, Types, k
<1>5. \A l \in Kinds : res'[l] = IF l = k THEN b ELSE res[l]
  BY <1>2, <1>4
<1>6. \A i \in 1..Len(Tail(todo)) : Tail(todo)[i] # k /\ Tail(todo)[i] \in Kinds
  <2>1. \A i \in 1..Len(Tail(todo)) : i + 1 # 1
    BY <1>2
  <2>2. \A i \in 1..Len(todo) : todo[i] \in Kinds
    BY <1>1 DEF ListOf
  <2> QED
    BY <1>1, <1>2, <1>3, <2>1, <2>2 DEF ListOf
<1>7. \A i \in 1..Len(Tail(todo)) : res'[Tail(todo)[i]] = None
  BY <1>1, <1>2, <1>5, <1>6
<1>8. ASSUME pc' = pc PROVE ListOf(Tail(todo))
  <2>1. Tail(todo) # <<>>
    <3>1. Len(todo) # 1
      BY <1>8
    <3>2. Len(Tail(todo)) # 0
      BY <1>2, <3>1
    <3>3. Len(<<>>) = 0
      OBVIOUS
    <3> QED
      BY <3>2, <3>3, Zenon
  <2>2. ASSUME NEW i \in 1..Len(Tail(todo)), NEW j \in 1..Len(Tail(todo)), Tail(todo)[i] = Tail(todo)[j]
        PROVE  i = j
    <3>1. i + 1 = j + 1
      BY <1>1, <1>2, <2>2 DEF ListOf
    <3> QED
      BY <3>1
  <2> QED
    BY <1>2, <2>1, <2>2 DEF ListOf
<1>9. pc = "amem" => \A i \in 1..Len(Tail(todo)) : Tail(todo)[i] \in Parts
  BY <1>1, <1>2
<1>10. Asking'
  BY <1>7, <1>8, <1>9 DEF Asking
<1> QED
  BY <1>1, <1>2, <1>3, <1>5, <1>10 DEF k

LEMMA AskingStep ==
  ASSUME SafeInv, Asking, CallStep \/ UNCHANGED vars PROVE Asking'
<1>1. CASE pc' \notin Asks
  BY <1>1 DEF Asking, Asks
<1>2. CASE VideoRequired /\ ~CallFails
  <2>1. pc = "vrequired" /\ pc' = "valloc" /\ todo' = Needed /\ res' = res
    BY <1>2 DEF VideoRequired, At
  <2>2. res = Nothing
    BY <2>1 DEF SafeInv, Places
  <2> QED
    BY <2>1, <2>2, NewListAsked
<1>3. CASE AudioEngine /\ ~CallFails
  <2>1. pc = "aengine" /\ pc' \in {"ashm", "amem"} /\ todo' = Private /\ res' = res
    BY <1>3 DEF AudioEngine, At
  <2>2. res = Nothing
    BY <2>1 DEF SafeInv, Places
  <2> QED
    BY <2>1, <2>2, NewListAsked
<1>4. CASE VideoAlloc \/ AudioAlloc
  <2>1. PICK b \in Blocks : res' = [res EXCEPT ![Head(todo)] = b]
    BY <1>4 DEF VideoAlloc, AudioAlloc
  <2>2. /\ pc \in {"valloc", "amem"} /\ todo' = Tail(todo)
        /\ pc' \in {pc, "vsource", "aopen"} /\ (pc' = pc => Len(todo) # 1)
    BY <1>4 DEF VideoAlloc, AudioAlloc, At
  <2> QED
    BY <2>1, <2>2, FirstAsked
<1>5. CASE AudioShared
  <2>1. /\ pc = "ashm" /\ pc' = "asetshm" /\ todo' = todo
        /\ (\E b \in Blocks : res' = [res EXCEPT !["shm"] = b]) \/ res' = res
    BY <1>5 DEF AudioShared, At
  <2>2. res = Nothing /\ todo = Private
    BY <2>1 DEF SafeInv, Places, Asking
  <2>3. \A p \in Parts : res'[p] = None
    <3>1. \A p \in Parts : p \in Kinds /\ p # "shm"
      BY KindsApart
    <3>2. res \in [Kinds -> Blocks \cup {None}] /\ \A p \in Parts : res[p] = None
      BY <2>2, <3>1, NothingIsNone DEF SafeInv, Types
    <3> QED
      BY <2>1, <3>1, <3>2
  <2> QED
    BY <2>1, <2>2, <2>3 DEF Asking
<1>6. CASE AudioSetShared /\ ~CallFails
  <2>1. pc = "asetshm" /\ pc' = "amem" /\ todo' = todo /\ res' = res
    BY <1>6 DEF AudioSetShared, Goto, At
  <2>2. todo = Private /\ \A p \in Parts : res[p] = None
    BY <2>1 DEF Asking
  <2> QED
    BY <2>1, <2>2, PrivateListed DEF Asking
<1>7. CASE UNCHANGED vars
  BY <1>7 DEF vars, Asking
<1>8. CASE CallFails \/ AllocFails
  <2>1. pc' = "idle"
    BY <1>8 DEF CallFails, AllocFails, Return
  <2> QED
    BY <2>1 DEF Asking
<1>9. CASE \/ \E v \in VideoSources : OpenVideo(v) \/ CloseVideo(v)
           \/ \E a \in AudioSources : OpenAudio(a) \/ CloseAudio(a)
           \/ VideoSource \/ VideoSetScheduler \/ VideoSetDecoder \/ VideoOpen \/ VideoSurface
           \/ CloseDecoder \/ PartsFreed \/ CloseCount \/ CloseEnds \/ AudioOpen
  BY <1>1, <1>9 DEF Asks, OpenVideo, CloseVideo, OpenAudio, CloseAudio, VideoSource,
     VideoSetScheduler, VideoSetDecoder, VideoOpen, VideoSurface, CloseDecoder, PartsFreed,
     CloseCount, CloseEnds, AudioOpen, CallFails, Return, Goto
<1>10. CASE FreePart \/ TakeDecoder \/ FreeDecoder \/ TakeScheduler \/ ForgetAddress \/ FreeScheduler
            \/ TakeAudio \/ FreeAudio
  BY <1>1, <1>10 DEF Asks, FreePart, TakeDecoder, FreeDecoder, TakeScheduler, ForgetAddress,
     FreeScheduler, TakeAudio, FreeAudio, TakeShared, FreeShared, CallFails, Return, Goto
<1>11. CASE Crash
  BY <1>8, <1>11 DEF Crash
<1>12. CASE \E s \in Sources : Forget(s)
  BY <1>1, <1>12 DEF Asks, Forget, At
<1>13. CASE VideoStep
  BY <1>2, <1>4, <1>8, <1>9, <1>10, <1>13 DEF VideoStep
<1>14. CASE AudioStep
  BY <1>3, <1>4, <1>5, <1>6, <1>8, <1>9, <1>10, <1>14 DEF AudioStep
<1> QED
  BY <1>7, <1>11, <1>12, <1>13, <1>14 DEF CallStep

-----------------------------------------------------------------------------
(* The steps, as steps of MemoryCustody. *)

LEMMA ReturnQuiet ==
  ASSUME SafeInv, SafeInv', Return, UNCHANGED <<alloc, engine, uses, own>>
  PROVE  Custody!Pass
<1>1. res' = Nothing /\ alloc' = alloc /\ engine' = engine /\ uses' = uses /\ own' = own
  BY DEF Return
<1> QED
  BY <1>1, Quiet

LEMMA FailsQuiet ==
  ASSUME SafeInv, SafeInv', CallFails PROVE Custody!Pass
BY ReturnQuiet DEF CallFails

\* The steps of a call between those that move memory.
LEMMA GoesOnQuiet ==
  ASSUME SafeInv, SafeInv', alloc' = alloc, engine' = engine, uses' = uses, own' = own, res' = res,
         \/ FreshKinds' \subseteq FreshKinds
         \/ res = Nothing
  PROVE  Custody!Pass
BY Quiet

LEMMA BeginPasses ==
  ASSUME SafeInv, SafeInv',
         \/ \E v \in VideoSources : OpenVideo(v) \/ CloseVideo(v)
         \/ \E a \in AudioSources : OpenAudio(a) \/ CloseAudio(a)
         \/ VideoRequired \/ AudioEngine
  PROVE  Custody!Pass
<1>1. CASE CallFails
  BY <1>1, FailsQuiet
<1>2. CASE ~CallFails
  <2>1. /\ pc \in {"idle", "vrequired", "aengine"}
        /\ alloc' = alloc /\ engine' = engine /\ uses' = uses /\ own' = own /\ res' = res
    BY <1>2 DEF OpenVideo, CloseVideo, OpenAudio, CloseAudio, VideoRequired, AudioEngine, At
  <2>2. res = Nothing
    BY <2>1 DEF SafeInv, Places
  <2> QED
    BY <2>1, <2>2, GoesOnQuiet
<1> QED
  BY <1>1, <1>2

LEMMA SourcePasses ==
  ASSUME SafeInv, SafeInv', VideoSource PROVE Custody!Pass
<1>1. CASE Return /\ UNCHANGED <<handle, own>>
  BY <1>1, ReturnQuiet DEF VideoSource
<1>2. CASE own' = [own EXCEPT ![cur] = NoParts]
  <2>1. own \in [Sources -> [Parts -> Blocks \cup {None}]]
    BY DEF SafeInv, Types
  <2>2. \A s \in Sources, p \in Parts : own'[s][p] = own[s][p] \/ own'[s][p] = None
    BY <1>2, <2>1 DEF NoParts
  <2>3. alloc' = alloc /\ engine' = engine /\ uses' = uses
    BY DEF VideoSource
  <2>4. res' = Nothing \/ (FreshKinds' = FreshKinds /\ res' = res)
    BY DEF VideoSource, Return, Goto, At, FreshKinds, Kinds, Parts
  <2> QED
    BY <2>2, <2>3, <2>4, Quiet
<1> QED
  BY <1>1, <1>2 DEF VideoSource

LEMMA SurfacePasses ==
  ASSUME SafeInv, SafeInv', VideoSurface \/ PartsFreed \/ CloseCount \/ ForgetAddress \/ CloseEnds
  PROVE  Custody!Pass
<1>1. CASE CallFails
  BY <1>1, FailsQuiet
<1>2. CASE Return /\ UNCHANGED <<alloc, engine, uses, own>>
  BY <1>2, ReturnQuiet
<1>3. CASE ~CallFails /\ ~(Return /\ UNCHANGED <<alloc, engine, uses, own>>)
  <2>1. /\ alloc' = alloc /\ engine' = engine /\ uses' = uses /\ own' = own /\ res' = res
        /\ \/ pc = "cparts" /\ pc' \in {"ccount", "cend"}
           \/ pc = "ccount" /\ pc' \in {"cdec", "cend"}
           \/ pc = "caddress" /\ pc' = "cschedfree"
           \/ pc = "baddress" /\ pc' = "bshmfree"
    BY <1>3 DEF VideoSurface, PartsFreed, CloseCount, ForgetAddress, CloseEnds, Goto, At
  <2>2. FreshKinds' \subseteq FreshKinds
    BY <2>1 DEF FreshKinds
  <2> QED
    BY <2>1, <2>2, GoesOnQuiet
<1> QED
  BY <1>1, <1>2, <1>3

LEMMA ForgetPasses ==
  ASSUME SafeInv, SafeInv', NEW s \in Sources, Forget(s) PROVE Custody!Pass
<1>1. /\ own' = [own EXCEPT ![s] = NoParts] /\ alloc' = alloc /\ engine' = engine /\ uses' = uses
      /\ pc' = pc /\ res' = res
  BY DEF Forget
<1>2. own \in [Sources -> [Parts -> Blocks \cup {None}]]
  BY DEF SafeInv, Types
<1>3. \A t \in Sources, p \in Parts : own'[t][p] = own[t][p] \/ own'[t][p] = None
  BY <1>1, <1>2 DEF NoParts
<1>4. FreshKinds' = FreshKinds
  BY <1>1 DEF FreshKinds
<1> QED
  BY <1>1, <1>3, <1>4, Quiet

\* A block that is got is in hand.
LEMMA GotInHand ==
  ASSUME SafeInv, NEW b \in Blocks, Malloc(b), NEW k \in FreshKinds', engine' = engine, uses' = uses,
         own' = own, \A l \in FreshKinds' : res'[l] = IF l = k THEN b ELSE res[l],
         res[k] = None, FreshKinds' = FreshKinds \/ res = Nothing
  PROVE  Custody!Get(b)
<1>1. Members /\ Members'
  BY MembersKnown, MembersNext
<1>2. b # None /\ b \notin alloc /\ alloc' = alloc \cup {b}
  BY NoneIsNoBlock DEF Malloc
<1>3. \A l \in FreshKinds : l \in Kinds
  BY Kindly
<1>4. \A l \in FreshKinds' : l \in Kinds
  BY Kindly DEF FreshKinds
<1>5. \A l \in Kinds : Nothing[l] = None
  BY NothingIsNone
<1>6. \A c : c \in InTransit' <=> c = b \/ c \in InTransit
  <2>1. CASE FreshKinds' = FreshKinds
    BY <1>1, <1>2, <2>1 DEF Members
  <2>2. CASE res = Nothing
    BY <1>1, <1>2, <1>3, <1>4, <1>5, <2>2 DEF Members
  <2> QED
    BY <2>1, <2>2
<1>7. InTransit' = InTransit \cup {b}
  BY <1>6
<1>8. /\ [s \in Sources |-> OwnBlocks(s)]' = [s \in Sources |-> OwnBlocks(s)]
      /\ [l \in Shared |-> EngineBlocks(l)]' = [l \in Shared |-> EngineBlocks(l)]
  BY DEF OwnBlocks, EngineBlocks
<1> QED
  BY <1>2, <1>7, <1>8 DEF Custody!Get

LEMMA AllocGets ==
  ASSUME SafeInv, SafeInv', Asking, VideoAlloc \/ AudioAlloc \/ AudioShared
  PROVE  Custody!Move
<1>1. CASE VideoAlloc \/ AudioAlloc
  <2>1. PICK b \in Blocks : Malloc(b) /\ res' = [res EXCEPT ![Head(todo)] = b]
    BY <1>1 DEF VideoAlloc, AudioAlloc
  <2>2. /\ engine' = engine /\ uses' = uses /\ own' = own /\ todo' = Tail(todo)
        /\ \/ pc = "valloc" /\ pc' = IF Len(todo) = 1 THEN "vsource" ELSE "valloc"
           \/ pc = "amem" /\ pc' = IF Len(todo) = 1 THEN "aopen" ELSE "amem"
    BY <1>1 DEF VideoAlloc, AudioAlloc, At
  <2>3. /\ Head(todo) \in Kinds /\ res[Head(todo)] = None
        /\ pc = "amem" => Head(todo) \in Parts
        /\ \A l \in Kinds : res'[l] = IF l = Head(todo) THEN b ELSE res[l]
    BY <2>1, <2>2, FirstAsked
  <2>4. FreshKinds' = FreshKinds /\ Head(todo) \in FreshKinds' /\ FreshKinds \subseteq Kinds
    <3>1. CASE pc = "valloc"
      BY <2>2, <2>3, <3>1 DEF FreshKinds, Kinds, Parts
    <3>2. CASE pc = "amem"
      BY <2>2, <2>3, <3>2, Kindly DEF FreshKinds, Parts
    <3> QED
      BY <2>2, <3>1, <3>2
  <2>5. Custody!Get(b)
    BY <2>1, <2>2, <2>3, <2>4, GotInHand
  <2> QED
    BY <2>5 DEF Custody!Move
<1>2. CASE AudioShared
  <2>1. /\ pc = "ashm" /\ pc' = "asetshm" /\ engine' = engine /\ uses' = uses /\ own' = own
        /\ \/ \E b \in Blocks : Malloc(b) /\ res' = [res EXCEPT !["shm"] = b]
           \/ alloc' = alloc /\ res' = res
    BY <1>2 DEF AudioShared, At
  <2>2. res = Nothing /\ res \in [Kinds -> Blocks \cup {None}]
    BY <2>1 DEF SafeInv, Places, Types
  <2>3. CASE alloc' = alloc /\ res' = res
    <3>1. Custody!Pass
      BY <2>1, <2>2, <2>3, GoesOnQuiet
    <3> QED
      BY <3>1 DEF Custody!Move
  <2>4. CASE \E b \in Blocks : Malloc(b) /\ res' = [res EXCEPT !["shm"] = b]
    <3>1. PICK b \in Blocks : Malloc(b) /\ res' = [res EXCEPT !["shm"] = b]
      BY <2>4
    <3>2. FreshKinds' = Kinds /\ "shm" \in Kinds
      BY <2>1, Kindly DEF FreshKinds, Kinds, Parts
    <3>3. \A l \in Kinds : res'[l] = IF l = "shm" THEN b ELSE res[l]
      BY <2>2, <3>1
    <3>4. res["shm"] = None
      BY <2>2, <3>2, NothingIsNone
    <3>5. Custody!Get(b)
      BY <2>1, <2>2, <3>1, <3>2, <3>3, <3>4, GotInHand
    <3> QED
      BY <3>5 DEF Custody!Move
  <2> QED
    BY <2>1, <2>3, <2>4
<1> QED
  BY <1>1, <1>2

\* An engine, and maybe the source, takes over what the call has for it.
LEMMA HandsOver ==
  ASSUME SafeInv, SafeInv', alloc' = alloc, res' = res, FreshKinds' \subseteq FreshKinds,
         NEW k \in Shared, k \in FreshKinds, EngineGets(k),
         \A s \in Sources, p \in Parts :
           own'[s][p] = own[s][p] \/ (p \in FreshKinds /\ own'[s][p] = res[p])
  PROVE  Custody!Passed
<1>1. Members /\ Members'
  BY MembersKnown, MembersNext
<1>2. engine \in [Shared -> Blocks \cup {None}]
  BY DEF SafeInv, Types
<1>3. \A l \in Shared : engine'[l] = engine[l] \/ (l = k /\ engine'[l] = res[k])
  BY <1>2 DEF EngineGets
<1>4. \A b \in InTransit' : b \in InTransit
  BY <1>1 DEF Members
<1>5. \A s \in Sources : \A b \in OwnBlocks(s)' : b \in OwnBlocks(s) \/ b \in InTransit
  BY <1>1 DEF Members
<1>6. \A l \in Shared : \A b \in EngineBlocks(l)' : b \in EngineBlocks(l) \/ b \in InTransit
  BY <1>1, <1>3 DEF Members
<1> QED
  BY <1>4, <1>5, <1>6, HandedOn

LEMMA EnginePasses ==
  ASSUME SafeInv, SafeInv', VideoSetScheduler \/ AudioSetShared \/ VideoSetDecoder
  PROVE  Custody!Pass
<1>1. CASE CallFails
  BY <1>1, FailsQuiet
<1>2. CASE VideoSetScheduler /\ ~CallFails
  <2>1. /\ pc = "vsched" /\ pc' = "vdec" /\ EngineGets("sched")
        /\ alloc' = alloc /\ uses' = uses /\ own' = own /\ res' = res
    BY <1>2 DEF VideoSetScheduler, SetShared, EngineGets, Goto, At
  <2>2. FreshKinds' \subseteq FreshKinds /\ "sched" \in Shared /\ "sched" \in FreshKinds
    BY <2>1, Kindly DEF FreshKinds, Kinds, Parts
  <2>3. Custody!Passed
    BY <2>1, <2>2, HandsOver
  <2> QED
    BY <2>1, <2>3 DEF Custody!Pass
<1>3. CASE AudioSetShared /\ ~CallFails
  <2>1. /\ pc = "asetshm" /\ pc' = "amem" /\ EngineGets("shm")
        /\ alloc' = alloc /\ uses' = uses /\ own' = own /\ res' = res
    BY <1>3 DEF AudioSetShared, EngineGets, Goto, At
  <2>2. FreshKinds' \subseteq FreshKinds /\ "shm" \in Shared /\ "shm" \in FreshKinds
    BY <2>1, Kindly DEF FreshKinds, Kinds, Parts
  <2>3. Custody!Passed
    BY <2>1, <2>2, HandsOver
  <2> QED
    BY <2>1, <2>3 DEF Custody!Pass
<1>4. CASE VideoSetDecoder /\ ~CallFails
  <2>1. /\ pc = "vdec" /\ pc' = "vopen" /\ EngineGets("dec")
        /\ own' = [own EXCEPT ![cur] = [p \in Parts |-> res[p]]]
        /\ alloc' = alloc /\ uses' = uses /\ res' = res
    BY <1>4 DEF VideoSetDecoder, SetShared, EngineGets, Goto, At
  <2>2. FreshKinds' = {} /\ "dec" \in Shared /\ "dec" \in FreshKinds /\ Parts \subseteq FreshKinds
    BY <2>1, Kindly DEF FreshKinds, Kinds
  <2>3. cur \in Sources
    BY <2>1 DEF SafeInv, Places, VideoPlaces, Sources
  <2>4. \A t \in Sources, p \in Parts : own'[t][p] = IF t = cur THEN res[p] ELSE own[t][p]
    BY <2>1, <2>2, <2>3, PartsTaken
  <2>5. Custody!Passed
    BY <2>1, <2>2, <2>4, HandsOver
  <2> QED
    BY <2>1, <2>5 DEF Custody!Pass
<1> QED
  BY <1>1, <1>2, <1>3, <1>4

\* The decoder's memory is its source's or its engines'.
LEMMA DecoderStarts ==
  ASSUME Custody!Passed, NEW s \in Sources, uses[s] = {}, NEW mine, uses' = [uses EXCEPT ![s] = mine],
         \A b \in mine : b \in OwnBlocks(s)' \/ \E k \in Serving(s) : b \in EngineBlocks(k)'
  PROVE  Custody!Move
<1> DEFINE has == [t \in Sources |-> OwnBlocks(t)]
           common == [k \in Shared |-> EngineBlocks(k)]
           serves == [t \in Sources |-> Serving(t)]
<1>1. has'[s] = OwnBlocks(s)'
  OBVIOUS
<1>2. serves[s] = Serving(s) /\ Serving(s) \subseteq Shared
  BY Kindly DEF Serving
<1>3. \A k \in Serving(s) : common'[k] = EngineBlocks(k)'
  BY <1>2
<1> HIDE DEF has, common, serves
<1>4. \A b \in mine : b \in has'[s] \/ \E k \in serves[s] : b \in common'[k]
  BY <1>1, <1>2, <1>3
<1>5. mine \in SUBSET (has'[s] \cup UNION {common'[k] : k \in serves[s]})
  BY <1>4
<1>6. Custody!Start(s)
  BY <1>5 DEF Custody!Start, has, common, serves
<1> QED
  BY <1>6 DEF Custody!Move

LEMMA VideoOpenPasses ==
  ASSUME SafeInv, SafeInv', VideoOpen PROVE Custody!Move
<1>1. CASE CallFails \/ (Return /\ UNCHANGED <<alloc, engine, uses, handle, own>>)
  <2>1. Custody!Pass
    BY <1>1, FailsQuiet, ReturnQuiet
  <2> QED
    BY <2>1 DEF Custody!Move
<1>2. CASE /\ pc = "vopen" /\ pc' = "vsurface" /\ ~Open(cur)
           /\ uses' = [uses EXCEPT ![cur] =
                         OwnBlocks(cur) \cup ({engine["sched"], engine["dec"]} \ {None})]
           /\ alloc' = alloc /\ engine' = engine /\ own' = own /\ res' = res
  <2>1. cur \in Sources /\ cur \in VideoSources
    BY <1>2 DEF SafeInv, Places, VideoPlaces, Sources
  <2>2. PICK s \in Sources : s = cur
    BY <2>1
  <2>3. PICK mine : mine = OwnBlocks(s) \cup ({engine["sched"], engine["dec"]} \ {None})
    OBVIOUS
  <2>4. /\ \A t \in Sources : OwnBlocks(t)' = OwnBlocks(t)
        /\ \A k \in Shared : EngineBlocks(k)' = EngineBlocks(k)
    BY <1>2 DEF OwnBlocks, EngineBlocks
  <2>5. Serving(s) = {"sched", "dec"} /\ Serving(s) \subseteq Shared
    BY <2>1, <2>2, Kindly DEF Serving
  <2>6. \A b \in mine : b \in OwnBlocks(s) \/ \E k \in Serving(s) : b \in EngineBlocks(k)
    BY <2>3, <2>5, MembersKnown DEF Members
  <2>7. \A b \in mine : b \in OwnBlocks(s)' \/ \E k \in Serving(s) : b \in EngineBlocks(k)'
    BY <2>4, <2>5, <2>6
  <2>8. FreshKinds' = {}
    BY <1>2 DEF FreshKinds
  <2>9. InTransit' = {}
    BY <2>8 DEF InTransit
  <2>10. Custody!Passed
    BY <1>2, <2>4, <2>9, HandedOn
  <2>11. uses[s] = {} /\ uses' = [uses EXCEPT ![s] = mine]
    BY <1>2, <2>2, <2>3 DEF Open
  <2> QED
    BY <2>7, <2>10, <2>11, DecoderStarts
<1> QED
  BY <1>1, <1>2 DEF VideoOpen, Goto, At

LEMMA AudioOpenPasses ==
  ASSUME SafeInv, SafeInv', AudioOpen PROVE Custody!Move
<1>1. CASE CallFails \/ (Return /\ UNCHANGED <<alloc, engine, uses, handle, own>>)
  <2>1. Custody!Pass
    BY <1>1, FailsQuiet, ReturnQuiet
  <2> QED
    BY <2>1 DEF Custody!Move
<1>2. CASE /\ pc = "aopen" /\ Return /\ ~Open(cur)
           /\ own' = [own EXCEPT ![cur] = [p \in Parts |-> res[p]]]
           /\ uses' = [uses EXCEPT ![cur] = ({res[p] : p \in Parts} \cup {engine["shm"]}) \ {None}]
           /\ alloc' = alloc /\ engine' = engine
  <2>1. cur \in Sources /\ cur \notin VideoSources /\ FreshKinds = Parts
    BY <1>2, NoneIsNoBlock DEF SafeInv, Places, AudioPlaces, Sources, FreshKinds
  <2>2. PICK s \in Sources : s = cur
    BY <2>1
  <2>3. PICK mine : mine = ({res[p] : p \in Parts} \cup {engine["shm"]}) \ {None}
    OBVIOUS
  <2>4. \A t \in Sources, p \in Parts : own'[t][p] = IF t = s THEN res[p] ELSE own[t][p]
    BY <1>2, <2>1, <2>2, PartsTaken
  <2>5. Members /\ Members'
    BY MembersKnown, MembersNext
  <2>6. Serving(s) = {"shm"} /\ "shm" \in Shared
    BY <2>1, <2>2, Kindly DEF Serving
  <2>7. \A b \in mine : b # None /\ (b = engine["shm"] \/ \E p \in Parts : b = res[p])
    BY <2>3
  <2>8. \A b \in mine : b \in OwnBlocks(s)' \/ \E k \in Serving(s) : b \in EngineBlocks(k)'
    BY <1>2, <2>4, <2>5, <2>6, <2>7 DEF Members
  <2>9. pc' = "idle"
    BY <1>2 DEF Return
  <2>10. InTransit' = {}
    BY <2>9 DEF InTransit, FreshKinds
  <2>11. \A t \in Sources : \A b \in OwnBlocks(t)' : b \in OwnBlocks(t) \/ b \in InTransit
    BY <2>1, <2>4, <2>5 DEF Members
  <2>12. \A k \in Shared : EngineBlocks(k)' = EngineBlocks(k)
    BY <1>2 DEF EngineBlocks
  <2>13. Custody!Passed
    BY <1>2, <2>10, <2>11, <2>12, HandedOn
  <2>14. uses[s] = {} /\ uses' = [uses EXCEPT ![s] = mine]
    BY <1>2, <2>2, <2>3 DEF Open
  <2> QED
    BY <2>8, <2>13, <2>14, DecoderStarts
<1> QED
  BY <1>1, <1>2 DEF AudioOpen, At

LEMMA CloseDecoderStops ==
  ASSUME SafeInv, SafeInv', CloseDecoder PROVE Custody!Move
<1>1. CASE CallFails
  <2>1. Custody!Pass
    BY <1>1, FailsQuiet
  <2> QED
    BY <2>1 DEF Custody!Move
<1>2. CASE ~CallFails
  <2>1. /\ uses' = [uses EXCEPT ![cur] = {}]
        /\ pc \in {"cdecoder", "bdecoder"} /\ pc' \in {"cparts", "bshm"}
        /\ alloc' = alloc /\ engine' = engine /\ own' = own /\ res' = res
    BY <1>2 DEF CloseDecoder, Goto
  <2>2. cur \in Sources
    BY <2>1 DEF SafeInv, Places, VideoPlaces, AudioPlaces, Sources
  <2>3. FreshKinds = {} /\ FreshKinds' = {}
    BY <2>1 DEF FreshKinds
  <2>4. InTransit' = InTransit
    BY <2>3 DEF InTransit
  <2>5. /\ [s \in Sources |-> OwnBlocks(s)]' = [s \in Sources |-> OwnBlocks(s)]
        /\ [l \in Shared |-> EngineBlocks(l)]' = [l \in Shared |-> EngineBlocks(l)]
    BY <2>1 DEF OwnBlocks, EngineBlocks
  <2>6. Custody!Stop(cur)
    BY <2>1, <2>4, <2>5 DEF Custody!Stop
  <2> QED
    BY <2>2, <2>6 DEF Custody!Move
<1> QED
  BY <1>1, <1>2

\* The memory of an engine is taken into the call's hands.
LEMMA TakePasses ==
  ASSUME SafeInv, SafeInv', TakeDecoder \/ TakeScheduler \/ TakeAudio PROVE Custody!Pass
<1>1. CASE CallFails
  BY <1>1, FailsQuiet
<1>2. CASE ~CallFails
  <2>1. /\ pc \in {"cdec", "csched", "bshm"} /\ alloc' = alloc /\ uses' = uses /\ own' = own
        /\ \/ engine' = engine /\ res' = res /\ pc' \in {"csched", "cend", "bparts"}
           \/ /\ \E k \in Shared : /\ res' = [res EXCEPT ![k] = engine[k]]
                                   /\ engine' = [engine EXCEPT ![k] = None]
                                   /\ \/ k = "dec" /\ pc' = "cdecfree"
                                      \/ k = "sched" /\ pc' = "caddress"
                                      \/ k = "shm" /\ pc' = "baddress"
    BY <1>2, Kindly DEF TakeDecoder, TakeScheduler, TakeAudio, TakeShared, At, Goto
  <2>2. CASE engine' = engine /\ res' = res /\ pc' \in {"csched", "cend", "bparts"}
    <3>1. FreshKinds' \subseteq FreshKinds
      BY <2>2 DEF FreshKinds
    <3> QED
      BY <2>1, <2>2, <3>1, GoesOnQuiet
  <2>3. ASSUME NEW k \in Shared, res' = [res EXCEPT ![k] = engine[k]],
               engine' = [engine EXCEPT ![k] = None],
               \/ k = "dec" /\ pc' = "cdecfree"
               \/ k = "sched" /\ pc' = "caddress"
               \/ k = "shm" /\ pc' = "baddress"
        PROVE  Custody!Pass
    <3>1. FreshKinds' = {k}
      BY <2>3 DEF FreshKinds
    <3>2. res \in [Kinds -> Blocks \cup {None}] /\ engine \in [Shared -> Blocks \cup {None}]
          /\ k \in Kinds
      BY Kindly DEF SafeInv, Types
    <3>3. res'[k] = engine[k] /\ \A l \in Shared : engine'[l] = engine[l] \/ engine'[l] = None
      BY <2>3, <3>2
    <3>4. Members /\ Members'
      BY MembersKnown, MembersNext
    <3>5. \A b \in InTransit' : b \in InTransit \/ \E l \in Shared : b \in EngineBlocks(l)
      BY <3>1, <3>3, <3>4 DEF Members
    <3>6. \A s \in Sources : \A b \in OwnBlocks(s)' : b \in OwnBlocks(s)
      BY <2>1, <3>4 DEF Members
    <3>7. \A l \in Shared : \A b \in EngineBlocks(l)' : b \in EngineBlocks(l)
      BY <3>3, <3>4 DEF Members
    <3>8. Custody!Passed
      BY <2>1, <3>5, <3>6, <3>7, HandedOn
    <3> QED
      BY <2>1, <3>8 DEF Custody!Pass
  <2> QED
    BY <2>1, <2>2, <2>3
<1> QED
  BY <1>1, <1>2

\* A block is given back when its only keeper forgets it and no decoder works with it.
LEMMA GivenBack ==
  ASSUME SafeInv, NEW b \in Blocks, alloc' = alloc \ {b}, engine' = engine, uses' = uses,
         b \in InTransit \/ \E s \in Sources : b \in OwnBlocks(s),
         \A s \in Sources : b \notin uses[s],
         \A c : c \in InTransit' <=> c \in InTransit /\ c # b,
         \A s \in Sources : \A c : c \in OwnBlocks(s)' <=> c \in OwnBlocks(s) /\ c # b
  PROVE  Custody!Move
<1>1. b \in (InTransit \cup Custody!KeptBySources) \ Custody!WorkedWith
  BY BySources, ByDecoders
<1>2. InTransit' = InTransit \ {b}
  OBVIOUS
<1>3. \A s \in Sources : OwnBlocks(s)' = OwnBlocks(s) \ {b}
  OBVIOUS
<1>4. [s \in Sources |-> OwnBlocks(s)]' = [s \in Sources |-> [t \in Sources |-> OwnBlocks(t)][s] \ {b}]
  BY <1>3
<1>5. [k \in Shared |-> EngineBlocks(k)]' = [k \in Shared |-> EngineBlocks(k)]
  BY DEF EngineBlocks
<1>6. Custody!GiveBack(b)
  BY <1>1, <1>2, <1>4, <1>5 DEF Custody!GiveBack
<1> QED
  BY <1>6 DEF Custody!Move

LEMMA FreeSharedGives ==
  ASSUME SafeInv, SafeInv', FreeDecoder \/ FreeScheduler \/ FreeAudio PROVE Custody!Move
<1>1. PICK k \in Shared :
        /\ Free(res[k]) /\ res' = [res EXCEPT ![k] = None]
        /\ engine' = engine /\ uses' = uses /\ own' = own
        /\ \/ k = "dec" /\ pc = "cdecfree" /\ pc' = "csched"
           \/ k = "sched" /\ pc = "cschedfree" /\ pc' = "cend"
           \/ k = "shm" /\ pc = "bshmfree" /\ pc' = "bparts"
  <2>1. \E k \in Shared :
        /\ Free(res[k]) /\ res' = [res EXCEPT ![k] = None]
        /\ engine' = engine /\ uses' = uses /\ own' = own
        /\ \/ k = "dec" /\ pc = "cdecfree" /\ pc' = "csched"
           \/ k = "sched" /\ pc = "cschedfree" /\ pc' = "cend"
           \/ k = "shm" /\ pc = "bshmfree" /\ pc' = "bparts"
    BY Kindly DEF FreeDecoder, FreeScheduler, FreeAudio, FreeShared, At
  <2> QED
    BY <2>1
<1>2. FreshKinds = {k} /\ FreshKinds' = {} /\ k \in Kinds
  BY <1>1, Kindly DEF FreshKinds
<1>3. CASE alloc' = alloc \ {res[k]} /\ res[k] # None
  <2>1. PICK b \in Blocks : b = res[k]
    BY <1>2, <1>3 DEF SafeInv, Types
  <2>2. Members /\ Members'
    BY MembersKnown, MembersNext
  <2>3. Fresh(b) /\ b # None
    BY <1>2, <1>3, <2>1 DEF SafeInv, InHand
  <2>4. \A c : c \in InTransit <=> c = b
    BY <1>2, <2>1, <2>2, <2>3 DEF Members
  <2>5. \A c : c \notin InTransit'
    BY <1>2, <2>2 DEF Members
  <2>6. \A s \in Sources : \A c : c \in OwnBlocks(s)' <=> c \in OwnBlocks(s) /\ c # b
    BY <1>1, <2>2, <2>3 DEF Members, Fresh
  <2>7. \A s \in Sources : b \notin uses[s]
    BY <2>3 DEF Fresh
  <2>8. alloc' = alloc \ {b}
    BY <1>3, <2>1
  <2> QED
    BY <1>1, <2>4, <2>5, <2>6, <2>7, <2>8, GivenBack
<1>4. CASE alloc' = alloc
  <2>1. Custody!Pass
    BY <1>1, <1>2, <1>4, Quiet
  <2> QED
    BY <2>1 DEF Custody!Move
<1>5. res[k] = None => alloc \ {res[k]} = alloc
  BY NoneIsNoBlock DEF SafeInv, Types
<1> QED
  BY <1>1, <1>3, <1>4, <1>5 DEF Free

LEMMA FreePartGives ==
  ASSUME SafeInv, SafeInv', FreePart PROVE Custody!Move
<1>1. PICK i \in 1..Len(Private) :
        /\ own[cur][Private[i]] # None
        /\ Free(own[cur][Private[i]])
        /\ own' = [own EXCEPT ![cur][Private[i]] = None]
  BY DEF FreePart, Comes
<1>2. /\ pc \in {"cparts", "bparts"} /\ pc' = pc
      /\ engine' = engine /\ uses' = uses /\ handle' = handle /\ cur' = cur /\ res' = res
  BY DEF FreePart
<1>3. PICK s \in Sources : s = cur
  BY <1>2 DEF SafeInv, Places, VideoPlaces, AudioPlaces, Sources
<1>4. PICK part \in Parts : part = Private[i]
  BY Kindly
<1>5. own \in [Sources -> [Parts -> Blocks \cup {None}]]
  BY DEF SafeInv, Types
<1>6. PICK b \in Blocks : b = own[s][part]
  BY <1>1, <1>3, <1>4, <1>5
<1>7. b # None /\ Free(b) /\ own' = [own EXCEPT ![s][part] = None]
  BY <1>1, <1>3, <1>4, <1>6, NoneIsNoBlock
<1>8. \A t \in Sources, p \in Parts : own'[t][p] = IF t = s /\ p = part THEN None ELSE own[t][p]
  BY <1>5, <1>7
<1>9. FreshKinds = {} /\ FreshKinds' = {}
  BY <1>2 DEF FreshKinds
<1>10. CASE alloc' = alloc
  <2>1. \A t \in Sources, p \in Parts : own'[t][p] = own[t][p] \/ own'[t][p] = None
    BY <1>8
  <2>2. Custody!Pass
    BY <1>2, <1>9, <1>10, <2>1, Quiet
  <2> QED
    BY <2>2 DEF Custody!Move
<1>11. CASE alloc' = alloc \ {b}
  <2>1. Members /\ Members'
    BY MembersKnown, MembersNext
  <2>2. \A t \in Sources, p \in Parts : own[t][p] = b <=> t = s /\ p = part
    BY <1>6, <1>7 DEF SafeInv, Kept
  <2>3. \A t \in Sources : \A c : c \in OwnBlocks(t)' <=> c \in OwnBlocks(t) /\ c # b
    <3>1. ASSUME NEW t \in Sources, NEW c
          PROVE  (c # None /\ \E p \in Parts : own'[t][p] = c)
                   <=> (c # None /\ c # b /\ \E p \in Parts : own[t][p] = c)
      BY <1>8, <2>2
    <3> QED
      BY <2>1, <3>1 DEF Members
  <2>4. b \in OwnBlocks(s)
    BY <1>6, <1>7, <2>1 DEF Members
  <2>5. \A c : c \notin InTransit /\ c \notin InTransit'
    BY <1>9, <2>1 DEF Members
  <2>6. uses[s] = {}
    <3>1. handle[s] = "bound"
      <4>1. own[s] # NoParts
        BY <1>6, <1>7 DEF NoParts
      <4> QED
        BY <4>1 DEF SafeInv, Places
    <3> QED
      BY <1>2, <1>3, <3>1 DEF SafeInv, Places
  <2>7. \A t \in Sources : b \notin uses[t]
    BY <1>6, <2>6 DEF SafeInv, Kept
  <2> QED
    BY <1>2, <1>11, <2>3, <2>4, <2>5, <2>7, GivenBack
<1> QED
  BY <1>7, <1>10, <1>11 DEF Free

LEMMA StutterPasses ==
  ASSUME SafeInv, SafeInv', UNCHANGED vars PROVE Custody!Pass
<1>1. alloc' = alloc /\ engine' = engine /\ uses' = uses /\ own' = own /\ res' = res /\ pc' = pc
  BY DEF vars
<1>2. FreshKinds' = FreshKinds
  BY <1>1 DEF FreshKinds
<1> QED
  BY <1>1, <1>2, GoesOnQuiet

LEMMA CustodyMove ==
  ASSUME SafeInv, SafeInv', Asking, CallStep \/ UNCHANGED vars PROVE Custody!Move
<1>1. Custody!Pass => Custody!Move
  BY DEF Custody!Move
<1>2. CASE VideoStep
  <2>1. CASE \/ \E v \in VideoSources : OpenVideo(v) \/ CloseVideo(v)
             \/ VideoRequired
    BY <1>1, <2>1, BeginPasses
  <2>2. CASE AllocFails
    BY <1>1, <2>2, ReturnQuiet DEF AllocFails
  <2>3. CASE VideoAlloc
    BY <2>3, AllocGets
  <2>4. CASE VideoSource
    BY <1>1, <2>4, SourcePasses
  <2>5. CASE VideoSetScheduler \/ VideoSetDecoder
    BY <1>1, <2>5, EnginePasses
  <2>6. CASE VideoOpen
    BY <2>6, VideoOpenPasses
  <2>7. CASE VideoSurface \/ PartsFreed \/ CloseCount \/ ForgetAddress \/ CloseEnds
    BY <1>1, <2>7, SurfacePasses
  <2>8. CASE CloseDecoder
    BY <2>8, CloseDecoderStops
  <2>9. CASE FreePart
    BY <2>9, FreePartGives
  <2>10. CASE TakeDecoder \/ TakeScheduler
    BY <1>1, <2>10, TakePasses
  <2>11. CASE FreeDecoder \/ FreeScheduler
    BY <2>11, FreeSharedGives
  <2> QED
    BY <1>2, <2>1, <2>2, <2>3, <2>4, <2>5, <2>6, <2>7, <2>8, <2>9, <2>10, <2>11 DEF VideoStep
<1>3. CASE AudioStep
  <2>1. CASE (\E a \in AudioSources : OpenAudio(a) \/ CloseAudio(a)) \/ AudioEngine
    BY <1>1, <2>1, BeginPasses
  <2>2. CASE AudioShared \/ AudioAlloc
    BY <2>2, AllocGets
  <2>3. CASE AudioSetShared
    BY <1>1, <2>3, EnginePasses
  <2>4. CASE AudioOpen
    BY <2>4, AudioOpenPasses
  <2>5. CASE TakeAudio
    BY <1>1, <2>5, TakePasses
  <2>6. CASE FreeAudio
    BY <2>6, FreeSharedGives
  <2> QED
    BY <1>3, <2>1, <2>2, <2>3, <2>4, <2>5, <2>6 DEF AudioStep
<1>4. CASE Crash
  BY <1>1, <1>4, FailsQuiet DEF Crash
<1>5. CASE \E s \in Sources : Forget(s)
  BY <1>1, <1>5, ForgetPasses
<1>6. CASE UNCHANGED vars
  BY <1>1, <1>6, StutterPasses
<1> QED
  BY <1>2, <1>3, <1>4, <1>5, <1>6 DEF CallStep

\* A crash in the windows of CrashTorn: what was given back is a part of the source that is
\* closed, with which no decoder works any more.
LEMMA TornTears ==
  ASSUME SafeInv, CrashTorn PROVE Custody!Tear
<1>1. /\ pc \in {"cparts", "bparts", "cend"} /\ pc' = "idle"
      /\ engine' = engine /\ uses' = uses /\ own' = own /\ torn' = TRUE
  BY DEF CrashTorn, Return, At
<1>2. FreshKinds = {} /\ FreshKinds' = {}
  BY <1>1 DEF FreshKinds
<1>3. InTransit' = InTransit
  BY <1>2 DEF InTransit
<1>4. /\ [s \in Sources |-> OwnBlocks(s)]' = [s \in Sources |-> OwnBlocks(s)]
      /\ [l \in Shared |-> EngineBlocks(l)]' = [l \in Shared |-> EngineBlocks(l)]
  BY <1>1 DEF OwnBlocks, EngineBlocks
<1>5. \E gone \in SUBSET (Custody!KeptBySources \ Custody!WorkedWith) : alloc' = alloc \ gone
  <2>1. CASE alloc' = alloc
    <3>1. alloc' = alloc \ {}
      BY <2>1
    <3> QED
      BY <3>1
  <2>2. ASSUME pc \in {"cparts", "bparts"}, NEW i \in 1..Len(Private), Comes(i),
               alloc' = alloc \ {own[cur][Private[i]]}
        PROVE  \E gone \in SUBSET (Custody!KeptBySources \ Custody!WorkedWith) : alloc' = alloc \ gone
    <3>1. PICK s \in Sources : s = cur
      BY <2>2 DEF SafeInv, Places, VideoPlaces, AudioPlaces, Sources
    <3>2. PICK part \in Parts : part = Private[i]
      BY Kindly
    <3> DEFINE b == own[s][part]
    <3>3. b # None /\ alloc' = alloc \ {b}
      BY <2>2, <3>1, <3>2 DEF Comes
    <3>4. uses[s] = {}
      <4>1. own[s] # NoParts
        BY <3>3 DEF NoParts
      <4>2. handle[s] = "bound"
        BY <4>1 DEF SafeInv, Places
      <4> QED
        BY <2>2, <3>1, <4>2 DEF SafeInv, Places
    <3>5. \A t \in Sources : b \notin uses[t]
      BY <3>4 DEF SafeInv, Kept
    <3>6. b \in OwnBlocks(s)
      BY <3>3, OwnedIs
    <3> HIDE DEF b
    <3>7. b \in Custody!KeptBySources \ Custody!WorkedWith
      BY <3>5, <3>6, BySources, ByDecoders
    <3>8. {b} \in SUBSET (Custody!KeptBySources \ Custody!WorkedWith)
      BY <3>7
    <3> QED
      BY <3>3, <3>8
  <2> QED
    BY <2>1, <2>2 DEF CrashTorn
<1> QED
  BY <1>1, <1>3, <1>4, <1>5 DEF Custody!Tear

\* Until a giving back is torn every step is one of MemoryCustody; then nothing is promised.
Custodial == torn \/ (SafeInv /\ Asking)

LEMMA CustodyStep ==
  ASSUME Custodial, OneAudio, [Next]_vars
  PROVE  Custodial' /\ (Custody!Next \/ UNCHANGED Custody!vars)
<1>1. CASE torn
  <2>1. torn'
    BY <1>1 DEF Next, CrashTorn, vars
  <2> QED
    BY <1>1, <2>1 DEF Custodial, Custody!Next
<1>2. CASE ~torn /\ CrashTorn
  <2>1. torn' /\ Custody!Tear
    BY <1>2, TornTears DEF Custodial, CrashTorn
  <2> QED
    BY <1>2, <2>1 DEF Custodial, Custody!Next
<1>3. CASE ~torn /\ torn' = torn /\ (CallStep \/ UNCHANGED vars)
  <2>1. SafeInv /\ Asking
    BY <1>3 DEF Custodial
  <2>2. SafeInv' /\ Asking'
    BY <1>3, <2>1, SafeStep, AskingStep
  <2>3. Custody!Move
    BY <1>3, <2>1, <2>2, CustodyMove
  <2> QED
    BY <1>3, <2>2, <2>3 DEF Custodial, Custody!Next
<1> QED
  BY <1>1, <1>2, <1>3 DEF Next, vars

LEMMA CustodyInit == Init => Custody!Init /\ Asking
<1> SUFFICES ASSUME Init PROVE Custody!Init /\ Asking
  OBVIOUS
<1>1. InTransit = {}
  BY DEF Init, InTransit, FreshKinds
<1>2. \A s \in Sources : OwnBlocks(s) = {}
  BY DEF Init, OwnBlocks, NoParts
<1>3. \A k \in Shared : EngineBlocks(k) = {}
  BY DEF Init, EngineBlocks
<1>4. alloc = {} /\ uses = [s \in Sources |-> {}] /\ torn = FALSE
  BY DEF Init
<1>5. Custody!Init
  BY <1>1, <1>2, <1>3, <1>4 DEF Custody!Init
<1>6. Asking
  BY DEF Init, Asking
<1> QED
  BY <1>5, <1>6

\* The sources keep the promise about the chip's memory: whatever fails and wherever a
\* crash ends a call, every step of the library gets one block, hands blocks on, opens or
\* closes a decoder, or gives back one block that nobody else knows of or works with; and
\* what is lost stays lost.  That holds up to a crash in one of the windows of CrashTorn,
\* and provided there is one audio source at most, as above.
THEOREM SourcesImplementCustody ==
  ASSUME \A a, b \in AudioSources : a = b
  PROVE  Spec => ImplementsCustody
<1>1. OneAudio
  BY DEF OneAudio
<1>2. Init => Custodial /\ Custody!Init
  BY InitSafe, CustodyInit DEF Custodial
<1>3. Custodial /\ [Next]_vars => Custodial' /\ [Custody!Next]_(Custody!vars)
  BY <1>1, CustodyStep
<1> QED
  BY <1>2, <1>3, PTL DEF Spec, Custody!Spec, ImplementsCustody

=============================================================================
