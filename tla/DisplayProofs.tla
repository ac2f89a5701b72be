---------------------------- MODULE DisplayProofs ----------------------------
(***************************************************************************)
(* Proofs about the on-screen display: what is shown was not given back, a *)
(* closed source is off the scaler it was set on last, and writing a       *)
(* picture changes nothing outside of it.                                  *)
(***************************************************************************)
EXTENDS Display, FiniteSetTheorems, TLAPS

\* An open source has a surface, and its pictures lie on it.
OpenHasSurface ==
  \A s \in Sources : state[s] = "open" =>
    /\ surface[s] # 0
    /\ \A i \in Pictures(s) : pics[s][i].addr \in Region(surface[s])

SurfaceInv ==
  TypeOK /\ SurfaceNamed /\ ShownIsGiven /\ ShownIsOpen /\ OpenHasSurface

-----------------------------------------------------------------------------
(* Sizes and addresses. *)

LEMMA ProfileShape ==
  ASSUME NEW p \in Profiles
  PROVE  /\ p.header \in Nat \ {0} /\ p.size \in Nat \ {0}
         /\ p.luma \in Nat /\ p.chroma \in Nat /\ p.luma + p.chroma <= p.size
BY DisplayAssumption DEF SizesOK

LEMMA TimesMore ==
  ASSUME NEW i \in Nat, NEW n \in Nat, NEW z \in Nat, i < n
  PROVE  i * z \in Nat /\ z * n \in Nat /\ i * z + z <= z * n
<1> DEFINE k == n - (i + 1)
<1>1. k \in Nat /\ n = (i + 1) + k
  OBVIOUS
<1> HIDE DEF k
<1>2. k * z \in Nat /\ i * z \in Nat
  BY <1>1
<1>3. z * n = i * z + z + k * z
  BY <1>1
<1> QED
  BY <1>2, <1>3

\* Each picture lies behind the header and inside the memory got for the surface.
LEMMA PictureInside ==
  ASSUME NEW p \in Profiles, NEW a \in Memory, NEW n \in Nat, NEW i \in 0..(n - 1)
  PROVE  /\ PictureAddr(a, p, i) \in Nat /\ TotalSize(p, n) \in Nat
         /\ a + p.header <= PictureAddr(a, p, i)
         /\ PictureAddr(a, p, i) + p.size <= a + TotalSize(p, n)
<1>1. a \in Nat /\ p.header \in Nat /\ p.size \in Nat
  BY ProfileShape, DisplayAssumption DEF Memory
<1>2. i \in Nat /\ i < n
  OBVIOUS
<1> DEFINE q == i * p.size
           r == p.size * n
<1>3. q \in Nat /\ r \in Nat /\ q + p.size <= r
  BY <1>1, <1>2, TimesMore
<1>4. PictureAddr(a, p, i) = a + p.header + q /\ TotalSize(p, n) = r + p.header
  BY DEF PictureAddr, TotalSize
<1> HIDE DEF q, r
<1> QED
  BY <1>1, <1>3, <1>4

LEMMA TotalPositive ==
  ASSUME NEW p \in Profiles, NEW n \in Nat
  PROVE  TotalSize(p, n) \in Nat \ {0} /\ p.header <= TotalSize(p, n)
<1>1. p.header \in Nat \ {0} /\ p.size \in Nat
  BY ProfileShape
<1>2. p.size * n \in Nat
  BY <1>1
<1> QED
  BY <1>1, <1>2 DEF TotalSize

LEMMA FaultsType ==
  ASSUME TypeOK, NEW n \in Nat, Faults(n) PROVE faults' \in 0..MaxFaults
BY DisplayAssumption DEF TypeOK, Faults

LEMMA FaultType ==
  ASSUME TypeOK, Fault \/ NoFault PROVE faults' \in 0..MaxFaults
BY DisplayAssumption DEF TypeOK, Fault, Faults, NoFault

LEMMA BadType ==
  ASSUME NEW n \in Nat, NEW bad \in SUBSET (0..(n - 1)) PROVE Cardinality(bad) \in Nat
<1>1. IsFiniteSet(0..(n - 1))
  BY FS_Interval
<1>2. IsFiniteSet(bad)
  BY <1>1, FS_Subset
<1> QED
  BY <1>2, FS_CardinalityType

-----------------------------------------------------------------------------
(* Opening a source. *)

\* What an open does, whichever way it ends: one structure changes, that had no
\* surface; more memory may be given out, and the driver may write a header there.
OpenStep(s) ==
  /\ state[s] = "none"
  /\ \E st \in {"none", "open", "failed"}, a \in Nat, p \in Profiles :
       \E ps :
         /\ IsPics(ps) /\ NewSource(s, st, a, p, ps)
         /\ a # 0 => /\ st # "none"
                     /\ a \in Memory /\ size[a] = 0 /\ size'[a] # 0
         /\ st = "open" => a # 0 /\ \A i \in DOMAIN ps : ps[i].addr \in Extent(a, size'[a])
  /\ size' \in [Memory -> Nat] /\ \A b \in Given : size'[b] = size[b]
  /\ content' \in [Memory -> Contents]
  /\ UNCHANGED <<shown, enabled, fifo, left>>
  /\ faults' \in 0..MaxFaults

LEMMA WriteType ==
  ASSUME content \in [Memory -> Contents], NEW where, NEW what \in Contents, Write(where, what)
  PROVE  content' \in [Memory -> Contents]
BY DEF Write

LEMMA PicturesType ==
  ASSUME NEW n \in Counts, NEW a \in Nat, NEW p \in Profiles, NEW bad
  PROVE  IsPics([i \in 0..(n - 1) |-> Picture(a, p, i, i \notin bad)])
<1> DEFINE f == [i \in 0..(n - 1) |-> Picture(a, p, i, i \notin bad)]
<1>1. p.header \in Nat /\ p.size \in Nat /\ p.luma \in Nat /\ n \in Nat
  BY ProfileShape, DisplayAssumption
<1>2. ASSUME NEW i \in 0..(n - 1) PROVE Picture(a, p, i, i \notin bad) \in PicInfo
  <2>1. i * p.size \in Nat
    BY <1>1
  <2>2. PictureAddr(a, p, i) \in Nat
    BY <1>1, <2>1 DEF PictureAddr
  <2> QED
    BY <1>1, <2>2 DEF Picture, PicInfo
<1>3. f \in [0..(n - 1) -> PicInfo]
  BY <1>2
<1> QED
  BY <1>3 DEF IsPics

LEMMA NoPicsType == IsPics(NoPics)
<1>1. NoPics \in [0..(0 - 1) -> PicInfo]
  BY DEF NoPics
<1> QED
  BY <1>1 DEF IsPics

LEMMA EarlyStep ==
  ASSUME SurfaceInv, NEW s \in Sources, NEW p \in Profiles, NEW st \in {"none", "failed"},
         state[s] = "none", Fault \/ NoFault, left' = left, OpenFailsEarly(s, p, st)
  PROVE  OpenStep(s)
<1>1. TypeOK
  BY DEF SurfaceInv
<1>2. faults' \in 0..MaxFaults
  BY <1>1, FaultType
<1>3. NewSource(s, st, 0, p, NoPics) /\ UNCHANGED <<size, content, shown, enabled, fifo>>
  BY DEF OpenFailsEarly, driverVars
<1>4. /\ size' \in [Memory -> Nat] /\ \A b \in Given : size'[b] = size[b]
      /\ content' \in [Memory -> Contents]
  BY <1>1, <1>3 DEF TypeOK
<1>5. \E ps : IsPics(ps) /\ NewSource(s, st, 0, p, ps)
  BY <1>3, NoPicsType
<1>6. st \in {"none", "open", "failed"} /\ 0 \in Nat /\ st # "open"
  OBVIOUS
<1> QED
  BY <1>2, <1>3, <1>4, <1>5, <1>6 DEF OpenStep

LEMMA OpenMultipleStep ==
  ASSUME SurfaceInv, NEW s \in Sources, NEW p \in Profiles, NEW n \in Counts, OpenMultiple(s, p, n)
  PROVE  OpenStep(s)
<1>1. TypeOK /\ state[s] = "none" /\ left' = left
  BY DEF SurfaceInv, OpenMultiple
<1>2. n \in Nat \ {0}
  BY DisplayAssumption
<1> DEFINE t == TotalSize(p, n)
<1>3. t \in Nat \ {0}
  BY <1>2, TotalPositive
<1>4. CASE \/ Fault /\ \E st \in {"none", "failed"} : OpenFailsEarly(s, p, st)
           \/ NoFault /\ OpenFailsEarly(s, p, "failed")
  BY <1>1, <1>4, EarlyStep
<1>5. ASSUME NEW a \in Memory, Fits(a, t), NEW bad \in SUBSET (0..(n - 1)),
             Faults(Cardinality(bad)),
             NewSource(s, "open", a, p, [i \in 0..(n - 1) |-> Picture(a, p, i, i \notin bad)]),
             size' = [size EXCEPT ![a] = t], Write(Extent(a, p.header), "header"),
             UNCHANGED <<shown, enabled, fifo>>
      PROVE  OpenStep(s)
  <2>1. faults' \in 0..MaxFaults
    BY <1>1, <1>2, <1>5, BadType, FaultsType
  <2>2. size[a] = 0 /\ size' \in [Memory -> Nat] /\ size'[a] = t
    BY <1>1, <1>3, <1>5 DEF Fits, TypeOK
  <2>3. \A b \in Given : size'[b] = size[b]
    BY <1>1, <1>5, <2>2 DEF Given, TypeOK
  <2>4. content' \in [Memory -> Contents]
    BY <1>1, <1>5, WriteType DEF TypeOK, Contents
  <2> DEFINE ps == [i \in 0..(n - 1) |-> Picture(a, p, i, i \notin bad)]
  <2>5. \A i \in DOMAIN ps : ps[i].addr \in Extent(a, size'[a])
    <3>1. a \in Nat /\ p.size \in Nat \ {0} /\ p.header \in Nat
      BY ProfileShape, DisplayAssumption DEF Memory
    <3> TAKE i \in 0..(n - 1)
    <3>2. ps[i].addr = PictureAddr(a, p, i)
      BY DEF Picture
    <3>3. /\ PictureAddr(a, p, i) \in Nat /\ a + p.header <= PictureAddr(a, p, i)
          /\ PictureAddr(a, p, i) + p.size <= a + t
      BY <1>2, PictureInside
    <3> HIDE DEF ps, t
    <3> QED
      BY <1>3, <2>2, <3>1, <3>2, <3>3 DEF Extent
  <2>6. a \in Nat /\ a # 0
    BY DisplayAssumption DEF Memory
  <2> HIDE DEF ps
  <2>7. NewSource(s, "open", a, p, ps)
    BY <1>5 DEF ps
  <2>8. IsPics(ps)
    BY <2>6, PicturesType DEF ps
  <2> QED
    BY <1>1, <1>3, <1>5, <2>1, <2>2, <2>3, <2>4, <2>5, <2>6, <2>7, <2>8 DEF OpenStep
<1>6. ASSUME NEW a \in Memory, Fits(a, t), GivenBack(a, t), NEW ps,
             IsPics(ps), NewSource(s, "failed", 0, p, ps),
             UNCHANGED content \/ Write(Extent(a, p.header), "header"),
             UNCHANGED <<shown, enabled, fifo>>
      PROVE  OpenStep(s)
  <2>1. faults' \in 0..MaxFaults
    BY <1>1, <1>6, FaultType, FaultsType DEF GivenBack
  <2>2. size' \in [Memory -> Nat] /\ \A b \in Given : size'[b] = size[b]
    BY <1>1, <1>3, <1>6 DEF GivenBack, Fits, TypeOK, Given
  <2>3. content' \in [Memory -> Contents]
    BY <1>1, <1>6, WriteType DEF TypeOK, Contents
  <2> QED
    BY <1>1, <1>6, <2>1, <2>2, <2>3 DEF OpenStep
<1>7. \A a \in Memory : IsPics([i \in 0..(n - 1) |-> Picture(a, p, i, TRUE)])
  <2> TAKE a \in Memory
  <2>1. a \in Nat
    BY DisplayAssumption DEF Memory
  <2>2. IsPics([i \in 0..(n - 1) |-> Picture(a, p, i, i \notin {})])
    BY <2>1, PicturesType
  <2> QED
    BY <2>2
<1> HIDE DEF t
<1> QED
  BY <1>4, <1>5, <1>6, <1>7, NoPicsType DEF OpenMultiple, t

LEMMA OpenOSDStep ==
  ASSUME SurfaceInv, NEW s \in Sources, NEW p \in Profiles, OpenOSD(s, p)
  PROVE  OpenStep(s)
<1>1. TypeOK /\ state[s] = "none" /\ left' = left
  BY DEF SurfaceInv, OpenOSD
<1> DEFINE t == TotalSize(p, 1)
<1>3. t \in Nat \ {0}
  BY TotalPositive
<1>4. CASE \/ Fault /\ \E st \in {"none", "failed"} : OpenFailsEarly(s, p, st)
           \/ NoFault /\ OpenFailsEarly(s, p, "failed")
  BY <1>1, <1>4, EarlyStep
<1>5. ASSUME NEW a \in Memory, Fits(a, t), size' = [size EXCEPT ![a] = t],
             UNCHANGED <<shown, enabled, fifo>>, Fault \/ NoFault,
             UNCHANGED content \/ Write(Extent(a, p.header), "header"),
             \/ NewSource(s, "open", a, p, [i \in {0} |-> OSDPicture(a, p)])
             \/ NewSource(s, "failed", a, p, NoPics)
             \/ NewSource(s, "none", 0, p, NoPics)
      PROVE  OpenStep(s)
  <2>1. faults' \in 0..MaxFaults
    BY <1>1, <1>5, FaultType
  <2>2. size[a] = 0 /\ size' \in [Memory -> Nat] /\ size'[a] = t
    BY <1>1, <1>3, <1>5 DEF Fits, TypeOK
  <2>3. \A b \in Given : size'[b] = size[b]
    BY <1>1, <1>5, <2>2 DEF Given, TypeOK
  <2>4. content' \in [Memory -> Contents]
    BY <1>1, <1>5, WriteType DEF TypeOK, Contents
  <2> DEFINE ps == [i \in {0} |-> OSDPicture(a, p)]
  <2>5. \A i \in DOMAIN ps : ps[i].addr \in Extent(a, size'[a])
    <3>1. a \in Nat
      BY DisplayAssumption DEF Memory
    <3>2. ps[0].addr = a
      BY DEF OSDPicture, Picture
    <3>3. DOMAIN ps = {0}
      OBVIOUS
    <3> HIDE DEF ps, t
    <3> QED
      BY <1>3, <2>2, <3>1, <3>2, <3>3 DEF Extent
  <2>6. a \in Nat /\ a # 0 /\ t # 0
    BY <1>3, DisplayAssumption DEF Memory
  <2>10. IsPics(ps)
    <3>1. OSDPicture(a, p) \in PicInfo
      <4>1. PictureAddr(a, p, 0) \in Nat /\ p.luma \in Nat
        BY PictureInside, ProfileShape
      <4> QED
        BY <2>6, <4>1 DEF OSDPicture, Picture, PicInfo
    <3>2. 0..(1 - 1) = {0}
      OBVIOUS
    <3>3. ps \in [0..(1 - 1) -> PicInfo]
      BY <3>1, <3>2
    <3> QED
      BY <3>3 DEF IsPics
  <2> HIDE DEF ps, t
  <2>7. CASE NewSource(s, "open", a, p, ps)
    BY <1>1, <1>5, <2>1, <2>2, <2>3, <2>4, <2>5, <2>6, <2>7, <2>10 DEF OpenStep
  <2>8. CASE NewSource(s, "failed", a, p, NoPics)
    BY <1>1, <1>5, <2>1, <2>2, <2>3, <2>4, <2>6, <2>8, NoPicsType DEF OpenStep
  <2>9. CASE NewSource(s, "none", 0, p, NoPics)
    BY <1>1, <1>5, <2>1, <2>2, <2>3, <2>4, <2>9, NoPicsType DEF OpenStep
  <2> QED
    BY <1>5, <2>7, <2>8, <2>9 DEF ps
<1> HIDE DEF t
<1> QED
  BY <1>4, <1>5 DEF OpenOSD, t

-----------------------------------------------------------------------------
(* The surfaces. *)

LEMMA SurfaceOpen ==
  ASSUME SurfaceInv, NEW s \in Sources, OpenStep(s)
  PROVE  SurfaceInv'
<1>1. PICK st, a, p, ps :
        /\ st \in {"none", "open", "failed"} /\ a \in Nat /\ p \in Profiles
        /\ IsPics(ps) /\ NewSource(s, st, a, p, ps)
        /\ a # 0 => /\ st # "none"
                    /\ a \in Memory /\ size[a] = 0 /\ size'[a] # 0
        /\ st = "open" => a # 0 /\ \A i \in DOMAIN ps : ps[i].addr \in Extent(a, size'[a])
  BY DEF OpenStep
<1>2. /\ state[s] = "none"
      /\ size' \in [Memory -> Nat] /\ \A b \in Given : size'[b] = size[b]
      /\ content' \in [Memory -> Contents]
      /\ shown' = shown /\ enabled' = enabled /\ fifo' = fifo /\ left' = left
      /\ faults' \in 0..MaxFaults
  BY DEF OpenStep
<1>3. TypeOK
  BY DEF SurfaceInv
<1>4. /\ state' = [state EXCEPT ![s] = st] /\ surface' = [surface EXCEPT ![s] = a]
      /\ profile' = [profile EXCEPT ![s] = p] /\ pics' = [pics EXCEPT ![s] = ps]
      /\ scaler' = [scaler EXCEPT ![s] = None] /\ mixer' = [mixer EXCEPT ![s] = FALSE]
  BY <1>1 DEF NewSource
<1>5. TypeOK'
  <2>1. size' \in [Memory -> Nat] /\ content' \in [Memory -> Contents] /\ faults' \in 0..MaxFaults
        /\ shown' \in [Scalers -> Nat] /\ enabled' \subseteq Main /\ left' \subseteq Scalers
    BY <1>2, <1>3 DEF TypeOK
  <2>2. state' \in [Sources -> {"none", "open", "failed"}] /\ surface' \in [Sources -> Nat]
        /\ profile' \in [Sources -> Profiles]
    BY <1>1, <1>3, <1>4 DEF TypeOK
  <2>3. scaler' \in [Sources -> Scalers \cup {None}] /\ mixer' \in [Sources -> BOOLEAN]
    BY <1>3, <1>4 DEF TypeOK
  <2>4. \A t \in Sources : mixer'[t] => scaler'[t] \in Main
    BY <1>3, <1>4 DEF TypeOK
  <2>5. pics' = [t \in Sources |-> pics'[t]] /\ \A t \in Sources : IsPics(pics'[t])
    BY <1>1, <1>3, <1>4 DEF TypeOK
  <2> QED
    BY <2>1, <2>2, <2>3, <2>4, <2>5 DEF TypeOK, IsPics
<1>6. /\ state'[s] = st /\ surface'[s] = a /\ pics'[s] = ps /\ profile'[s] = p
      /\ \A t \in Sources \ {s} : /\ state'[t] = state[t] /\ surface'[t] = surface[t]
                                  /\ pics'[t] = pics[t] /\ scaler'[t] = scaler[t]
                                  /\ profile'[t] = profile[t]
  BY <1>3, <1>4 DEF TypeOK
<1>7. /\ Given \subseteq Given' /\ \A b \in Given : Region(b)' = Region(b)
      /\ a # 0 => a \in Given' /\ a \notin Given
  BY <1>1, <1>2 DEF Given, Region
<1>8. SurfaceNamed'
  BY <1>1, <1>6, <1>7 DEF SurfaceInv, SurfaceNamed
<1>9. ShownIsGiven'
  BY <1>2, <1>7 DEF SurfaceInv, ShownIsGiven
<1>10. ShownIsOpen'
  <2>1. ASSUME NEW c \in Scalers \ left, shown'[c] # 0
        PROVE  \E t \in Sources : state'[t] = "open" /\ surface'[t] = shown'[c] /\ scaler'[t] = c
    <3>1. PICK t \in Sources : state[t] = "open" /\ surface[t] = shown[c] /\ scaler[t] = c
      BY <1>2, <2>1 DEF SurfaceInv, ShownIsOpen
    <3> QED
      BY <1>2, <1>6, <3>1
  <2> QED
    BY <1>2, <2>1 DEF ShownIsOpen
<1>11. OpenHasSurface'
  <2>1. ASSUME NEW t \in Sources, state'[t] = "open"
        PROVE  surface'[t] # 0 /\ \A i \in DOMAIN pics'[t] : 
                    pics'[t][i].addr \in Extent(surface'[t], size'[surface'[t]])
    <3>1. CASE t = s
      BY <1>1, <1>6, <2>1, <3>1
    <3>2. CASE t # s
      <4>1. state[t] = "open" /\ surface'[t] = surface[t] /\ pics'[t] = pics[t]
        BY <1>6, <2>1, <3>2
      <4>2. surface[t] # 0 /\ surface[t] \in Given /\ \A i \in DOMAIN pics[t] : pics[t][i].addr \in Region(surface[t])
        BY <4>1 DEF SurfaceInv, OpenHasSurface, SurfaceNamed, Pictures
      <4>4. size'[surface[t]] = size[surface[t]]
        BY <1>2, <4>2
      <4> QED
        BY <4>1, <4>2, <4>4 DEF Region
    <3> QED
      BY <3>1, <3>2
  <2> QED
    BY <2>1 DEF OpenHasSurface, Pictures, Region
<1> QED
  BY <1>5, <1>8, <1>9, <1>10, <1>11 DEF SurfaceInv

LEMMA SurfaceSet ==
  ASSUME SurfaceInv, NEW s \in Sources, NEW c \in Scalers, SetSurfaceSource(s, c)
  PROVE  SurfaceInv'
<1>1. TypeOK /\ state[s] = "open"
  BY DEF SurfaceInv, SetSurfaceSource
<1>2. /\ scaler' = [scaler EXCEPT ![s] = c] /\ mixer' = [mixer EXCEPT ![s] = c \in Main]
      /\ UNCHANGED <<size, content, enabled, fifo, state, surface, profile, pics>>
      /\ \/ shown' = shown /\ left' = left \cup LeftBehind(s, c)
         \/ /\ shown' = [shown EXCEPT ![c] = surface[s]]
            /\ left' = (left \cup LeftBehind(s, c)) \ {c}
  BY DEF SetSurfaceSource, Shows
<1>3. faults' \in 0..MaxFaults
  BY <1>1, FaultType DEF SetSurfaceSource
<1>4. TypeOK'
  <2>1. scaler' \in [Sources -> Scalers \cup {None}]
    BY <1>1, <1>2 DEF TypeOK
  <2>2. mixer' \in [Sources -> BOOLEAN]
    <3>1. (c \in Main) \in BOOLEAN
      OBVIOUS
    <3> QED
      BY <1>1, <1>2, <3>1 DEF TypeOK
  <2>3. ASSUME NEW t \in Sources, mixer'[t] PROVE scaler'[t] \in Main
    <3>1. CASE t = s
      <4>1. mixer'[s] <=> c \in Main
        BY <1>1, <1>2 DEF TypeOK
      <4> QED
        BY <1>1, <1>2, <2>3, <3>1, <4>1 DEF TypeOK
    <3>2. CASE t # s
      <4>1. mixer'[t] = mixer[t] /\ scaler'[t] = scaler[t]
        BY <1>1, <1>2, <3>2 DEF TypeOK
      <4> QED
        BY <1>1, <2>3, <4>1 DEF TypeOK
    <3> QED
      BY <3>1, <3>2
  <2>4. shown' \in [Scalers -> Nat] /\ left' \subseteq Scalers
    BY <1>1, <1>2 DEF TypeOK, LeftBehind
  <2> QED
    BY <1>1, <1>2, <1>3, <2>1, <2>2, <2>3, <2>4 DEF TypeOK, IsPics
<1>5. SurfaceNamed' /\ OpenHasSurface'
  BY <1>2 DEF SurfaceInv, SurfaceNamed, OpenHasSurface, Given, Pictures, Region
<1>6. ShownIsGiven'
  <2>1. surface[s] # 0 => surface[s] \in Given
    BY DEF SurfaceInv, SurfaceNamed
  <2>2. ASSUME NEW d \in Scalers, shown'[d] # 0
        PROVE  shown'[d] \in Given
    <3>1. shown'[d] = shown[d] \/ shown'[d] = surface[s]
      BY <1>1, <1>2 DEF TypeOK
    <3> QED
      BY <2>1, <2>2, <3>1 DEF SurfaceInv, ShownIsGiven
  <2>3. Given' = Given /\ size' = size /\ fifo' = fifo
    BY <1>2 DEF Given
  <2>4. \A q \in fifo' : q[1] \in Given' /\ (q[2] # Stray => q[2] \in Extent(q[1], size'[q[1]]))
    BY <2>3 DEF SurfaceInv, ShownIsGiven, Region
  <2> QED
    BY <2>2, <2>3, <2>4 DEF ShownIsGiven, Region
<1>7. ASSUME NEW d \in Scalers \ left', shown'[d] # 0
      PROVE  \E t \in Sources : state'[t] = "open" /\ surface'[t] = shown'[d] /\ scaler'[t] = d
  <2>1. scaler'[s] = c /\ state'[s] = "open" /\ surface'[s] = surface[s]
    BY <1>1, <1>2 DEF TypeOK
  <2>2. CASE d = c /\ shown' = [shown EXCEPT ![c] = surface[s]]
    <3>1. shown'[d] = surface[s]
      BY <1>1, <2>2 DEF TypeOK
    <3> QED
      BY <2>1, <2>2, <3>1
  <2>3. CASE d # c \/ (shown' = shown /\ left' = left \cup LeftBehind(s, c))
    <3>1. shown'[d] = shown[d] /\ d \notin left /\ d \notin LeftBehind(s, c)
      BY <1>1, <1>2, <1>7, <2>3 DEF TypeOK
    <3>2. PICK t \in Sources : state[t] = "open" /\ surface[t] = shown[d] /\ scaler[t] = d
      BY <1>7, <3>1 DEF SurfaceInv, ShownIsOpen
    <3>3. CASE t # s
      BY <1>1, <1>2, <3>1, <3>2, <3>3 DEF TypeOK
    <3>4. CASE t = s
      <4>1. scaler[s] = d /\ shown[d] = surface[s] /\ d \in Scalers
        BY <1>7, <3>2, <3>4
      <4>2. d = c
        BY <3>1, <4>1 DEF LeftBehind
      <4> QED
        BY <2>1, <3>1, <4>1, <4>2
    <3> QED
      BY <3>3, <3>4
  <2> QED
    BY <1>2, <2>2, <2>3
<1> QED
  BY <1>4, <1>5, <1>6, <1>7 DEF SurfaceInv, ShownIsOpen

LEMMA SurfaceClose ==
  ASSUME SurfaceInv, NEW s \in Sources, CloseSource(s)
  PROVE  SurfaceInv'
<1>1. TypeOK
  BY DEF SurfaceInv
<1>2. faults' \in 0..MaxFaults /\ UNCHANGED <<size, content, enabled, fifo>>
  BY <1>1, FaultType DEF CloseSource
<1>3. CASE UNCHANGED <<shown, sourceVars, left>>
  BY <1>1, <1>2, <1>3
     DEF SurfaceInv, TypeOK, IsPics, SurfaceNamed, ShownIsGiven, ShownIsOpen, OpenHasSurface,
         sourceVars, Given, Region, Pictures
<1>4. CASE TakenOff(s) /\ NewSource(s, "none", 0, profile[s], NoPics)
  <2>0. /\ shown' = IF scaler[s] = None THEN shown ELSE [shown EXCEPT ![scaler[s]] = 0]
        /\ left' = left \ {scaler[s]}
    BY <1>4 DEF TakenOff
  <2>1. /\ state' = [state EXCEPT ![s] = "none"] /\ surface' = [surface EXCEPT ![s] = 0]
        /\ profile' = [profile EXCEPT ![s] = profile[s]] /\ pics' = [pics EXCEPT ![s] = NoPics]
        /\ scaler' = [scaler EXCEPT ![s] = None] /\ mixer' = [mixer EXCEPT ![s] = FALSE]
    BY <1>4 DEF NewSource
  <2>2. TypeOK'
    <3>1. shown' \in [Scalers -> Nat] /\ left' \subseteq Scalers
      BY <1>1, <2>0 DEF TypeOK
    <3>2. state' \in [Sources -> {"none", "open", "failed"}] /\ surface' \in [Sources -> Nat]
          /\ profile' \in [Sources -> Profiles]
      BY <1>1, <2>1 DEF TypeOK
    <3>3. scaler' \in [Sources -> Scalers \cup {None}] /\ mixer' \in [Sources -> BOOLEAN]
      BY <1>1, <2>1 DEF TypeOK
    <3>4. \A t \in Sources : mixer'[t] => scaler'[t] \in Main
      BY <1>1, <2>1 DEF TypeOK
    <3>5. pics' = [t \in Sources |-> pics'[t]] /\ \A t \in Sources : IsPics(pics'[t])
      BY <1>1, <2>1, NoPicsType DEF TypeOK
    <3> QED
      BY <1>1, <1>2, <3>1, <3>2, <3>3, <3>4, <3>5 DEF TypeOK, IsPics
  <2>3. /\ state'[s] = "none" /\ surface'[s] = 0
        /\ \A t \in Sources \ {s} : /\ state'[t] = state[t] /\ surface'[t] = surface[t]
                                    /\ pics'[t] = pics[t] /\ scaler'[t] = scaler[t]
    BY <1>1, <2>1 DEF TypeOK
  <2>4. SurfaceNamed'
    BY <1>2, <2>3 DEF SurfaceInv, SurfaceNamed, Given
  <2>5. ShownIsGiven'
    BY <1>1, <1>2, <2>0 DEF SurfaceInv, ShownIsGiven, Given, Region, TypeOK
  <2>6. ASSUME NEW c \in Scalers \ left', shown'[c] # 0
        PROVE  \E t \in Sources : state'[t] = "open" /\ surface'[t] = shown'[c] /\ scaler'[t] = c
    <3>1. shown'[c] = shown[c] /\ scaler[s] # c /\ c \notin left
      BY <1>1, <2>0, <2>6, DisplayAssumption DEF TypeOK
    <3>2. PICK t \in Sources : state[t] = "open" /\ surface[t] = shown[c] /\ scaler[t] = c
      BY <2>6, <3>1 DEF SurfaceInv, ShownIsOpen
    <3> QED
      BY <2>3, <3>1, <3>2
  <2>7. OpenHasSurface'
    BY <1>2, <2>3 DEF SurfaceInv, OpenHasSurface, Region, Pictures
  <2> QED
    BY <2>2, <2>4, <2>5, <2>6, <2>7 DEF SurfaceInv, ShownIsOpen
<1> QED
  BY <1>3, <1>4 DEF CloseSource

\* The steps that leave the structures alone.
LEMMA SurfaceOther ==
  ASSUME SurfaceInv, UNCHANGED <<size, sourceVars>>,
         content' \in [Memory -> Contents], enabled' \subseteq Main, faults' \in 0..MaxFaults,
         \/ shown' = shown /\ left' = left
         \/ \E c \in Scalers : shown' = [shown EXCEPT ![c] = 0] /\ left' = left \ {c},
         fifo' = fifo \/ \E s \in Sources :
                            /\ state[s] = "open"
                            /\ \E a \in {pics[s][i].addr : i \in Pictures(s)} \cup {Stray} :
                                 fifo' = fifo \cup {<<surface[s], a>>}
  PROVE  SurfaceInv'
<1>1. TypeOK /\ UNCHANGED <<state, surface, scaler, mixer, profile, pics>>
  BY DEF SurfaceInv, sourceVars
<1>2. shown' \in [Scalers -> Nat] /\ left' \subseteq Scalers
  BY <1>1 DEF TypeOK
<1>3. TypeOK'
  BY <1>1, <1>2 DEF TypeOK, IsPics
<1>4. \A c \in Scalers : shown'[c] # 0 => shown'[c] = shown[c] /\ (c \in left => c \in left')
  BY <1>1 DEF TypeOK
<1>5. SurfaceNamed' /\ ShownIsOpen' /\ OpenHasSurface'
  BY <1>1, <1>4
     DEF SurfaceInv, SurfaceNamed, ShownIsOpen, OpenHasSurface, Given, Region, Pictures
<1>6. ASSUME NEW q \in fifo'
      PROVE  q[1] \in Given /\ (q[2] # Stray => q[2] \in Region(q[1]))
  <2>1. CASE q \in fifo
    BY <2>1 DEF SurfaceInv, ShownIsGiven
  <2>2. CASE q \notin fifo
    <3>1. PICK s \in Sources :
            /\ state[s] = "open"
            /\ \E a \in {pics[s][i].addr : i \in Pictures(s)} \cup {Stray} : q = <<surface[s], a>>
      BY <1>6, <2>2
    <3>2. surface[s] \in Given
      BY <3>1 DEF SurfaceInv, SurfaceNamed, OpenHasSurface
    <3>3. \A i \in Pictures(s) : pics[s][i].addr \in Region(surface[s])
      BY <3>1 DEF SurfaceInv, OpenHasSurface
    <3> QED
      BY <3>1, <3>2, <3>3
  <2> QED
    BY <2>1, <2>2
<1>7. ShownIsGiven'
  BY <1>1, <1>4, <1>6 DEF SurfaceInv, ShownIsGiven, Given, Region
<1> QED
  BY <1>3, <1>5, <1>7 DEF SurfaceInv

LEMMA SurfaceNext == SurfaceInv /\ [Next]_vars => SurfaceInv'
<1> SUFFICES ASSUME SurfaceInv, [Next]_vars PROVE SurfaceInv'
  OBVIOUS
<1>0. TypeOK
  BY DEF SurfaceInv
<1>1. ASSUME NEW s \in Sources, NEW p \in Profiles, OpenOSD(s, p) PROVE SurfaceInv'
  BY <1>1, OpenOSDStep, SurfaceOpen
<1>2. ASSUME NEW s \in Sources, NEW p \in Profiles, NEW n \in Counts, OpenMultiple(s, p, n)
      PROVE  SurfaceInv'
  BY <1>2, OpenMultipleStep, SurfaceOpen
<1>3. ASSUME NEW c \in Scalers, ResetScaler(c) PROVE SurfaceInv'
  BY <1>0, <1>3, SurfaceOther, FaultType DEF ResetScaler, Shows, TypeOK
<1>4. ASSUME NEW s \in Sources, NEW c \in Scalers, SetSurfaceSource(s, c) PROVE SurfaceInv'
  BY <1>4, SurfaceSet
<1>5. ASSUME NEW s \in Sources, NEW on \in BOOLEAN, EnableSource(s, on) PROVE SurfaceInv'
  <2>1. enabled' \subseteq Main
    BY <1>0, <1>5 DEF EnableSource, TypeOK
  <2> QED
    BY <1>0, <1>5, <2>1, SurfaceOther, FaultType DEF EnableSource, TypeOK
<1>6. ASSUME NEW s \in Sources, InsertPicture(s) PROVE SurfaceInv'
  BY <1>0, <1>6, SurfaceOther, FaultType DEF InsertPicture, TypeOK
<1>7. ASSUME NEW s \in Sources, NEW i \in Pictures(s), ClearPicture(s, i) PROVE SurfaceInv'
  <2>1. content' \in [Memory -> Contents]
    BY <1>0, <1>7 DEF ClearPicture, Write, TypeOK, Contents
  <2> QED
    BY <1>0, <1>7, <2>1, SurfaceOther, FaultType DEF ClearPicture, TypeOK
<1>8. ASSUME NEW s \in Sources, NEW i \in Pictures(s), Draw(s, i) PROVE SurfaceInv'
  <2>1. content' \in [Memory -> Contents]
    BY <1>0, <1>8 DEF Draw, Write, TypeOK, Contents
  <2> QED
    BY <1>0, <1>8, <2>1, SurfaceOther, FaultType DEF Draw, TypeOK
<1>9. ASSUME NEW s \in Sources, CloseSource(s) PROVE SurfaceInv'
  BY <1>9, SurfaceClose
<1>10. CASE UNCHANGED vars
  BY <1>0, <1>10, SurfaceOther DEF vars, driverVars, TypeOK
<1> QED
  BY <1>1, <1>2, <1>3, <1>4, <1>5, <1>6, <1>7, <1>8, <1>9, <1>10 DEF Next

LEMMA SurfaceInit == Init => SurfaceInv
<1> SUFFICES ASSUME Init PROVE SurfaceInv
  OBVIOUS
<1>1. TypeOK
  <2>1. \A s \in Sources : pics[s] = NoPics
    BY DEF Init
  <2> QED
    BY <2>1, NoPicsType, DisplayAssumption DEF Init, TypeOK, Contents
<1> QED
  BY <1>1 DEF Init, SurfaceInv, SurfaceNamed, ShownIsGiven, ShownIsOpen, OpenHasSurface

LEMMA SurfaceHolds == Spec => []SurfaceInv
BY SurfaceInit, SurfaceNext, PTL DEF Spec

\* For all memories, sizes of pictures and failing calls: the variables keep their
\* types, and a source's mixer is known only while it is on a scaler that has one.
THEOREM DisplayTypeCorrect == Spec => []TypeOK
<1>1. SurfaceInv => TypeOK
  BY DEF SurfaceInv
<1> QED
  BY <1>1, SurfaceHolds, PTL

\* The chip shows only memory that is given out, and takes the pictures that were
\* inserted from their own surface, unless an index was past the end.
THEOREM ShownNeverFreed == Spec => []ShownIsGiven
<1>1. SurfaceInv => ShownIsGiven
  BY DEF SurfaceInv
<1> QED
  BY <1>1, SurfaceHolds, PTL

\* What a scaler shows belongs to an open source that knows the scaler, but for the
\* scalers whose source was set on another one.
THEOREM ShownNeverClosed == Spec => []ShownIsOpen
<1>1. SurfaceInv => ShownIsOpen
  BY DEF SurfaceInv
<1> QED
  BY <1>1, SurfaceHolds, PTL

-----------------------------------------------------------------------------
(* Where things are in the memory. *)

\* The header is at the beginning of the surface, the parts of the pictures behind it
\* and apart from those of other pictures: for n units got at a, sizes p and a
\* pic_info ps.
WellPlaced(a, n, p, ps) ==
  /\ Extent(a, n) \subseteq Memory
  /\ Extent(a, p.header) \subseteq Extent(a, n)
  /\ \A i \in DOMAIN ps : Parts(ps[i], p) \subseteq Extent(a, n) \ Extent(a, p.header)
  /\ \A i, j \in DOMAIN ps : i # j => Parts(ps[i], p) \cap Parts(ps[j], p) = {}

Placed ==
  \A s \in Sources : state[s] = "open" =>
    WellPlaced(surface[s], size[surface[s]], profile[s], pics[s])

\* Pieces of memory given out do not overlap.
Apart ==
  \A a, b \in Given : a # b => Extent(a, size[a]) \cap Extent(b, size[b]) = {}

LayoutInv == SurfaceInv /\ Apart /\ Placed /\ HeaderIntact

LEMMA ExtentInside ==
  ASSUME NEW a \in Nat, NEW m \in Nat, NEW b \in Nat, NEW n \in Nat, a <= b, b + n <= a + m
  PROVE  Extent(b, n) \subseteq Extent(a, m)
BY DEF Extent

LEMMA ExtentsApart ==
  ASSUME NEW a \in Nat, NEW m \in Nat, NEW b \in Nat, NEW n \in Nat, a + m <= b
  PROVE  Extent(a, m) \cap Extent(b, n) = {}
BY DEF Extent

LEMMA PicturesApart ==
  ASSUME NEW p \in Profiles, NEW a \in Memory, NEW i \in Nat, NEW j \in Nat, i < j
  PROVE  /\ PictureAddr(a, p, i) \in Nat /\ PictureAddr(a, p, j) \in Nat
         /\ PictureAddr(a, p, i) + p.size <= PictureAddr(a, p, j)
<1>1. a \in Nat /\ p.header \in Nat /\ p.size \in Nat
  BY ProfileShape, DisplayAssumption DEF Memory
<1> DEFINE q == i * p.size
           r == j * p.size
<1>2. q \in Nat /\ q + p.size <= p.size * j
  BY <1>1, TimesMore
<1>3. r \in Nat /\ r = p.size * j
  BY <1>1
<1>4. PictureAddr(a, p, i) = a + p.header + q /\ PictureAddr(a, p, j) = a + p.header + r
  BY DEF PictureAddr
<1> HIDE DEF q, r
<1> QED
  BY <1>1, <1>2, <1>3, <1>4

SameParts(f, g) == f.luma = g.luma /\ f.chroma = g.chroma

\* What both opens compute is well placed.
LEMMA Placing ==
  ASSUME NEW p \in Profiles, NEW a \in Memory, NEW n \in Nat, Fits(a, TotalSize(p, n)),
         NEW ps, DOMAIN ps = 0..(n - 1),
         \A i \in 0..(n - 1) : \E good \in BOOLEAN : SameParts(ps[i], Picture(a, p, i, good))
  PROVE  WellPlaced(a, TotalSize(p, n), p, ps)
<1>1. /\ a \in Nat \ {0} /\ p.header \in Nat \ {0} /\ p.size \in Nat \ {0}
      /\ p.luma \in Nat /\ p.chroma \in Nat /\ p.luma + p.chroma <= p.size
  BY ProfileShape, DisplayAssumption DEF Memory
<1> DEFINE t == TotalSize(p, n)
<1>2. t \in Nat \ {0} /\ p.header <= t /\ a + t - 1 <= MemorySize
  BY TotalPositive DEF Fits
<1>3. ASSUME NEW i \in 0..(n - 1)
      PROVE  /\ ps[i].luma = 0 \/ ps[i].luma = PictureAddr(a, p, i)
             /\ ps[i].chroma = 0 \/ ps[i].chroma = PictureAddr(a, p, i) + p.luma
  BY DEF Picture, SameParts
<1>4. ASSUME NEW i \in 0..(n - 1)
      PROVE  /\ PictureAddr(a, p, i) \in Nat /\ a + p.header <= PictureAddr(a, p, i)
             /\ PictureAddr(a, p, i) + p.size <= a + t
  BY PictureInside
<1> HIDE DEF t
<1>5. Extent(a, t) \subseteq Memory /\ Extent(a, p.header) \subseteq Extent(a, t)
  BY <1>1, <1>2, DisplayAssumption DEF Extent, Memory
<1>6. ASSUME NEW i \in 0..(n - 1)
      PROVE  /\ Extent(PictureAddr(a, p, i), p.size) \subseteq Extent(a, t) \ Extent(a, p.header)
             /\ Parts(ps[i], p) \subseteq Extent(PictureAddr(a, p, i), p.size)
  <2> DEFINE b == PictureAddr(a, p, i)
  <2>1. b \in Nat /\ a + p.header <= b /\ b + p.size <= a + t
    BY <1>4
  <2>2. /\ (ps[i].luma = 0 \/ ps[i].luma = b)
        /\ (ps[i].chroma = 0 \/ ps[i].chroma = b + p.luma)
    BY <1>3
  <2> HIDE DEF b
  <2>3. Extent(b, p.size) \subseteq Extent(a, t) \ Extent(a, p.header)
    <3>1. Extent(b, p.size) \subseteq Extent(a, t)
      <4>1. a <= b
        BY <1>1, <2>1
      <4> QED
        BY <1>1, <1>2, <2>1, <4>1, ExtentInside
    <3>2. Extent(a, p.header) \cap Extent(b, p.size) = {}
      BY <1>1, <2>1, ExtentsApart
    <3> QED
      BY <3>1, <3>2
  <2>4. Extent(b, p.luma) \subseteq Extent(b, p.size)
    <3>1. b <= b /\ b + p.luma <= b + p.size
      BY <1>1, <2>1
    <3> QED
      BY <1>1, <2>1, <3>1, ExtentInside
  <2>5. Extent(b + p.luma, p.chroma) \subseteq Extent(b, p.size)
    <3> DEFINE c == b + p.luma
    <3>1. c \in Nat /\ b <= c /\ c + p.chroma <= b + p.size
      BY <1>1, <2>1
    <3> HIDE DEF c
    <3>2. Extent(c, p.chroma) \subseteq Extent(b, p.size)
      BY <1>1, <2>1, <3>1, ExtentInside
    <3> QED
      BY <3>2 DEF c
  <2>6. Parts(ps[i], p) \subseteq Extent(b, p.size)
    BY <2>2, <2>4, <2>5 DEF Parts, Part
  <2> QED
    BY <2>3, <2>6 DEF b
<1>7. ASSUME NEW i \in 0..(n - 1), NEW j \in 0..(n - 1), i < j
      PROVE  Extent(PictureAddr(a, p, i), p.size) \cap Extent(PictureAddr(a, p, j), p.size) = {}
  <2>1. /\ PictureAddr(a, p, i) \in Nat /\ PictureAddr(a, p, j) \in Nat
        /\ PictureAddr(a, p, i) + p.size <= PictureAddr(a, p, j)
    BY <1>7, PicturesApart
  <2> QED
    BY <1>1, <2>1 DEF Extent
<1>8. ASSUME NEW i \in 0..(n - 1), NEW j \in 0..(n - 1), i # j
      PROVE  Parts(ps[i], p) \cap Parts(ps[j], p) = {}
  <2>1. i < j \/ j < i
    BY <1>8
  <2>2. Extent(PictureAddr(a, p, i), p.size) \cap Extent(PictureAddr(a, p, j), p.size) = {}
    BY <1>7, <2>1
  <2> QED
    BY <1>6, <2>2
<1>9. \A i \in 0..(n - 1) : Parts(ps[i], p) \subseteq Extent(a, t) \ Extent(a, p.header)
  BY <1>6
<1> QED
  BY <1>5, <1>8, <1>9 DEF WellPlaced, t

-----------------------------------------------------------------------------
(* The steps and the places. *)

\* What an open does to them: a header may be written in memory that was free.
OpenLayout(s) ==
  /\ \E st, a, p, ps :
       /\ NewSource(s, st, a, p, ps)
       /\ st = "open" => /\ WellPlaced(a, size'[a], p, ps)
                         /\ \A b \in Extent(a, p.header) : content'[b] = "header"
  /\ \A b \in Given : size'[b] = size[b]
  /\ Apart'
  /\ \A b \in Memory : content'[b] # content[b] =>
       content'[b] = "header" /\ \A g \in Given : b \notin Extent(g, size[g])

LEMMA ApartStays ==
  ASSUME Apart, size' = size PROVE Apart' /\ \A b \in Given : size'[b] = size[b]
BY DEF Apart, Given

LEMMA GivenApart ==
  ASSUME TypeOK, Apart, NEW a \in Memory, NEW n \in Nat \ {0}, Fits(a, n),
         size' = [size EXCEPT ![a] = n]
  PROVE  /\ Apart' /\ \A b \in Given : size'[b] = size[b]
         /\ size'[a] = n
<1>1. size'[a] = n /\ \A b \in Memory \ {a} : size'[b] = size[b]
  BY DEF TypeOK
<1>2. a \notin Given /\ Given' = Given \cup {a}
  BY <1>1 DEF Fits, Given
<1>3. \A b \in Given : size'[b] = size[b] /\ Extent(a, n) \cap Extent(b, size[b]) = {}
  BY <1>1, <1>2 DEF Fits, Given, Region
<1>4. ASSUME NEW b \in Given', NEW c \in Given', b # c
      PROVE  Extent(b, size'[b]) \cap Extent(c, size'[c]) = {}
  <2>1. CASE b # a /\ c # a
    <3>1. b \in Given /\ c \in Given
      BY <1>2, <2>1
    <3> QED
      BY <1>3, <1>4, <3>1 DEF Apart
  <2>2. CASE b = a
    <3>1. c \in Given
      BY <1>2, <1>4, <2>2
    <3> QED
      BY <1>1, <1>3, <2>2, <3>1
  <2>3. CASE c = a
    <3>1. b \in Given
      BY <1>2, <1>4, <2>3
    <3> QED
      BY <1>1, <1>3, <2>3, <3>1
  <2> QED
    BY <2>1, <2>2, <2>3
<1> QED
  BY <1>1, <1>3, <1>4 DEF Apart

LEMMA GivenBackApart ==
  ASSUME TypeOK, Apart, NEW a \in Memory, NEW n \in Nat \ {0}, Fits(a, n), GivenBack(a, n)
  PROVE  Apart' /\ \A b \in Given : size'[b] = size[b]
BY ApartStays, GivenApart DEF GivenBack

LEMMA HeaderWritten ==
  ASSUME TypeOK, NEW a \in Memory, NEW p \in Profiles, NEW n \in Nat,
         Fits(a, TotalSize(p, n)), Write(Extent(a, p.header), "header")
  PROVE  /\ \A b \in Extent(a, p.header) : content'[b] = "header"
         /\ \A b \in Memory : content'[b] # content[b] =>
              content'[b] = "header" /\ \A g \in Given : b \notin Extent(g, size[g])
<1>1. WellPlaced(a, TotalSize(p, n), p, [i \in 0..(n - 1) |-> Picture(a, p, i, TRUE)])
  BY Placing DEF SameParts
<1>2. /\ Extent(a, p.header) \subseteq Extent(a, TotalSize(p, n))
      /\ Extent(a, TotalSize(p, n)) \subseteq Memory
  BY <1>1 DEF WellPlaced
<1>3. \A g \in Given : Extent(a, TotalSize(p, n)) \cap Extent(g, size[g]) = {}
  BY DEF Fits, Region
<1>4. content' = [b \in Memory |-> IF b \in Extent(a, p.header) THEN "header" ELSE content[b]]
  BY DEF Write
<1> QED
  BY <1>2, <1>3, <1>4

LEMMA NothingWritten ==
  ASSUME content' = content
  PROVE  \A b \in Memory : content'[b] # content[b] =>
           content'[b] = "header" /\ \A g \in Given : b \notin Extent(g, size[g])
OBVIOUS

LEMMA EarlyLayout ==
  ASSUME LayoutInv, NEW s \in Sources, NEW p, NEW st \in {"none", "failed"},
         OpenFailsEarly(s, p, st)
  PROVE  OpenLayout(s)
<1>1. NewSource(s, st, 0, p, NoPics) /\ size' = size /\ content' = content /\ st # "open"
  BY DEF OpenFailsEarly, driverVars
<1>2. Apart' /\ \A b \in Given : size'[b] = size[b]
  BY <1>1, ApartStays DEF LayoutInv
<1> QED
  BY <1>1, <1>2, NothingWritten DEF OpenLayout

LEMMA OpenMultipleLayout ==
  ASSUME LayoutInv, NEW s \in Sources, NEW p \in Profiles, NEW n \in Counts,
         OpenMultiple(s, p, n)
  PROVE  OpenLayout(s)
<1>1. TypeOK /\ Apart /\ n \in Nat \ {0} /\ TotalSize(p, n) \in Nat \ {0}
  BY TotalPositive, DisplayAssumption DEF LayoutInv, SurfaceInv
<1> DEFINE t == TotalSize(p, n)
<1>2. CASE \E st \in {"none", "failed"} : OpenFailsEarly(s, p, st)
  BY <1>2, EarlyLayout
<1>3. ASSUME NEW a \in Memory, Fits(a, t), NEW bad \in SUBSET (0..(n - 1)),
             NewSource(s, "open", a, p, [i \in 0..(n - 1) |-> Picture(a, p, i, i \notin bad)]),
             size' = [size EXCEPT ![a] = t], Write(Extent(a, p.header), "header")
      PROVE  OpenLayout(s)
  <2> DEFINE ps == [i \in 0..(n - 1) |-> Picture(a, p, i, i \notin bad)]
  <2>1. DOMAIN ps = 0..(n - 1) /\ \A i \in 0..(n - 1) : \E good \in BOOLEAN : SameParts(ps[i], Picture(a, p, i, good))
    <3>1. \A i \in 0..(n - 1) : (i \notin bad) \in BOOLEAN /\ ps[i] = Picture(a, p, i, i \notin bad)
      OBVIOUS
    <3>2. DOMAIN ps = 0..(n - 1)
      OBVIOUS
    <3> HIDE DEF ps
    <3> QED
      BY <3>1, <3>2 DEF SameParts
  <2> HIDE DEF ps
  <2>2. WellPlaced(a, t, p, ps)
    BY <1>1, <1>3, <2>1, Placing
  <2>3. Apart' /\ (\A b \in Given : size'[b] = size[b]) /\ size'[a] = t
    BY <1>1, <1>3, GivenApart
  <2>4. /\ \A b \in Extent(a, p.header) : content'[b] = "header"
        /\ \A b \in Memory : content'[b] # content[b] =>
             content'[b] = "header" /\ \A g \in Given : b \notin Extent(g, size[g])
    BY <1>1, <1>3, HeaderWritten
  <2>5. NewSource(s, "open", a, p, ps)
    BY <1>3 DEF ps
  <2> HIDE DEF t
  <2> QED
    BY <2>2, <2>3, <2>4, <2>5 DEF OpenLayout
<1>4. ASSUME NEW a \in Memory, Fits(a, t), GivenBack(a, t), NEW ps,
             NewSource(s, "failed", 0, p, ps),
             UNCHANGED content \/ Write(Extent(a, p.header), "header")
      PROVE  OpenLayout(s)
  <2>1. Apart' /\ \A b \in Given : size'[b] = size[b]
    BY <1>1, <1>4, GivenBackApart
  <2>2. \A b \in Memory : content'[b] # content[b] =>
             content'[b] = "header" /\ \A g \in Given : b \notin Extent(g, size[g])
    BY <1>1, <1>4, HeaderWritten, NothingWritten
  <2> QED
    BY <1>4, <2>1, <2>2 DEF OpenLayout
<1> HIDE DEF t
<1> QED
  BY <1>2, <1>3, <1>4 DEF OpenMultiple, t

LEMMA OpenOSDLayout ==
  ASSUME LayoutInv, NEW s \in Sources, NEW p \in Profiles, OpenOSD(s, p)
  PROVE  OpenLayout(s)
<1>1. TypeOK /\ Apart /\ TotalSize(p, 1) \in Nat \ {0}
  BY TotalPositive DEF LayoutInv, SurfaceInv
<1> DEFINE t == TotalSize(p, 1)
<1>2. CASE \E st \in {"none", "failed"} : OpenFailsEarly(s, p, st)
  BY <1>2, EarlyLayout
<1>3. ASSUME NEW a \in Memory, Fits(a, t), size' = [size EXCEPT ![a] = t],
             UNCHANGED content \/ Write(Extent(a, p.header), "header")
      PROVE  /\ Apart' /\ (\A b \in Given : size'[b] = size[b]) /\ size'[a] = t
             /\ \A b \in Memory : content'[b] # content[b] =>
                  content'[b] = "header" /\ \A g \in Given : b \notin Extent(g, size[g])
  <2>1. Apart' /\ (\A b \in Given : size'[b] = size[b]) /\ size'[a] = t
    BY <1>1, <1>3, GivenApart
  <2>2. \A b \in Memory : content'[b] # content[b] =>
             content'[b] = "header" /\ \A g \in Given : b \notin Extent(g, size[g])
    BY <1>1, <1>3, HeaderWritten, NothingWritten
  <2> QED
    BY <2>1, <2>2
<1>4. ASSUME NEW a \in Memory, Fits(a, t), size' = [size EXCEPT ![a] = t],
             NewSource(s, "open", a, p, [i \in {0} |-> OSDPicture(a, p)]),
             Write(Extent(a, p.header), "header")
      PROVE  OpenLayout(s)
  <2> DEFINE ps == [i \in {0} |-> OSDPicture(a, p)]
  <2>1. DOMAIN ps = 0..(1 - 1) /\ \A i \in 0..(1 - 1) : \E good \in BOOLEAN : SameParts(ps[i], Picture(a, p, i, good))
    <3>1. 0..(1 - 1) = {0}
      OBVIOUS
    <3>2. DOMAIN ps = {0} /\ SameParts(ps[0], Picture(a, p, 0, TRUE))
      BY DEF SameParts, OSDPicture, Picture
    <3> HIDE DEF ps
    <3> QED
      BY <3>1, <3>2
  <2> HIDE DEF ps
  <2>2. WellPlaced(a, t, p, ps)
    BY <1>1, <1>4, <2>1, Placing
  <2>3. \A b \in Extent(a, p.header) : content'[b] = "header"
    BY <1>1, <1>4, HeaderWritten
  <2>4. NewSource(s, "open", a, p, ps)
    BY <1>4 DEF ps
  <2>5. /\ Apart' /\ (\A b \in Given : size'[b] = size[b]) /\ size'[a] = t
        /\ \A b \in Memory : content'[b] # content[b] =>
             content'[b] = "header" /\ \A g \in Given : b \notin Extent(g, size[g])
    BY <1>3, <1>4
  <2> HIDE DEF t
  <2> QED
    BY <2>2, <2>3, <2>4, <2>5 DEF OpenLayout
<1>5. ASSUME NEW a \in Memory, Fits(a, t), size' = [size EXCEPT ![a] = t],
             UNCHANGED content \/ Write(Extent(a, p.header), "header"),
             NewSource(s, "failed", a, p, NoPics) \/ NewSource(s, "none", 0, p, NoPics)
      PROVE  OpenLayout(s)
  <2>1. /\ Apart' /\ \A b \in Given : size'[b] = size[b]
        /\ \A b \in Memory : content'[b] # content[b] =>
             content'[b] = "header" /\ \A g \in Given : b \notin Extent(g, size[g])
    BY <1>3, <1>5
  <2>2. "failed" # "open" /\ "none" # "open"
    OBVIOUS
  <2> QED
    BY <1>5, <2>1, <2>2 DEF OpenLayout
<1> HIDE DEF t
<1> QED
  BY <1>2, <1>4, <1>5 DEF OpenOSD, t

\* What is known of an open source.
LEMMA OpenKnown ==
  ASSUME LayoutInv, NEW s \in Sources, state[s] = "open"
  PROVE  /\ surface[s] \in Given
         /\ WellPlaced(surface[s], size[surface[s]], profile[s], pics[s])
         /\ \A t \in Sources \ {s} : surface[t] # surface[s]
<1>1. surface[s] # 0
  BY DEF LayoutInv, SurfaceInv, OpenHasSurface
<1> QED
  BY <1>1 DEF LayoutInv, SurfaceInv, SurfaceNamed, Placed

LEMMA SurfacesApart ==
  ASSUME LayoutInv, NEW s \in Sources, NEW t \in Sources, s # t,
         state[s] = "open", state[t] = "open"
  PROVE  Extent(surface[s], size[surface[s]]) \cap Extent(surface[t], size[surface[t]]) = {}
<1>1. surface[s] \in Given /\ surface[t] \in Given /\ surface[s] # surface[t]
  BY OpenKnown
<1> QED
  BY <1>1 DEF LayoutInv, Apart

LEMMA PlacesApart ==
  ASSUME LayoutInv, NEW s \in Sources, NEW t \in Sources,
         state[s] = "open", state[t] = "open",
         NEW i \in Pictures(s), NEW j \in Pictures(t), <<s, i>> # <<t, j>>
  PROVE  Parts(pics[s][i], profile[s]) \cap Parts(pics[t][j], profile[t]) = {}
<1>1. /\ WellPlaced(surface[s], size[surface[s]], profile[s], pics[s])
      /\ WellPlaced(surface[t], size[surface[t]], profile[t], pics[t])
  BY OpenKnown
<1>2. CASE s = t
  <2>1. i # j
    BY <1>2
  <2> QED
    BY <1>1, <1>2, <2>1 DEF WellPlaced, Pictures
<1>3. CASE s # t
  <2>1. /\ Parts(pics[s][i], profile[s]) \subseteq Extent(surface[s], size[surface[s]])
        /\ Parts(pics[t][j], profile[t]) \subseteq Extent(surface[t], size[surface[t]])
    BY <1>1 DEF WellPlaced, Pictures
  <2> QED
    BY <1>3, <2>1, SurfacesApart
<1> QED
  BY <1>2, <1>3

LEMMA LayoutOpen ==
  ASSUME LayoutInv, SurfaceInv', NEW s \in Sources, state[s] = "none", OpenLayout(s)
  PROVE  LayoutInv' /\ OnePicture
<1>1. PICK st, a, p, ps :
        /\ NewSource(s, st, a, p, ps)
        /\ st = "open" => /\ WellPlaced(a, size'[a], p, ps)
                          /\ \A b \in Extent(a, p.header) : content'[b] = "header"
  BY DEF OpenLayout
<1>2. /\ \A b \in Given : size'[b] = size[b]
      /\ Apart'
      /\ \A b \in Memory : content'[b] # content[b] =>
           content'[b] = "header" /\ \A g \in Given : b \notin Extent(g, size[g])
  BY DEF OpenLayout
<1>3. TypeOK
  BY DEF LayoutInv, SurfaceInv
<1>4. /\ state'[s] = st /\ surface'[s] = a /\ profile'[s] = p /\ pics'[s] = ps
      /\ \A t \in Sources \ {s} : /\ state'[t] = state[t] /\ surface'[t] = surface[t]
                                  /\ profile'[t] = profile[t] /\ pics'[t] = pics[t]
  BY <1>1, <1>3 DEF NewSource, TypeOK
<1>5. ASSUME NEW t \in Sources, state'[t] = "open"
      PROVE  /\ WellPlaced(surface'[t], size'[surface'[t]], profile'[t], pics'[t])
             /\ \A b \in Extent(surface'[t], profile'[t].header) : content'[b] = "header"
  <2>1. CASE t = s
    BY <1>1, <1>4, <1>5, <2>1
  <2>2. CASE t # s
    <3>1. /\ state[t] = "open" /\ surface'[t] = surface[t]
          /\ profile'[t] = profile[t] /\ pics'[t] = pics[t]
      BY <1>4, <1>5, <2>2
    <3>2. surface[t] \in Given /\ WellPlaced(surface[t], size[surface[t]], profile[t], pics[t])
      BY <3>1, OpenKnown
    <3>3. size'[surface[t]] = size[surface[t]]
      BY <1>2, <3>2
    <3>4. ASSUME NEW b \in Extent(surface[t], profile[t].header) PROVE content'[b] = "header"
      <4>1. content[b] = "header"
        BY <3>1 DEF LayoutInv, HeaderIntact
      <4>2. b \in Memory
        BY <3>2 DEF WellPlaced
      <4> QED
        BY <1>2, <4>1, <4>2
    <3> QED
      BY <3>1, <3>2, <3>3, <3>4
  <2> QED
    BY <2>1, <2>2
<1>6. Placed' /\ HeaderIntact'
  BY <1>5 DEF Placed, HeaderIntact
<1>7. ASSUME NEW t \in Sources, NEW j \in Pictures(t), state[t] = "open",
             NEW b \in Parts(pics[t][j], profile[t])
      PROVE  content'[b] = content[b]
  <2>1. surface[t] \in Given /\ WellPlaced(surface[t], size[surface[t]], profile[t], pics[t])
    BY <1>7, OpenKnown
  <2>2. b \in Extent(surface[t], size[surface[t]]) /\ b \in Memory
    BY <2>1 DEF WellPlaced, Pictures
  <2> QED
    BY <1>2, <2>1, <2>2
<1>8. OnePicture
  BY <1>7 DEF OnePicture
<1> QED
  BY <1>2, <1>6, <1>8 DEF LayoutInv

\* The other steps keep surfaces where they are or close them, and write at most
\* one picture.
LEMMA LayoutKept ==
  ASSUME LayoutInv, SurfaceInv', size' = size,
         \A t \in Sources : state'[t] = "open" =>
           /\ state[t] = "open" /\ surface'[t] = surface[t]
           /\ profile'[t] = profile[t] /\ pics'[t] = pics[t],
         \/ content' = content
         \/ \E s \in Sources : \E i \in Pictures(s) :
              /\ state[s] = "open"
              /\ \A b \in Memory : content'[b] # content[b] =>
                   b \in Parts(pics[s][i], profile[s])
  PROVE  LayoutInv' /\ OnePicture
<1>1. Apart'
  BY ApartStays DEF LayoutInv
<1>2. Placed'
  BY DEF LayoutInv, Placed
<1>3. CASE content' = content
  <2>1. HeaderIntact'
    BY <1>3 DEF LayoutInv, HeaderIntact
  <2>2. OnePicture
    BY <1>3 DEF OnePicture
  <2> QED
    BY <1>1, <1>2, <2>1, <2>2 DEF LayoutInv
<1>4. ASSUME NEW s \in Sources, NEW i \in Pictures(s), state[s] = "open",
             \A b \in Memory : content'[b] # content[b] =>
               b \in Parts(pics[s][i], profile[s])
      PROVE  LayoutInv' /\ OnePicture
  <2>1. /\ Parts(pics[s][i], profile[s]) \subseteq
             Extent(surface[s], size[surface[s]]) \ Extent(surface[s], profile[s].header)
    BY <1>4, OpenKnown DEF WellPlaced, Pictures
  <2>2. ASSUME NEW t \in Sources, state'[t] = "open",
               NEW b \in Extent(surface'[t], profile'[t].header)
        PROVE  content'[b] = "header"
    <3>1. state[t] = "open" /\ surface'[t] = surface[t] /\ profile'[t] = profile[t]
      BY <2>2
    <3>2. b \in Extent(surface[t], profile[t].header) /\ content[b] = "header"
      BY <2>2, <3>1 DEF LayoutInv, HeaderIntact
    <3>3. b \in Extent(surface[t], size[surface[t]]) /\ b \in Memory
      BY <3>1, <3>2, OpenKnown DEF WellPlaced
    <3>4. b \notin Parts(pics[s][i], profile[s])
      <4>1. CASE s = t
        BY <2>1, <3>2, <4>1
      <4>2. CASE s # t
        BY <1>4, <2>1, <3>1, <3>3, <4>2, SurfacesApart
      <4> QED
        BY <4>1, <4>2
    <3> QED
      BY <1>4, <3>2, <3>3, <3>4
  <2>3. HeaderIntact'
    BY <2>2 DEF HeaderIntact
  <2>4. ASSUME NEW t \in Sources, NEW j \in Pictures(t), state[t] = "open",
               NEW b \in Parts(pics[t][j], profile[t]), content'[b] # content[b]
        PROVE  b \in Parts(pics[s][i], profile[s])
    <3>1. b \in Memory
      BY <2>4, OpenKnown DEF WellPlaced, Pictures
    <3> QED
      BY <1>4, <2>4, <3>1
  <2>5. ASSUME NEW t \in Sources, NEW j \in Pictures(t), state[t] = "open",
               \E b \in Parts(pics[t][j], profile[t]) : content'[b] # content[b]
        PROVE  t = s /\ j = i
    <3>1. PICK b \in Parts(pics[t][j], profile[t]) : content'[b] # content[b]
      BY <2>5
    <3>2. b \in Parts(pics[s][i], profile[s])
      BY <2>4, <2>5, <3>1
    <3>3. <<s, i>> = <<t, j>>
      BY <1>4, <2>5, <3>2, PlacesApart
    <3> QED
      BY <3>3
  <2>6. OnePicture
    <3> SUFFICES ASSUME NEW t \in Sources, NEW u \in Sources,
                        NEW j \in Pictures(t), NEW k \in Pictures(u),
                        state[t] = "open", state[u] = "open", <<t, j>> # <<u, k>>,
                        \E b \in Parts(pics[t][j], profile[t]) : content'[b] # content[b],
                        NEW c \in Parts(pics[u][k], profile[u])
                 PROVE  content'[c] = content[c]
      BY DEF OnePicture
    <3>1. t = s /\ j = i
      BY <2>5
    <3>2. ASSUME content'[c] # content[c] PROVE FALSE
      <4>1. u = s /\ k = i
        BY <2>5, <3>2
      <4> QED
        BY <3>1, <4>1
    <3> QED
      BY <3>2
  <2> QED
    BY <1>1, <1>2, <2>3, <2>6 DEF LayoutInv
<1> QED
  BY <1>3, <1>4

LEMMA ChromaInside ==
  ASSUME NEW s \in Sources, NEW i \in Pictures(s),
         profile[s].chroma = 0 \/ CanLock(pics[s][i].chroma)
  PROVE  Chroma(s, i) \subseteq Parts(pics[s][i], profile[s])
<1>1. CASE pics[s][i].chroma # 0
  BY <1>1 DEF Chroma, Parts, Part
<1>2. CASE pics[s][i].chroma = 0
  <2>1. profile[s].chroma = 0
    BY <1>2 DEF CanLock
  <2> QED
    BY <1>2, <2>1 DEF Chroma, Extent
<1> QED
  BY <1>1, <1>2

LEMMA LumaInside ==
  ASSUME NEW s \in Sources, NEW i \in Pictures(s), pics[s][i].luma # 0
  PROVE  Luma(s, i) \subseteq Parts(pics[s][i], profile[s])
BY DEF Luma, Parts, Part

LEMMA WrittenInside ==
  ASSUME LayoutInv, NEW s \in Sources, NEW i \in Pictures(s), ClearPicture(s, i) \/ Draw(s, i)
  PROVE  /\ state[s] = "open"
         /\ \A b \in Memory : content'[b] # content[b] =>
              b \in Parts(pics[s][i], profile[s])
<1>1. state[s] = "open"
  BY DEF ClearPicture, Draw
<1>2. CASE content' = content
  BY <1>1, <1>2
<1>3. CASE Draw(s, i) /\ content' # content
  <2>1. pics[s][i].luma # 0 /\ Write(Luma(s, i), "drawn")
    BY <1>3 DEF Draw, CanLock
  <2> QED
    BY <1>1, <2>1, LumaInside DEF Write
<1>4. CASE ClearPicture(s, i) /\ content' # content
  <2>1. profile[s].chroma = 0 \/ CanLock(pics[s][i].chroma)
    BY <1>4 DEF ClearPicture
  <2>2. Chroma(s, i) \subseteq Parts(pics[s][i], profile[s])
    BY <1>1, <2>1, ChromaInside
  <2> DEFINE luma == IF pics[s][i].luma = 0 THEN {} ELSE Luma(s, i)
  <2>3. luma \subseteq Parts(pics[s][i], profile[s])
    BY <1>1, LumaInside
  <2>4. \/ Write(Chroma(s, i), "chroma")
        \/ content' = [b \in Memory |-> IF b \in luma THEN "luma"
                                        ELSE IF b \in Chroma(s, i) THEN "chroma"
                                        ELSE content[b]]
    BY <1>4 DEF ClearPicture
  <2> HIDE DEF luma
  <2> QED
    BY <1>1, <2>2, <2>3, <2>4 DEF Write
<1> QED
  BY <1>2, <1>3, <1>4

LEMMA LayoutNext == LayoutInv /\ [Next]_vars => LayoutInv' /\ (OnePicture \/ UNCHANGED vars)
<1> SUFFICES ASSUME LayoutInv, [Next]_vars PROVE LayoutInv' /\ (OnePicture \/ UNCHANGED vars)
  OBVIOUS
<1>1. SurfaceInv' /\ SurfaceInv
  BY SurfaceNext DEF LayoutInv
<1>2. ASSUME NEW s \in Sources, NEW p \in Profiles,
             OpenOSD(s, p) \/ \E n \in Counts : OpenMultiple(s, p, n)
      PROVE  LayoutInv' /\ OnePicture
  <2>1. state[s] = "none"
    BY <1>2 DEF OpenOSD, OpenMultiple
  <2>2. OpenLayout(s)
    BY <1>2, OpenOSDLayout, OpenMultipleLayout
  <2> QED
    BY <1>1, <2>1, <2>2, LayoutOpen
<1>3. ASSUME size' = size, content' = content, UNCHANGED <<state, surface, profile, pics>>
      PROVE  LayoutInv' /\ OnePicture
  BY <1>1, <1>3, LayoutKept
<1>4. ASSUME NEW s \in Sources, NEW i \in Pictures(s), ClearPicture(s, i) \/ Draw(s, i)
      PROVE  LayoutInv' /\ OnePicture
  <2>1. size' = size /\ UNCHANGED <<state, surface, profile, pics>>
    BY <1>4 DEF ClearPicture, Draw, sourceVars
  <2> QED
    BY <1>1, <1>4, <2>1, WrittenInside, LayoutKept
<1>5. ASSUME NEW s \in Sources, CloseSource(s) PROVE LayoutInv' /\ OnePicture
  <2>1. size' = size /\ content' = content
    BY <1>5 DEF CloseSource
  <2>2. TypeOK
    BY <1>1 DEF SurfaceInv
  <2>3. ASSUME NEW t \in Sources, state'[t] = "open"
        PROVE  /\ state[t] = "open" /\ surface'[t] = surface[t]
               /\ profile'[t] = profile[t] /\ pics'[t] = pics[t]
    <3>1. CASE UNCHANGED sourceVars
      BY <2>3, <3>1 DEF sourceVars
    <3>2. CASE NewSource(s, "none", 0, profile[s], NoPics)
      BY <2>2, <2>3, <3>2 DEF NewSource, TypeOK
    <3> QED
      BY <1>5, <3>1, <3>2 DEF CloseSource
  <2> QED
    BY <1>1, <2>1, <2>3, LayoutKept
<1>6. ASSUME NEW c \in Scalers, ResetScaler(c) PROVE LayoutInv' /\ OnePicture
  BY <1>3, <1>6 DEF ResetScaler, sourceVars
<1>7. ASSUME NEW s \in Sources, NEW c \in Scalers, SetSurfaceSource(s, c)
      PROVE  LayoutInv' /\ OnePicture
  BY <1>3, <1>7 DEF SetSurfaceSource
<1>8. ASSUME NEW s \in Sources, NEW on \in BOOLEAN, EnableSource(s, on)
      PROVE  LayoutInv' /\ OnePicture
  BY <1>3, <1>8 DEF EnableSource, sourceVars
<1>9. ASSUME NEW s \in Sources, InsertPicture(s)
      PROVE  LayoutInv' /\ OnePicture
  BY <1>3, <1>9 DEF InsertPicture, sourceVars
<1>10. CASE UNCHANGED vars
  BY <1>3, <1>10 DEF vars, driverVars, sourceVars
<1> QED
  BY <1>2, <1>4, <1>5, <1>6, <1>7, <1>8, <1>9, <1>10 DEF Next

LEMMA LayoutInit == Init => LayoutInv
<1> SUFFICES ASSUME Init PROVE LayoutInv
  OBVIOUS
<1> QED
  BY SurfaceInit DEF Init, LayoutInv, Apart, Given, Placed, HeaderIntact

\* A structure's surface names memory that is given out, no two the same, whichever
\* step of an open failed; and the pictures of an open source lie on its own surface.
THEOREM SurfacesAccounted == Spec => []SurfaceAccounted
<1>1. LayoutInv => SurfaceAccounted
  <2> SUFFICES ASSUME LayoutInv PROVE SurfaceAccounted
    OBVIOUS
  <2>1. SurfaceNamed
    BY DEF LayoutInv, SurfaceInv
  <2>2. ASSUME NEW s \in Sources, state[s] = "open", NEW i \in Pictures(s)
        PROVE  /\ pics[s][i].addr \in Region(surface[s])
               /\ Parts(pics[s][i], profile[s]) \subseteq Region(surface[s])
    BY <2>2, OpenKnown DEF LayoutInv, SurfaceInv, OpenHasSurface, WellPlaced, Pictures, Region
  <2> QED
    BY <2>1, <2>2 DEF SurfaceAccounted, PicturesInside
<1>2. LayoutInv /\ [Next]_vars => LayoutInv'
  BY LayoutNext
<1> QED
  BY LayoutInit, <1>1, <1>2, PTL DEF Spec

\* The headers stay the driver's, whatever sizes it answers, however many pictures
\* there are and whichever of them could not be initialised.
THEOREM HeadersKept == Spec => []HeaderIntact
<1>1. LayoutInv => HeaderIntact
  BY DEF LayoutInv
<1>2. LayoutInv /\ [Next]_vars => LayoutInv'
  BY LayoutNext
<1> QED
  BY LayoutInit, <1>1, <1>2, PTL DEF Spec

\* No step writes in two pictures.
THEOREM PicturesSeparate == Spec => OnePictureAtATime
<1>1. LayoutInv /\ [Next]_vars => LayoutInv' /\ [OnePicture]_vars
  BY LayoutNext
<1> QED
  BY LayoutInit, <1>1, PTL DEF Spec, OnePictureAtATime

=============================================================================
