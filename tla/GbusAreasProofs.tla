--------------------------- MODULE GbusAreasProofs ---------------------------
(***************************************************************************)
(* Proofs about the table of mapped areas: set_memory fills any number of  *)
(* ranges, for a table and pages of any size, as long as none of them      *)
(* begins on a page boundary.                                              *)
(***************************************************************************)
EXTENDS GbusAreas, TLAPS

(* The table holds one mapping at a time, though in many slots.  What makes it *)
(* work is that the current one is always in the first slot: map takes every   *)
(* free slot, unmap clears the first that matches, and no entry that is left   *)
(* over from an earlier mapping can come before it.                            *)
Current ==
  ~aligned =>
    /\ pc # "idle" => req.offset # 0
    /\ pc = "fill" =>
         /\ base \in Pages /\ slots[1] = [page |-> base, pages |-> PagesOf(req)]
         /\ \A p \in Pages : user[p] = "region" => p \in Span(base, PagesOf(req))
    /\ pc # "fill" =>
         /\ slots[1] = NullSlot
         /\ \A p \in Pages : user[p] # "region"

\* Locks and refusals.
Answers ==
  /\ pc \in {"idle", "lock"} /\ faults = 0 /\ ~refused => ~locked
  /\ faults = 0 /\ ~aligned => ~refused

AreasInv == TypeOK /\ RegionsInTable /\ Current /\ Answers

-----------------------------------------------------------------------------
LEMMA DivBounds ==
  ASSUME NEW a \in Nat, NEW n \in Nat \ {0}
  PROVE  a \div n \in Nat /\ n * (a \div n) <= a /\ a < n * (a \div n) + n
OBVIOUS

LEMMA RequestShape ==
  ASSUME NEW r \in Requests
  PROVE  r.offset \in Nat /\ r.offset < PageSize /\ r.size \in Nat \ {0} /\ PageSize \in Nat \ {0}
BY AreasAssumption

\* The pages of a range hold it, and the last one holds some of it.
LEMMA PagesEnough ==
  ASSUME NEW r \in Requests
  PROVE  /\ PagesOf(r) \in Nat \ {0}
         /\ r.offset + r.size <= PageSize * PagesOf(r)
         /\ PageSize * PagesOf(r) < r.offset + r.size + PageSize
<1> DEFINE a == r.offset + r.size + PageSize - 1
<1>1. a \in Nat /\ PageSize \in Nat \ {0}
  BY RequestShape
<1>2. PagesOf(r) = a \div PageSize
  BY DEF PagesOf
<1>3. /\ PagesOf(r) \in Nat /\ PageSize * PagesOf(r) <= a
      /\ a < PageSize * PagesOf(r) + PageSize
  BY <1>1, <1>2, DivBounds
<1>4. r.offset \in Nat /\ r.size \in Nat \ {0}
  BY RequestShape
<1>5. PagesOf(r) # 0
  <2>1. ASSUME PagesOf(r) = 0 PROVE FALSE
    <3>1. PageSize * PagesOf(r) = 0
      BY <1>1, <2>1
    <3>2. a < 0 + PageSize
      BY <1>3, <3>1
    <3>3. a >= PageSize
      BY <1>1, <1>4
    <3> HIDE DEF a
    <3> QED
      BY <1>1, <3>2, <3>3
  <2> QED
    BY <2>1
<1> DEFINE q == PageSize * PagesOf(r)
<1>6. q \in Nat /\ q <= a /\ a < q + PageSize
  BY <1>1, <1>3
<1>7. r.offset + r.size <= q /\ q < r.offset + r.size + PageSize
  <2> HIDE DEF q
  <2> QED
    BY <1>1, <1>4, <1>6
<1> QED
  BY <1>3, <1>5, <1>7

\* A page number times the size of a page.
LEMMA PageTimes ==
  ASSUME NEW p \in Nat PROVE p * PageSize \in Nat /\ p * PageSize = PageSize * p
BY AreasAssumption

\* The first slot matches when the current mapping is in it.
LEMMA FirstMatches ==
  ASSUME TypeOK, base \in Pages, req.offset # 0,
         slots[1] = [page |-> base, pages |-> PagesOf(req)]
  PROVE  1 \in Matching /\ 1 \in Areas /\ \A j \in Areas : 1 <= j
<1>1. 1 \in Areas /\ \A j \in Areas : 1 <= j
  BY AreasAssumption DEF Areas
<1>2. base \in Nat /\ req \in Requests
  BY AreasAssumption DEF TypeOK
<1>3. /\ req.offset \in Nat \ {0} /\ req.offset < PageSize
      /\ req.size \in Nat \ {0} /\ PageSize \in Nat \ {0}
  BY <1>2, RequestShape
<1> DEFINE start == base * PageSize
           room == PagesOf(req) * PageSize
<1>4. start \in Nat
  BY <1>2, PageTimes
<1>5. /\ room \in Nat /\ req.offset + req.size <= room
      /\ room < req.offset + req.size + PageSize
  <2>1. PagesOf(req) \in Nat /\ room = PageSize * PagesOf(req) /\ room \in Nat
    BY <1>2, PagesEnough, PageTimes
  <2> QED
    BY <1>2, <2>1, PagesEnough
<1>6. Address = start + req.offset
  BY DEF Address
<1>7. slots[1].page * PageSize = start /\ slots[1].pages * PageSize = room
  OBVIOUS
<1> HIDE DEF start, room
<1>8. start < Address /\ Address - start < PageSize
  BY <1>3, <1>4, <1>6
<1>9. req.size <= room /\ room - req.size < 2 * PageSize
  BY <1>3, <1>5
<1> QED
  BY <1>1, <1>7, <1>8, <1>9 DEF Matching

LEMMA AlignedStays ==
  ASSUME AreasInv, UNCHANGED <<slots, user, locked, pc, req, base, refused, faults>>,
         aligned' \in BOOLEAN, ~aligned' => ~aligned
  PROVE  AreasInv'
<1>1. TypeOK'
  BY DEF AreasInv, TypeOK
<1>2. RegionsInTable'
  BY DEF AreasInv, RegionsInTable
<1>3. Current'
  BY DEF AreasInv, Current, Span, PagesOf
<1>4. Answers'
  BY DEF AreasInv, Answers
<1> QED
  BY <1>1, <1>2, <1>3, <1>4 DEF AreasInv

-----------------------------------------------------------------------------
(* The steps.  History says that a range on a boundary has begun. *)
History == aligned' = (aligned \/ (pc = "idle" /\ pc' = "lock" /\ req'.offset = 0))

LEMMA BeginStep ==
  ASSUME AreasInv, History, NEW r \in Requests, Begin(r)
  PROVE  AreasInv'
<1>1. TypeOK'
  BY DEF AreasInv, TypeOK, History, Begin
<1>2. RegionsInTable'
  BY DEF AreasInv, RegionsInTable, Begin
<1>3. Current'
  BY DEF AreasInv, Current, Begin, History, TypeOK
<1>4. Answers'
  BY DEF AreasInv, Answers, Begin, History
<1> QED
  BY <1>1, <1>2, <1>3, <1>4 DEF AreasInv

\* Steps that neither map nor unmap, and end outside of the write.
LEMMA QuietStep ==
  ASSUME AreasInv, History, UNCHANGED <<slots, user, req, base>>,
         pc # "fill", pc' \in {"idle", "check", "map"}, pc # "idle",
         locked' \in BOOLEAN, refused' \in BOOLEAN, faults' \in 0..MaxFaults,
         faults' = 0 => faults = 0,
         faults' = 0 /\ pc' = "idle" /\ ~refused' => ~locked',
         faults' = 0 /\ ~aligned => refused' = refused
  PROVE  AreasInv'
<1>1. TypeOK'
  BY DEF AreasInv, TypeOK, History
<1>2. RegionsInTable'
  BY DEF AreasInv, RegionsInTable
<1>3. Current'
  BY DEF AreasInv, Current, History, TypeOK
<1>4. Answers'
  BY DEF AreasInv, Answers, History
<1> QED
  BY <1>1, <1>2, <1>3, <1>4 DEF AreasInv

LEMMA FailsType ==
  ASSUME TypeOK, CallFails
  PROVE  /\ faults' \in 0..MaxFaults /\ faults' # 0 /\ refused' \in BOOLEAN /\ pc' = "idle"
         /\ UNCHANGED <<slots, user, req, base>>
BY AreasAssumption DEF CallFails, TypeOK

LEMMA LockStep ==
  ASSUME AreasInv, History, LockArea \/ CheckZone \/ MapFails
  PROVE  AreasInv'
<1>1. TypeOK
  BY DEF AreasInv
<1>2. CASE CallFails /\ UNCHANGED locked
  <2>1. pc \in {"lock", "check", "map"}
    BY DEF LockArea, CheckZone, MapFails
  <2> QED
    BY <1>1, <1>2, <2>1, FailsType, QuietStep DEF TypeOK
<1>3. CASE /\ pc \in {"lock", "check"} /\ pc' \in {"check", "map"} /\ locked' \in BOOLEAN
           /\ UNCHANGED <<slots, user, req, base, refused, faults>>
  <2>1. refused' \in BOOLEAN /\ faults' \in 0..MaxFaults /\ refused' = refused /\ faults' = faults
    BY <1>1, <1>3 DEF TypeOK
  <2>2. pc # "fill" /\ pc # "idle" /\ pc' # "idle" /\ pc' \in {"idle", "check", "map"}
    BY <1>3
  <2> QED
    BY <1>3, <2>1, <2>2, QuietStep
<1> QED
  BY <1>1, <1>2, <1>3 DEF LockArea, CheckZone, MapFails, TypeOK

LEMMA FullStep ==
  ASSUME AreasInv, History, TableFull
  PROVE  AreasInv'
<1>1. TypeOK /\ Current
  BY DEF AreasInv
<1>2. ASSUME ~aligned PROVE FALSE
  <2>1. slots[1] = NullSlot
    BY <1>1, <1>2 DEF TableFull, Current
  <2>2. 1 \in FreeSlots
    BY <2>1, AreasAssumption DEF FreeSlots, Areas, NullSlot
  <2> QED
    BY <2>2 DEF TableFull
<1> QED
  BY <1>1, <1>2, QuietStep DEF TableFull, TypeOK

LEMMA MapStep ==
  ASSUME AreasInv, History, NEW p \in Pages, MapRegion(p)
  PROVE  AreasInv'
<1>1. TypeOK /\ req \in Requests /\ p \in Nat \ {0}
  BY AreasAssumption DEF AreasInv, TypeOK
<1>2. PagesOf(req) \in Nat \ {0}
  BY <1>1, PagesEnough
<1> DEFINE n == PagesOf(req)
           entry == [page |-> p, pages |-> n]
<1>3. /\ slots' = [i \in Areas |-> IF i \in FreeSlots THEN entry ELSE slots[i]]
      /\ user' = [x \in Pages |-> IF x \in Span(p, n) THEN "region" ELSE user[x]]
      /\ base' = p /\ pc' = "fill" /\ pc = "map"
      /\ FreeSlots # {}
      /\ UNCHANGED <<locked, req, refused, faults>>
  BY DEF MapRegion
<1>4. PagesOf(req)' = n
  BY <1>3 DEF PagesOf
<1> HIDE DEF n
<1>5. n \in Nat \ {0}
  BY <1>2 DEF n
<1>6. aligned' = aligned
  BY <1>3 DEF History, AreasInv, TypeOK
<1>7. TypeOK'
  <2>1. slots' \in [Areas -> [page : Pages \cup {0}, pages : Nat]]
    BY <1>1, <1>3, <1>5 DEF TypeOK
  <2>2. \A i \in Areas : slots'[i].page = 0 <=> slots'[i].pages = 0
    BY <1>1, <1>3, <1>5 DEF TypeOK
  <2>3. user' \in [Pages -> {"nobody", "region", "other"}]
    BY <1>1, <1>3 DEF TypeOK
  <2> QED
    BY <1>1, <1>3, <1>6, <2>1, <2>2, <2>3 DEF TypeOK
<1>8. RegionsInTable'
  <2>1. PICK k \in Areas : k \in FreeSlots
    BY <1>3 DEF FreeSlots
  <2>2. ASSUME NEW x \in Pages, user'[x] = "region"
        PROVE  \E i \in Areas : x \in Span(slots'[i].page, slots'[i].pages)
    <3>1. CASE x \in Span(p, n)
      BY <1>3, <2>1, <3>1
    <3>2. CASE x \notin Span(p, n)
      <4>1. user[x] = "region"
        BY <1>3, <2>2, <3>2
      <4>2. PICK i \in Areas : x \in Span(slots[i].page, slots[i].pages)
        BY <4>1 DEF AreasInv, RegionsInTable
      <4>3. slots[i].page # 0
        <5>1. ASSUME slots[i].page = 0 PROVE FALSE
          <6>1. slots[i].pages = 0
            BY <1>1, <5>1 DEF TypeOK
          <6> QED
            BY <4>2, <5>1, <6>1 DEF Span
        <5> QED
          BY <5>1
      <4>4. slots'[i] = slots[i]
        BY <1>3, <4>3 DEF FreeSlots
      <4> QED
        BY <4>2, <4>4
    <3> QED
      BY <3>1, <3>2
  <2> QED
    BY <2>2 DEF RegionsInTable
<1>9. Current'
  <2>1. ASSUME ~aligned PROVE /\ req.offset # 0 /\ slots'[1] = entry
                              /\ \A x \in Pages : user'[x] = "region" => x \in Span(p, n)
    <3>1. slots[1] = NullSlot /\ req.offset # 0 /\ \A x \in Pages : user[x] # "region"
      BY <1>3, <2>1 DEF AreasInv, Current
    <3>2. 1 \in FreeSlots /\ 1 \in Areas
      BY <3>1, AreasAssumption DEF FreeSlots, Areas, NullSlot
    <3> QED
      BY <1>3, <3>1, <3>2
  <2> QED
    BY <1>3, <1>4, <1>6, <2>1 DEF Current
<1>10. Answers'
  BY <1>3, <1>6 DEF AreasInv, Answers
<1> QED
  BY <1>7, <1>8, <1>9, <1>10 DEF AreasInv

LEMMA UnmapStep ==
  ASSUME AreasInv, History, UnmapRegion
  PROVE  AreasInv'
<1>1. TypeOK /\ req \in Requests
  BY DEF AreasInv, TypeOK
<1>2. /\ pc = "fill" /\ pc' = "unlock" /\ base' = 0
      /\ UNCHANGED <<locked, req, refused, faults>>
  BY DEF UnmapRegion
<1>3. aligned' = aligned
  BY <1>2 DEF History, AreasInv, TypeOK
<1>4. Answers'
  BY <1>2, <1>3 DEF AreasInv, Answers
<1>5. CASE Matching = {} /\ UNCHANGED <<user, slots>>
  <2>1. TypeOK'
    BY <1>1, <1>2, <1>3, <1>5 DEF TypeOK
  <2>2. RegionsInTable'
    BY <1>5 DEF AreasInv, RegionsInTable
  <2>3. aligned
    <3>1. ASSUME ~aligned PROVE FALSE
      BY <1>1, <1>2, <1>5, <3>1, FirstMatches DEF AreasInv, Current
    <3> QED
      BY <3>1
  <2>4. Current'
    BY <1>3, <2>3 DEF Current
  <2> QED
    BY <1>4, <2>1, <2>2, <2>4 DEF AreasInv
<1>6. ASSUME NEW i \in Matching, \A j \in Matching : i <= j,
             user' = [x \in Pages |->
                        IF x \in Span(slots[i].page, slots[i].pages) THEN "nobody" ELSE user[x]],
             slots' = [slots EXCEPT ![i] = NullSlot]
      PROVE  AreasInv'
  <2>1. i \in Areas
    BY DEF Matching
  <2>2. slots'[i] = NullSlot /\ \A j \in Areas \ {i} : slots'[j] = slots[j]
    BY <1>1, <1>6, <2>1 DEF TypeOK
  <2>3. TypeOK'
    <3>1. slots' \in [Areas -> [page : Pages \cup {0}, pages : Nat]]
      BY <1>1, <1>6 DEF TypeOK, NullSlot
    <3>2. \A j \in Areas : slots'[j].page = 0 <=> slots'[j].pages = 0
      BY <1>1, <2>2 DEF TypeOK, NullSlot
    <3>3. user' \in [Pages -> {"nobody", "region", "other"}]
      BY <1>1, <1>6 DEF TypeOK
    <3> QED
      BY <1>1, <1>2, <1>3, <3>1, <3>2, <3>3 DEF TypeOK
  <2>4. ASSUME NEW x \in Pages, user'[x] = "region"
        PROVE  user[x] = "region" /\ x \notin Span(slots[i].page, slots[i].pages)
    BY <1>6, <2>4
  <2>5. RegionsInTable'
    <3>1. ASSUME NEW x \in Pages, user'[x] = "region"
          PROVE  \E j \in Areas : x \in Span(slots'[j].page, slots'[j].pages)
      <4>1. PICK j \in Areas : x \in Span(slots[j].page, slots[j].pages)
        BY <2>4, <3>1 DEF AreasInv, RegionsInTable
      <4>2. j # i
        BY <2>4, <3>1, <4>1
      <4> QED
        BY <2>2, <4>1, <4>2
    <3> QED
      BY <3>1 DEF RegionsInTable
  <2>6. ASSUME ~aligned
        PROVE  /\ req.offset # 0 /\ slots'[1] = NullSlot /\ \A x \in Pages : user'[x] # "region"
    <3>1. /\ req.offset # 0 /\ base \in Pages /\ slots[1] = [page |-> base, pages |-> PagesOf(req)]
          /\ \A x \in Pages : user[x] = "region" => x \in Span(base, PagesOf(req))
      BY <1>2, <2>6 DEF AreasInv, Current
    <3>2. 1 \in Matching /\ \A j \in Areas : 1 <= j
      BY <1>1, <3>1, FirstMatches
    <3>3. i = 1
      <4>1. i <= 1 /\ 1 <= i /\ i \in Nat
        BY <1>6, <2>1, <3>2 DEF Areas
      <4> QED
        BY <4>1
    <3> QED
      BY <2>2, <2>4, <3>1, <3>3
  <2>7. Current'
    BY <1>2, <1>3, <2>6 DEF Current
  <2> QED
    BY <1>4, <2>3, <2>5, <2>7 DEF AreasInv
<1> QED
  BY <1>5, <1>6 DEF UnmapRegion

LEMMA UnlockStep ==
  ASSUME AreasInv, History, UnlockArea
  PROVE  AreasInv'
<1>1. TypeOK /\ pc = "unlock" /\ UNCHANGED <<slots, user, req, base>> /\ pc' = "idle"
  BY DEF AreasInv, UnlockArea, CallFails, UnlockUnnoticed
<1>2. CASE locked' = FALSE /\ UNCHANGED <<refused, faults>>
  BY <1>1, <1>2, QuietStep DEF TypeOK
<1>3. CASE CallFails /\ locked' \in {locked, FALSE}
  BY <1>1, <1>3, FailsType, QuietStep DEF TypeOK
<1>4. CASE UnlockUnnoticed
  <2>1. faults' \in 0..MaxFaults /\ faults' # 0 /\ UNCHANGED <<locked, refused>>
    BY <1>1, <1>4, AreasAssumption DEF UnlockUnnoticed, TypeOK
  <2> QED
    BY <1>1, <2>1, QuietStep DEF TypeOK
<1> QED
  BY <1>1, <1>2, <1>3, <1>4 DEF UnlockArea

LEMMA OtherStep ==
  ASSUME AreasInv, History, NEW p \in Pages, OtherMaps(p) \/ OtherUnmaps(p)
  PROVE  AreasInv'
<1>1. TypeOK /\ UNCHANGED <<slots, locked, pc, req, base, refused, faults>>
  BY DEF AreasInv, OtherMaps, OtherUnmaps
<1>2. aligned' = aligned
  BY <1>1 DEF History, TypeOK
<1>3. user' \in [Pages -> {"nobody", "region", "other"}]
  BY <1>1 DEF OtherMaps, OtherUnmaps, TypeOK
<1>4. \A x \in Pages : user'[x] = "region" => user[x] = "region"
  BY <1>1 DEF OtherMaps, OtherUnmaps, TypeOK
<1>5. TypeOK'
  BY <1>1, <1>2, <1>3 DEF TypeOK
<1>6. RegionsInTable'
  BY <1>1, <1>4 DEF AreasInv, RegionsInTable
<1>7. Current'
  <2>1. PagesOf(req)' = PagesOf(req)
    BY <1>1 DEF PagesOf
  <2> QED
    BY <1>1, <1>2, <1>4, <2>1 DEF AreasInv, Current
<1>8. Answers'
  BY <1>1, <1>2 DEF AreasInv, Answers
<1> QED
  BY <1>5, <1>6, <1>7, <1>8 DEF AreasInv

LEMMA AreasNext == AreasInv /\ [Next]_vars => AreasInv'
<1> SUFFICES ASSUME AreasInv, [Next]_vars PROVE AreasInv'
  OBVIOUS
<1>1. CASE UNCHANGED vars
  BY <1>1, AlignedStays DEF vars, AreasInv, TypeOK
<1>2. ASSUME Next PROVE History
  BY <1>2 DEF Next, History
<1>3. ASSUME Next, SetMemory PROVE AreasInv'
  BY <1>2, <1>3, BeginStep, LockStep, FullStep, MapStep, UnmapStep, UnlockStep DEF SetMemory
<1>4. ASSUME Next, NEW p \in Pages, OtherMaps(p) \/ OtherUnmaps(p) PROVE AreasInv'
  BY <1>2, <1>4, OtherStep
<1> QED
  BY <1>1, <1>3, <1>4 DEF Next

LEMMA AreasInit == Init => AreasInv
<1> SUFFICES ASSUME Init PROVE AreasInv
  OBVIOUS
<1>1. 1 \in Areas /\ 0 \in 0..MaxFaults
  BY AreasAssumption DEF Areas
<1>2. TypeOK
  BY <1>1 DEF Init, TypeOK, NullSlot
<1>3. RegionsInTable /\ Answers
  BY DEF Init, RegionsInTable, Answers
<1>4. Current
  BY <1>1 DEF Init, Current
<1> QED
  BY <1>2, <1>3, <1>4 DEF AreasInv

LEMMA AreasHolds == Spec => []AreasInv
BY AreasInit, AreasNext, PTL DEF Spec

\* The slots of struct GBUS and the variables of the calls keep their types; a slot
\* names a mapping and its size, or neither.
THEOREM AreasTypeCorrect == Spec => []TypeOK
<1>1. AreasInv => TypeOK
  BY DEF AreasInv
<1> QED
  BY <1>1, AreasHolds, PTL

\* No mapping of a range is ever lost from the table, whatever the ranges and
\* whichever call failed.
THEOREM MappedIsKnown == Spec => []RegionsInTable
<1>1. AreasInv => RegionsInTable
  BY DEF AreasInv
<1> QED
  BY <1>1, AreasHolds, PTL

\* Between two fills no page of a range that begins inside a page is mapped, however
\* many were filled before and whichever call failed; and no area is locked as long as
\* no call has failed.
THEOREM FillsLeaveNothing == Spec => []NothingLeftBehind
<1>1. AreasInv => NothingLeftBehind
  BY DEF AreasInv, Current, Answers, NothingLeftBehind, NothingLeftMapped, LocksReturned
<1> QED
  BY <1>1, AreasHolds, PTL

\* ... and the next one is never refused while no call of the driver fails.
THEOREM FillsSucceed == Spec => []InsideFillSucceeds
<1>1. AreasInv => InsideFillSucceeds
  BY DEF AreasInv, Answers, InsideFillSucceeds, FillSucceeds
<1> QED
  BY <1>1, AreasHolds, PTL

=============================================================================
