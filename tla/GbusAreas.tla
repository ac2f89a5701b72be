----------------------------- MODULE GbusAreas ------------------------------
(***************************************************************************)
(* The table of mapped memory areas of libllad (struct GBUS), the calls of *)
(* librua that lock, map, unmap and unlock a range of the device's memory, *)
(* and set_memory of libdcc, which fills a picture with them one range     *)
(* after the other.                                                        *)
(*                                                                         *)
(* Addresses are natural numbers; address 0 is NULL.  The kernel driver    *)
(* (which areas hold a range, locks) and mmap (where a mapping is placed)  *)
(* are external: mmap may choose any free pages, and other parts of the    *)
(* process map and unmap pages too.                                        *)
(***************************************************************************)
EXTENDS Naturals, FiniteSets

CONSTANTS
  NumberOfAreas, \* numberOfAreas: slots of the table
  PageSize,      \* PAGSIZE
  Pages,         \* the pages mmap can place a mapping on, 1..n
  Requests,      \* ranges to fill: [offset |-> in the first page, size |-> ...]
  MaxFaults      \* failing driver calls in a behaviour, a bound for TLC

ASSUME AreasAssumption ==
  /\ NumberOfAreas \in Nat \ {0} /\ PageSize \in Nat \ {0} /\ MaxFaults \in Nat
  /\ Pages \subseteq Nat \ {0}
  /\ Requests \subseteq [offset : 0..(PageSize - 1), size : Nat \ {0}]

VARIABLES
  slots,   \* slots[i]: areaaddress (as a page, 0 for NULL) and areasize, in pages
  user,    \* user[p]: who has page p mapped
  locked,  \* the areas of the current range are locked
  pc,      \* where set_memory is
  req,     \* the range it fills
  base,    \* the page its mapping starts on, 0 for none
  refused, \* some set_memory call has returned an error
  faults,  \* driver calls that failed so far
  aligned  \* history: some range to fill began on a page boundary

vars == <<slots, user, locked, pc, req, base, refused, faults, aligned>>

Areas == 1..NumberOfAreas
NullSlot == [page |-> 0, pages |-> 0]
FreeSlots == {i \in Areas : slots[i].page = 0}
Span(page, n) == page..(page + n - 1)

\* LLAD_MAP_AREA: the pages of the areas that hold the range.
PagesOf(r) == (r.offset + r.size + PageSize - 1) \div PageSize

TypeOK ==
  /\ slots \in [Areas -> [page : Pages \cup {0}, pages : Nat]]
  /\ \A i \in Areas : slots[i].page = 0 <=> slots[i].pages = 0
  /\ user \in [Pages -> {"nobody", "region", "other"}]
  /\ locked \in BOOLEAN
  /\ pc \in {"idle", "lock", "check", "map", "fill", "unlock"}
  /\ req \in Requests
  /\ base \in Pages \cup {0}
  /\ refused \in BOOLEAN
  /\ faults \in 0..MaxFaults
  /\ aligned \in BOOLEAN

-----------------------------------------------------------------------------
(* gbus_open: an empty table. *)
Init ==
  /\ slots = [i \in Areas |-> NullSlot]
  /\ user = [p \in Pages |-> "nobody"]
  /\ locked = FALSE
  /\ pc = "idle"
  /\ req \in Requests
  /\ base = 0
  /\ refused = FALSE
  /\ faults = 0
  /\ aligned = FALSE

\* set_memory is called, or takes the next part of a large picture.
Begin(r) ==
  /\ pc = "idle"
  /\ req' = r
  /\ pc' = "lock"
  /\ UNCHANGED <<slots, user, locked, base, refused, faults>>

\* A failing driver call makes set_memory return an error where it stands.
CallFails ==
  /\ faults < MaxFaults
  /\ faults' = faults + 1
  /\ refused' = TRUE
  /\ pc' = "idle"
  /\ UNCHANGED <<slots, user, req, base>>

\* gbus_lock_area, the first half of RUALock.
LockArea ==
  /\ pc = "lock"
  /\ \/ /\ locked' = TRUE
        /\ pc' = "check"
        /\ UNCHANGED <<refused, faults, slots, user, req, base>>
     \/ CallFails /\ UNCHANGED locked

\* The second half of RUALock: is the range in the secure zone, and may it be
\* locked there.  On an error the areas stay locked.
CheckZone ==
  /\ pc = "check"
  /\ \/ pc' = "map" /\ UNCHANGED <<refused, faults, slots, user, req, base>>
     \/ CallFails
  /\ UNCHANGED locked

Placements(n) ==
  {p \in Pages : Span(p, n) \subseteq Pages /\ \A x \in Span(p, n) : user[x] = "nobody"}

\* RUAMap.  gbus_map_region notes the mapping in every slot that is free.
MapRegion(p) ==
  /\ pc = "map"
  /\ FreeSlots # {}
  /\ p \in Placements(PagesOf(req))
  /\ user' = [x \in Pages |-> IF x \in Span(p, PagesOf(req)) THEN "region" ELSE user[x]]
  /\ slots' = [i \in Areas |-> IF i \in FreeSlots
                                 THEN [page |-> p, pages |-> PagesOf(req)]
                                 ELSE slots[i]]
  /\ base' = p
  /\ pc' = "fill"
  /\ UNCHANGED <<locked, req, refused, faults>>

\* No slot is free: set_memory returns RM_ERROR.
TableFull ==
  /\ pc = "map"
  /\ FreeSlots = {}
  /\ refused' = TRUE
  /\ pc' = "idle"
  /\ UNCHANGED <<slots, user, locked, req, base, faults>>

\* LLAD_GET_AREA, LLAD_MAP_AREA or mmap fails; mmap also when no pages are free.
MapFails ==
  /\ pc = "map"
  /\ CallFails
  /\ UNCHANGED locked

Address == base * PageSize + req.offset

\* The slots gbus_unmap_region takes for the mapping that Address lies in: one
\* that begins less than a page below it and is less than two pages larger.
\* The address of the first byte of a mapping lies in none.
Matching ==
  {i \in Areas :
     LET start == slots[i].page * PageSize
         room == slots[i].pages * PageSize
     IN  /\ start < Address /\ Address - start < PageSize
         /\ req.size <= room /\ room - req.size < 2 * PageSize}

\* Faulty (see RuaPool): the slot is not cleared.
UnmapKeepsSlot ==
  /\ pc = "fill"
  /\ user' = [x \in Pages |-> IF x \in Span(base, PagesOf(req)) THEN "nobody" ELSE user[x]]
  /\ base' = 0
  /\ pc' = "unlock"
  /\ UNCHANGED <<slots, locked, req, refused, faults>>

\* Faulty: the mapping is forgotten but not unmapped.
UnmapForgotten ==
  /\ pc = "fill"
  /\ slots' = [i \in Areas |->
                 IF i \in Matching /\ \A j \in Matching : i <= j THEN NullSlot ELSE slots[i]]
  /\ base' = 0
  /\ pc' = "unlock"
  /\ UNCHANGED <<user, locked, req, refused, faults>>

\* RUAUnMap, after the range was written: the first matching slot is unmapped
\* and cleared.  If there is none a message is printed, and that is all.
UnmapRegion ==
  /\ pc = "fill"
  /\ \/ \E i \in Matching :
          /\ \A j \in Matching : i <= j
          /\ user' = [x \in Pages |->
                        IF x \in Span(slots[i].page, slots[i].pages) THEN "nobody" ELSE user[x]]
          /\ slots' = [slots EXCEPT ![i] = NullSlot]
     \/ Matching = {} /\ UNCHANGED <<user, slots>>
  /\ base' = 0
  /\ pc' = "unlock"
  /\ UNCHANGED <<locked, req, refused, faults>>

\* A failing LLAD_UNLOCK_AREA is not looked at.
UnlockUnnoticed ==
  /\ faults < MaxFaults
  /\ faults' = faults + 1
  /\ pc' = "idle"
  /\ UNCHANGED <<slots, user, locked, req, base, refused>>

\* Faulty: RUAUnLock looks the zone up before it unlocks the areas.
UnlockLate ==
  /\ pc = "unlock"
  /\ \/ /\ pc' = "idle"
        /\ UNCHANGED <<refused, faults, slots, user, req, base>>
     \/ CallFails
  /\ UNCHANGED locked

\* RUAUnLock: the areas are looked up and unlocked; a failure of the look-up
\* leaves them locked, one of the zone comes after they are unlocked.
UnlockArea ==
  /\ pc = "unlock"
  /\ \/ /\ pc' = "idle" /\ locked' = FALSE
        /\ UNCHANGED <<refused, faults, slots, user, req, base>>
     \/ CallFails /\ locked' \in {locked, FALSE}
     \/ UnlockUnnoticed

\* The rest of the process maps and unmaps memory of its own, a dmapool say.
OtherMaps(p) ==
  /\ user[p] = "nobody"
  /\ user' = [user EXCEPT ![p] = "other"]
  /\ UNCHANGED <<slots, locked, pc, req, base, refused, faults>>

OtherUnmaps(p) ==
  /\ user[p] = "other"
  /\ user' = [user EXCEPT ![p] = "nobody"]
  /\ UNCHANGED <<slots, locked, pc, req, base, refused, faults>>

SetMemory ==
  \/ \E r \in Requests : Begin(r)
  \/ LockArea \/ CheckZone
  \/ \E p \in Pages : MapRegion(p)
  \/ TableFull \/ MapFails
  \/ UnmapRegion \/ UnlockArea

Next ==
  /\ SetMemory \/ \E p \in Pages : OtherMaps(p) \/ OtherUnmaps(p)
  /\ aligned' = (aligned \/ (pc = "idle" /\ pc' = "lock" /\ req'.offset = 0))

Spec == Init /\ [][Next]_vars

-----------------------------------------------------------------------------
\* set_memory never fails on its own: as long as every driver call and mmap
\* succeed, each picture is filled, however many were filled before.
FillSucceeds == faults = 0 => ~refused

\* The same as long as no range has begun on a page boundary.
InsideFillSucceeds == ~aligned => FillSucceeds

\* Outside of the write nothing stays mapped, whichever call failed, if no range has
\* begun on a page boundary: the entries that earlier mappings left behind in the table
\* never hide the current one from gbus_unmap_region.
NothingLeftMapped == pc # "fill" /\ ~aligned => \A p \in Pages : user[p] # "region"

\* Whatever the ranges and whichever call failed, each page that is mapped for a
\* range is noted in the table: gbus_close could still unmap it.
RegionsInTable ==
  \A p \in Pages : user[p] = "region" =>
    \E i \in Areas : p \in Span(slots[i].page, slots[i].pages)

\* Between two ranges no area is locked, as long as no call, of the driver or of
\* set_memory, has failed.
LocksReturned == pc = "idle" /\ faults = 0 /\ ~refused => ~locked

\* A fill leaves no mapping behind, and no lock either as long as no call has failed:
\* after a failing RUALock or RUAMap areas do stay locked (rua.c:397).
NothingLeftBehind == NothingLeftMapped /\ LocksReturned

=============================================================================
