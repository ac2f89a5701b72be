------------------------------- MODULE Display -------------------------------
(***************************************************************************)
(* The on-screen display of libdcc: sources whose pictures a program draws *)
(* itself.  A source has one surface, a piece of the chip's memory with a  *)
(* header the driver keeps and the pictures behind it; a scaler shows the  *)
(* surface set on it.  smptest is the client.                              *)
(*                                                                         *)
(* One client makes one call at a time, so a call is one step; what can go *)
(* wrong is that any of the driver calls and allocations in it fails, and  *)
(* the library returns with what it has done until then.                   *)
(***************************************************************************)
EXTENDS Naturals, FiniteSets

CONSTANTS
  Sources,    \* the handles of the client
  Scalers, Main,  \* the scalers, and those DCCSetSurfaceSource knows the mixer of
  Profiles,   \* what the driver answers of the sizes: see SizesOK
  Counts,     \* the numbers of pictures asked for
  MemorySize, \* the chip's memory: addresses 1 to MemorySize
  MaxFaults,  \* failing calls in a behaviour, a bound for TLC
  MaxQueued,  \* different pictures inserted in a behaviour, another
  None        \* no scaler

\* header: surface_size; size: of a picture, with its luma and chroma parts.
SizesOK(p) ==
  /\ p \in [header : Nat \ {0}, size : Nat \ {0}, luma : Nat, chroma : Nat]
  /\ p.luma + p.chroma <= p.size

ASSUME DisplayAssumption ==
  /\ Main \subseteq Scalers /\ None \notin Scalers
  /\ \A p \in Profiles : SizesOK(p)
  /\ Counts \subseteq Nat \ {0}
  /\ MemorySize \in Nat \ {0} /\ MaxFaults \in Nat /\ MaxQueued \in Nat

Memory == 1..MemorySize
Contents == {"raw", "header", "luma", "chroma", "drawn"}

VARIABLES
  (* the driver *)
  size,     \* size[a]: the size of the piece of memory given out at a, 0 if none is
  content,  \* content[a]: what was written at a last
  shown,    \* shown[c]: the surface scaler c shows, 0 for none
  enabled,  \* the scalers whose mixer source is on
  fifo,     \* the pictures inserted, with their surfaces
  (* struct DCCVideoSource of each handle *)
  state,    \* "none"; "open"; "failed": there is a structure but its open failed
  surface, scaler, mixer, profile,
  pics,     \* pics[s]: pic_info, a function from 0..picture_count - 1
  (* history *)
  left,     \* the scalers still showing a source that was set on another one
  faults    \* failing calls so far

driverVars == <<size, content, shown, enabled, fifo>>
sourceVars == <<state, surface, scaler, mixer, profile, pics>>
vars == <<driverVars, sourceVars, left, faults>>

Extent(a, n) == a..(a + n - 1)
Region(a) == Extent(a, size[a])
Given == {a \in Memory : size[a] # 0}
NoPics == [i \in {} |-> [addr |-> 0, luma |-> 0, chroma |-> 0]]
Pictures(s) == DOMAIN pics[s]
Luma(s, i) == Extent(pics[s][i].luma, profile[s].luma)
Chroma(s, i) == Extent(pics[s][i].chroma, profile[s].chroma)

\* The memory of a picture f with sizes p: its parts, as far as their addresses are
\* known.
Part(a, n) == IF a = 0 THEN {} ELSE Extent(a, n)
Parts(f, p) == Part(f.luma, p.luma) \cup Part(f.chroma, p.chroma)

\* What pic_info[index] holds for an index past its end, for any address.
Stray == MemorySize + 1

\* pic_info of up to as many pictures as were asked for.
PicInfo == [addr : Nat, luma : Nat, chroma : Nat]
IsPics(f) == \E n \in Counts \cup {0, 1} : f \in [0..(n - 1) -> PicInfo]

TypeOK ==
  /\ size \in [Memory -> Nat] /\ content \in [Memory -> Contents]
  /\ shown \in [Scalers -> Nat] /\ enabled \subseteq Main
  /\ state \in [Sources -> {"none", "open", "failed"}]
  /\ surface \in [Sources -> Nat] /\ profile \in [Sources -> Profiles]
  /\ pics = [s \in Sources |-> pics[s]] /\ \A s \in Sources : IsPics(pics[s])
  /\ scaler \in [Sources -> Scalers \cup {None}] /\ mixer \in [Sources -> BOOLEAN]
  /\ \A s \in Sources : mixer[s] => scaler[s] \in Main
  /\ left \subseteq Scalers
  /\ faults \in 0..MaxFaults

Init ==
  /\ size = [a \in Memory |-> 0] /\ content = [a \in Memory |-> "raw"]
  /\ shown \in [Scalers -> {0}] /\ enabled = {} /\ fifo = {}
  /\ state = [s \in Sources |-> "none"] /\ surface = [s \in Sources |-> 0]
  /\ scaler = [s \in Sources |-> None] /\ mixer = [s \in Sources |-> FALSE]
  /\ profile \in [Sources -> Profiles] /\ pics = [s \in Sources |-> NoPics]
  /\ left = {} /\ faults = 0

-----------------------------------------------------------------------------
Faults(n) == faults + n <= MaxFaults /\ faults' = faults + n
Fault == Faults(1)
NoFault == UNCHANGED faults

\* RUAMalloc of n bytes at a; a piece never overlaps another.
Fits(a, n) == /\ size[a] = 0 /\ a + n - 1 <= MemorySize
              /\ \A b \in Given : Extent(a, n) \cap Region(b) = {}
Write(where, what) ==
  content' = [a \in Memory |-> IF a \in where THEN what ELSE content[a]]

\* A new structure, all zero.
NewSource(s, st, a, p, ps) ==
  /\ state' = [state EXCEPT ![s] = st]
  /\ surface' = [surface EXCEPT ![s] = a]
  /\ profile' = [profile EXCEPT ![s] = p]
  /\ pics' = [pics EXCEPT ![s] = ps]
  /\ scaler' = [scaler EXCEPT ![s] = None]
  /\ mixer' = [mixer EXCEPT ![s] = FALSE]

\* The open ends before memory is got.  When there is no memory for pic_info the
\* structure is freed and the handle the client was given points nowhere.
OpenFailsEarly(s, p, st) ==
  /\ NewSource(s, st, 0, p, NoPics)
  /\ UNCHANGED driverVars

\* Faulty (not part of the specification): the header is forgotten; the pictures
\* are one luma part apart.
NoHeader(a, p, i) == a + i * p.size
LumaApart(a, p, i) == a + p.header + i * p.luma

\* Where picture i starts, and what InitPictureX makes of it.  A failure of
\* InitPictureX is not looked at: the addresses then stay 0.
PictureAddr(a, p, i) == a + p.header + i * p.size
Picture(a, p, i, good) ==
  [addr |-> PictureAddr(a, p, i),
   luma |-> IF good THEN PictureAddr(a, p, i) ELSE 0,
   chroma |-> IF good THEN PictureAddr(a, p, i) + p.luma ELSE 0]
TotalSize(p, n) == p.size * n + p.header

\* A failure after which RUAFree gives the memory back; RUAFree may fail as well.
GivenBack(a, n) ==
  \/ Fault /\ UNCHANGED size
  \/ Faults(2) /\ size' = [size EXCEPT ![a] = n]

\* DCCOpenMultiplePictureOSDVideoSource of n pictures, those of good succeed.
OpenMultiple(s, p, n) ==
  /\ state[s] = "none" /\ UNCHANGED left
  /\ \/ Fault /\ \E st \in {"none", "failed"} : OpenFailsEarly(s, p, st)
     \/ NoFault /\ (\A a \in Memory : ~Fits(a, TotalSize(p, n))) /\ OpenFailsEarly(s, p, "failed")
     \/ \E a \in Memory :
          /\ Fits(a, TotalSize(p, n))
          /\ \/ /\ \E bad \in SUBSET (0..(n - 1)) :
                     /\ Faults(Cardinality(bad))
                     /\ NewSource(s, "open", a, p,
                                  [i \in 0..(n - 1) |-> Picture(a, p, i, i \notin bad)])
                /\ size' = [size EXCEPT ![a] = TotalSize(p, n)]
                /\ Write(Extent(a, p.header), "header")
                /\ UNCHANGED <<shown, enabled, fifo>>
             \* InitMultiplePictureSurface fails
             \/ /\ GivenBack(a, TotalSize(p, n))
                /\ NewSource(s, "failed", 0, p, NoPics)
                /\ UNCHANGED <<content, shown, enabled, fifo>>
             \* ... or EnableGFXInteraction does; pic_info still names the pictures
             \/ /\ GivenBack(a, TotalSize(p, n))
                /\ NewSource(s, "failed", 0, p, [i \in 0..(n - 1) |-> Picture(a, p, i, TRUE)])
                /\ Write(Extent(a, p.header), "header")
                /\ UNCHANGED <<shown, enabled, fifo>>

\* DCCOpenOSDVideoSource: one picture.  When InitSurface fails the structure keeps
\* the surface; when there is no memory for pic_info the structure is freed and the
\* surface's memory is lost.  Where InitSurface puts the parts is the driver's:
\* behind its header, as for the pictures above.
OSDPicture(a, p) == [Picture(a, p, 0, TRUE) EXCEPT !.addr = a]
OpenOSD(s, p) ==
  /\ state[s] = "none" /\ UNCHANGED left
  /\ \/ Fault /\ \E st \in {"none", "failed"} : OpenFailsEarly(s, p, st)
     \/ NoFault /\ (\A a \in Memory : ~Fits(a, TotalSize(p, 1))) /\ OpenFailsEarly(s, p, "failed")
     \/ \E a \in Memory :
          /\ Fits(a, TotalSize(p, 1))
          /\ size' = [size EXCEPT ![a] = TotalSize(p, 1)]
          /\ \/ /\ NoFault
                /\ NewSource(s, "open", a, p, [i \in {0} |-> OSDPicture(a, p)])
                /\ Write(Extent(a, p.header), "header")
             \/ Fault /\ NewSource(s, "failed", a, p, NoPics) /\ UNCHANGED content
             \/ /\ Fault
                /\ NewSource(s, "none", 0, p, NoPics)
                /\ Write(Extent(a, p.header), "header")
          /\ UNCHANGED <<shown, enabled, fifo>>

-----------------------------------------------------------------------------
\* Scaler c now shows a, for 0 nothing.
Shows(c, a) == shown' = [shown EXCEPT ![c] = a]

\* DCCSetSurfaceSource(NULL), as osd_init calls it.
ResetScaler(c) ==
  /\ \/ NoFault /\ Shows(c, 0) /\ left' = left \ {c}
     \/ Fault /\ UNCHANGED <<shown, left>>
  /\ UNCHANGED <<size, content, enabled, fifo, sourceVars>>

\* The scaler that shows source s when it is set on c, and shows it still afterwards.
LeftBehind(s, c) == {d \in Scalers \ {c} : scaler[s] = d /\ shown[d] = surface[s]}

\* Faulty: the source knows its scaler only once everything is done.
SetSurfaceLate(s, c) ==
  /\ state[s] = "open"
  /\ \/ c \in Main /\ Fault /\ Shows(c, surface[s]) /\ UNCHANGED <<scaler, mixer, left>>
     \/ /\ c \in Main /\ NoFault /\ Shows(c, surface[s])
        /\ scaler' = [scaler EXCEPT ![s] = c] /\ mixer' = [mixer EXCEPT ![s] = TRUE]
        /\ left' = (left \cup LeftBehind(s, c)) \ {c}
  /\ UNCHANGED <<size, content, enabled, fifo, state, surface, profile, pics>>

\* DCCSetSurfaceSource.  The source knows its scaler before the driver does, and the
\* scaler shows the surface even if PersistentSurface or Validate fails.  Nothing is
\* taken off the scaler the source was set on before.
SetSurfaceSource(s, c) ==
  /\ state[s] = "open"
  /\ scaler' = [scaler EXCEPT ![s] = c]
  /\ mixer' = [mixer EXCEPT ![s] = c \in Main]
  /\ \/ /\ IF c \in Main THEN Fault ELSE NoFault
        /\ left' = left \cup LeftBehind(s, c)
        /\ UNCHANGED shown
     \/ /\ c \in Main /\ (NoFault \/ Fault)
        /\ Shows(c, surface[s])
        /\ left' = (left \cup LeftBehind(s, c)) \ {c}
  /\ UNCHANGED <<size, content, enabled, fifo, state, surface, profile, pics>>

\* DCCEnableVideoSource: MixerSourceIndex, MixerSourceState and Validate.
EnableSource(s, on) ==
  /\ state[s] = "open" /\ mixer[s]
  /\ \/ Fault /\ UNCHANGED enabled
     \/ /\ NoFault \/ Fault
        /\ enabled' = IF on THEN enabled \cup {scaler[s]} ELSE enabled \ {scaler[s]}
  /\ UNCHANGED <<size, content, shown, fifo, sourceVars, left>>

\* DCCInsertPictureInMultiplePictureOSDVideoSource, which takes any index.
InsertPicture(s) ==
  /\ state[s] = "open"
  /\ \/ NoFault /\ \E a \in {pics[s][i].addr : i \in Pictures(s)} \cup {Stray} :
                     /\ fifo' = fifo \cup {<<surface[s], a>>}
                     /\ Cardinality(fifo') <= MaxQueued
     \/ Fault /\ UNCHANGED fifo
  /\ UNCHANGED <<size, content, shown, enabled, sourceVars, left>>

\* set_memory: nothing to do, or RUALock and RUAMap succeed, which RUALock never
\* does at address 0.
CanLock(a) == a # 0

\* DCCClearOSDPicture: the chroma part, then the luma part.
ClearPicture(s, i) ==
  /\ state[s] = "open"
  /\ LET p == profile[s]
         chromaOK == p.chroma = 0 \/ CanLock(pics[s][i].chroma)
         luma == IF pics[s][i].luma = 0 THEN {} ELSE Luma(s, i)
     IN  \/ ~chromaOK /\ NoFault /\ UNCHANGED content
         \/ p.chroma # 0 /\ Fault /\ UNCHANGED content
         \/ chromaOK /\ luma # {} /\ Fault /\ Write(Chroma(s, i), "chroma")
         \/ /\ chromaOK /\ NoFault
            /\ content' = [a \in Memory |-> IF a \in luma THEN "luma"
                                            ELSE IF a \in Chroma(s, i) THEN "chroma"
                                            ELSE content[a]]
  /\ UNCHANGED <<size, shown, enabled, fifo, sourceVars, left>>

\* The client locks, maps and draws the luma part of a picture.
Draw(s, i) ==
  /\ state[s] = "open"
  /\ \/ CanLock(pics[s][i].luma) /\ NoFault /\ Write(Luma(s, i), "drawn")
     \/ ~CanLock(pics[s][i].luma) /\ NoFault /\ UNCHANGED content
     \/ Fault /\ UNCHANGED content
  /\ UNCHANGED <<size, shown, enabled, fifo, sourceVars, left>>

\* The scaler a source knows of shows nothing any more, if it knows one.
TakenOff(s) ==
  /\ shown' = IF scaler[s] = None THEN shown ELSE [shown EXCEPT ![scaler[s]] = 0]
  /\ left' = left \ {scaler[s]}

\* Faulty: the memory is given back first; it is, and the scaler left alone.
CloseFreesFirst(s) ==
  /\ state[s] # "none"
  /\ size' = IF surface[s] = 0 THEN size ELSE [size EXCEPT ![surface[s]] = 0]
  /\ \/ NoFault /\ TakenOff(s) /\ NewSource(s, "none", 0, profile[s], NoPics)
     \/ Fault /\ scaler[s] # None /\ UNCHANGED <<shown, sourceVars, left>>
  /\ UNCHANGED <<content, enabled, fifo>>
CloseFreesOnly(s) ==
  /\ state[s] # "none"
  /\ size' = IF surface[s] = 0 THEN size ELSE [size EXCEPT ![surface[s]] = 0]
  /\ NewSource(s, "none", 0, profile[s], NoPics)
  /\ UNCHANGED <<content, shown, enabled, fifo, faults, left>>

\* DCCCloseVideoSource.  Whatever surface the scaler shows is taken off it; if that
\* fails the source is kept.  The surface's memory is never given back.
CloseSource(s) ==
  /\ state[s] # "none"
  /\ \/ NoFault /\ TakenOff(s) /\ NewSource(s, "none", 0, profile[s], NoPics)
     \/ Fault /\ scaler[s] # None /\ UNCHANGED <<shown, sourceVars, left>>
  /\ UNCHANGED <<size, content, enabled, fifo>>

Next ==
  \/ \E s \in Sources, p \in Profiles :
       OpenOSD(s, p) \/ \E n \in Counts : OpenMultiple(s, p, n)
  \/ \E c \in Scalers : ResetScaler(c)
  \/ \E s \in Sources, c \in Scalers : SetSurfaceSource(s, c)
  \/ \E s \in Sources, on \in BOOLEAN : EnableSource(s, on)
  \/ \E s \in Sources : \E i \in Pictures(s) : ClearPicture(s, i) \/ Draw(s, i)
  \/ \E s \in Sources : InsertPicture(s) \/ CloseSource(s)

Spec == Init /\ [][Next]_vars

-----------------------------------------------------------------------------
(* Properties *)

\* Wherever an open fails, a structure that is left names a surface only while its
\* memory is given out, and no other structure names it: after a failure the field
\* surface names nothing that was given back.  pic_info does, after a failing
\* EnableGFXInteraction (dcc.c:657).
SurfaceNamed ==
  \A s \in Sources : surface[s] # 0 =>
    /\ state[s] # "none" /\ surface[s] \in Given
    /\ \A t \in Sources \ {s} : surface[t] # surface[s]

\* The pictures of a source that was opened lie on its own surface.
PicturesInside ==
  \A s \in Sources : state[s] = "open" =>
    \A i \in Pictures(s) : /\ pics[s][i].addr \in Region(surface[s])
                           /\ Parts(pics[s][i], profile[s]) \subseteq Region(surface[s])

SurfaceAccounted == SurfaceNamed /\ PicturesInside

\* The chip shows, and reads pictures from, memory that is given out only, and each
\* picture from the surface it was inserted in, unless the client gave an index past
\* the end of pic_info, which nobody checks (dcc.c:961).
ShownIsGiven ==
  /\ \A c \in Scalers : shown[c] # 0 => shown[c] \in Given
  /\ \A q \in fifo : q[1] \in Given /\ (q[2] # Stray => q[2] \in Region(q[1]))

\* Whatever a scaler shows belongs to a source that is open and knows it is on that
\* scaler, however half-way DCCSetSurfaceSource failed: closing the source will
\* take it off.  The exception is a scaler whose source was set on another one since:
\* it shows the surface until it is reset or used again, also when the source has
\* been closed (dcc.c:496 forgets it).
ShownIsOpen ==
  \A c \in Scalers \ left : shown[c] # 0 =>
    \E s \in Sources : state[s] = "open" /\ surface[s] = shown[c] /\ scaler[s] = c

\* The header of an open source's surface is only the driver's, whatever is cleared
\* and drawn and whichever InitPictureX failed.
HeaderIntact ==
  \A s \in Sources : state[s] = "open" =>
    \A a \in Extent(surface[s], profile[s].header) : content[a] = "header"

\* Pictures do not overlap: a step changes what is in one picture at most.
OnePicture ==
  \A s, t \in Sources : \A i \in Pictures(s), j \in Pictures(t) :
    /\ state[s] = "open" /\ state[t] = "open" /\ <<s, i>> # <<t, j>>
    /\ \E a \in Parts(pics[s][i], profile[s]) : content'[a] # content[a]
    => \A a \in Parts(pics[t][j], profile[t]) : content'[a] = content[a]
OnePictureAtATime == [][OnePicture]_vars

=============================================================================
