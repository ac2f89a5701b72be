---------------------------- MODULE MemoryCustody ----------------------------
(***************************************************************************)
(* What libdcc promises about the chip's memory: every block that is given *)
(* out has one keeper at most, a source, an engine or the call in          *)
(* progress.  A decoder starts with memory of its own source and of its    *)
(* engines only, and what a decoder works with is never given back.  A     *)
(* block that no keeper knows any more is lost for good.  All that holds   *)
(* until a crash tears a giving back: until the block is given back and    *)
(* its keeper, cut off, still knows it.                                    *)
(*                                                                         *)
(* Nothing is said here of the order of the driver calls, of what is asked *)
(* for, or of which failure loses a block: DccSources has those, and       *)
(* implements this specification.                                          *)
(***************************************************************************)
CONSTANTS
  Sources,  \* the owners of decoders
  Engines,
  Serves,   \* Serves[s]: the engines whose memory the decoder of source s may use
  Blocks

VARIABLES
  given,    \* the blocks given out
  hand,     \* those the call in progress keeps
  has,      \* has[s]: those source s keeps
  common,   \* common[k]: those engine k keeps
  work,     \* work[s]: those the decoder of source s works with, {} when it is closed
  torn      \* a giving back was torn

vars == <<given, hand, has, common, work, torn>>

KeptByEngines == UNION {common[k] : k \in Engines}
KeptBySources == UNION {has[s] : s \in Sources}
WorkedWith == UNION {work[s] : s \in Sources}

OneKeeper ==
  /\ hand \cap (KeptByEngines \cup KeptBySources) = {} /\ KeptByEngines \cap KeptBySources = {}
  /\ \A s, t \in Sources : s # t => has[s] \cap has[t] = {}
  /\ \A k, l \in Engines : k # l => common[k] \cap common[l] = {}

Init ==
  /\ given = {} /\ hand = {}
  /\ has = [s \in Sources |-> {}] /\ common = [k \in Engines |-> {}]
  /\ work = [s \in Sources |-> {}]
  /\ torn = FALSE

\* A call gets a block.
Get(b) ==
  /\ b \notin given
  /\ given' = given \cup {b} /\ hand' = hand \cup {b}
  /\ UNCHANGED <<has, common, work>>

\* Blocks go from the call to sources and engines, or from an engine to the call; none
\* goes from one source or engine to another.  Any may be lost on the way.
Passed ==
  /\ hand' \in SUBSET (hand \cup KeptByEngines)
  /\ has' \in [Sources -> SUBSET given] /\ common' \in [Engines -> SUBSET given]
  /\ \A s \in Sources : has'[s] \subseteq has[s] \cup hand
  /\ \A k \in Engines : common'[k] \subseteq common[k] \cup hand
  /\ OneKeeper'
  /\ UNCHANGED given

Pass == Passed /\ UNCHANGED work

\* A decoder is opened, maybe in the step that hands its source the blocks.
Start(s) ==
  /\ work[s] = {}
  /\ Passed
  /\ \E using \in SUBSET (has'[s] \cup UNION {common'[k] : k \in Serves[s]}) :
       work' = [work EXCEPT ![s] = using]

Stop(s) == work' = [work EXCEPT ![s] = {}] /\ UNCHANGED <<given, hand, has, common>>

\* A block is given back, by its only keeper, which forgets it.
GiveBack(b) ==
  /\ b \in (hand \cup KeptBySources) \ WorkedWith
  /\ given' = given \ {b} /\ hand' = hand \ {b}
  /\ has' = [s \in Sources |-> has[s] \ {b}]
  /\ UNCHANGED <<common, work>>

Move ==
  \/ \E b \in Blocks : Get(b) \/ GiveBack(b)
  \/ Pass
  \/ \E s \in Sources : Start(s) \/ Stop(s)

\* A crash: what a source keeps is given back, if anything is, and the source still
\* keeps it.
Tear ==
  /\ \E gone \in SUBSET (KeptBySources \ WorkedWith) : given' = given \ gone
  /\ torn' = TRUE
  /\ UNCHANGED <<hand, has, common, work>>

Next ==
  \/ ~torn /\ Move /\ UNCHANGED torn
  \/ ~torn /\ Tear
  \/ torn /\ torn'  \* nothing is promised any more

Spec == Init /\ [][Next]_vars

=============================================================================
