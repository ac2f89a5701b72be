--------------------------- MODULE StreamDelivery ---------------------------
(***************************************************************************)
(* What the buffer pool of librua promises to a player: every stream is a  *)
(* bounded channel from the stream file to its decoder.  The decoder plays *)
(* the chunks of the file from the first on, in order, each one once, and  *)
(* never falls further behind the player than its window.                  *)
(*                                                                         *)
(* Nothing is said here of buffers, references, retries or system calls:   *)
(* module RuaPool has those, and implements this specification.            *)
(***************************************************************************)
EXTENDS Naturals, Sequences

CONSTANTS
  Streams,   \* the elementary streams: video, audio
  Length,    \* Length[s]: the number of chunks in the file of stream s
  Window     \* chunks of a stream that can be sent and not yet played

VARIABLES
  sent,      \* sent[s]: chunks the player has handed over
  played,    \* played[s]: the chunks the decoder has taken, in its order
  stopped    \* streams whose decoder was stopped: it drops what is queued

vars == <<sent, played, stopped>>

Chunk(s, i) == <<s, i>>

Init ==
  /\ sent = [s \in Streams |-> 0]
  /\ played = [s \in Streams |-> <<>>]
  /\ stopped = {}

Send(s) ==
  /\ s \notin stopped
  /\ sent[s] < Length[s]
  /\ sent[s] - Len(played[s]) < Window
  /\ sent' = [sent EXCEPT ![s] = @ + 1]
  /\ UNCHANGED <<played, stopped>>

Play(s) ==
  /\ s \notin stopped
  /\ Len(played[s]) < sent[s]
  /\ played' = [played EXCEPT ![s] = Append(@, Chunk(s, Len(@) + 1))]
  /\ UNCHANGED <<sent, stopped>>

Stop(s) ==
  /\ stopped' = stopped \cup {s}
  /\ UNCHANGED <<sent, played>>

Next == \E s \in Streams : Send(s) \/ Play(s) \/ Stop(s)

Spec == Init /\ [][Next]_vars

=============================================================================
