----------------------------- MODULE MCSession ------------------------------
(* Session with all three players. *)
EXTENDS Session

MCPlayers == {"raw", "mp4", "mpeg"}

=============================================================================
