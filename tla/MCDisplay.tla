------------------------------ MODULE MCDisplay ------------------------------
(* Display with a scaler whose mixer is not known and one size of pictures. *)
EXTENDS Display, TLC

CONSTANTS s1, s2, osd, video, other

MCSources == {s1, s2}
MCMain == {osd, video}
MCScalers == {osd, video, other}
MCProfiles == {[header |-> 1, size |-> 2, luma |-> 1, chroma |-> 1]}
MCCounts == {2}
MCSymmetry == Permutations(MCSources) \cup Permutations(MCMain)

=============================================================================
