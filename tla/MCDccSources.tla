---------------------------- MODULE MCDccSources ----------------------------
(* DccSources with two parts of a source's own memory. *)
EXTENDS DccSources, TLC

CONSTANTS v1, v2, a1, m1, m2, m3, m4, m5, m6, m7

MCPrivate == <<"picprot", "unprot">>
SixBlocks == {m1, m2, m3, m4, m5, m6}
SevenBlocks == SixBlocks \cup {m7}
OneVideo == {v1}
TwoVideos == {v1, v2}
OneAudio == {a1}
Nobody == {}
SixSymmetry == Permutations(SixBlocks)
SevenSymmetry == Permutations(SevenBlocks)

=============================================================================
