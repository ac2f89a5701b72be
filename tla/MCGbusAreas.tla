---------------------------- MODULE MCGbusAreas -----------------------------
(* GbusAreas with pages of 4 units, a table of three slots and room for four  *)
(* pages of mappings.                                                         *)
EXTENDS GbusAreas

MCPages == 1..4

\* Ranges that begin on a page boundary.
OnBoundary == [offset : {0}, size : {2, 4}]

\* These, and ranges of one and of two pages that begin inside a page.
AnyRange == [offset : {0, 1, 3}, size : {1, 2, 4}]

=============================================================================
