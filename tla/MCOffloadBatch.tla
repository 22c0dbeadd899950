--------------------------- MODULE MCOffloadBatch ---------------------------
EXTENDS OffloadBatch

\* A coarse group, one of half its block, and one whose blocks do not line up.
MCSize == [g \in Group |-> CASE g = "full" -> 4 [] g = "half" -> 2 [] OTHER -> 3]
=============================================================================
