--------------------------- MODULE MCSourceCollect --------------------------
(* No byte, one page's worth of faults, and more than the capped sources give. *)
EXTENDS SourceCollect
MCSizes == {0, 9, 300}
=============================================================================
