--------------------------- MODULE MCTuiCollector ---------------------------
(* Two categories, with a source each. *)
EXTENDS TuiCollector
MCCategories == <<"quantum", "timing">>
MCSourcesOf == [quantum |-> <<2>>, timing |-> <<1>>]
=============================================================================
