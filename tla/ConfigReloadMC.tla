---------------------------- MODULE ConfigReloadMC ----------------------------
(* Small instances of ConfigReload. *)
EXTENDS ConfigReload, TLC

CONSTANTS p1, p2

Layer(name, gives) == [valid |-> TRUE, gives |-> gives, name |-> name]
Plain == Layer("plain", {})
Enables == Layer("enables", {"enabled"})
Limits == Layer("limits", {"limits"})
Broken == [valid |-> FALSE, gives |-> {}, name |-> "broken"]

\* A layer that only loads with another, and that other; one that never loads.
MixedLayers == {Enables, Limits}
TwoLayers == {Plain, Broken}
SomeLayers == {Plain, Enables}
BothModes == BOOLEAN
BlockingOnly == {TRUE}
=============================================================================
