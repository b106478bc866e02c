------------------------- MODULE MCPluginLifecycle -------------------------
(* PluginLifecycle for TLC: interchangeable call slots. *)
EXTENDS PluginLifecycle, TLC

CONSTANTS c1, c2, r1

Slots == Permutations(Calls) \cup Permutations(Reports)

=============================================================================
