---------------------------- MODULE MCLifecycle -----------------------------
(* Instances of Lifecycle for TLC; the default keeps letters one day.      *)
EXTENDS Lifecycle, TLC

Row(days, archive, batch) ==
  [enabled |-> TRUE, days |-> days, archive |-> archive, batch |-> batch]

MCDefault == Row(1, TRUE, 2)
(* Keep longer, let go without a copy, 0 days, and switch cleanup off. *)
Operators == {Row(2, TRUE, 1), Row(1, FALSE, 1), Row(0, FALSE, 0),
              [Row(2, TRUE, 1) EXCEPT !.enabled = FALSE]}
Symmetry == Permutations(Letters) \cup Permutations(Cleaners)
=============================================================================
