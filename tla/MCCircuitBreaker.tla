-------------------------- MODULE MCCircuitBreaker --------------------------
(* The instance of CircuitBreaker for TLC: two servers, and either a       *)
(* policy that changes, faults and calls that break off, or requests in    *)
(* progress together under one policy.                                     *)
EXTENDS CircuitBreaker, TLC

CONSTANTS s1, s2

Enforced == [enabled |-> TRUE, budget |-> 2, threshold |-> 2, cooldown |-> 2]
Disabled == [Enforced EXCEPT !.enabled = FALSE]
Tighter  == [Enforced EXCEPT !.budget = 1]
Switched == {Enforced, Disabled, Tighter}

(* Bound: what fails, fails while one server at a time is at work. *)
Calm == faults = 0 /\ broken = 0 /\ policy = DefaultPolicy /\ \A s \in Servers : mine[s] = DefaultPolicy
OneTrouble == together' => Calm'

MCSpec == Init /\ [][Next /\ OneTrouble]_vars

Symmetry == Permutations(Servers)
=============================================================================
