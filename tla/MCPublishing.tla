---------------------------- MODULE MCPublishing ----------------------------
EXTENDS Publishing, TLC

MCDefaultCap == [enabled |-> TRUE, max |-> 1]
MCCaps == {[enabled |-> TRUE, max |-> 2], [enabled |-> FALSE, max |-> 1]}
MCGranted == {{"approve:social"}, {"admin"}}
Symmetric == Permutations(Callers) \cup Permutations(Actors)
=============================================================================
