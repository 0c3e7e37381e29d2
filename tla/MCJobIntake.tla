----------------------------- MODULE MCJobIntake -----------------------------
EXTENDS JobIntake, TLC
CONSTANTS r1, r2, r3, r4, r5, b1, b2, k

(* Three requests with one body, which has a key, and two without a key. *)
MCRequests == {r1, r2, r3, r4, r5}
MCBodies == {b1, b2}
MCBodyOf == [r \in MCRequests |-> IF r \in {r4, r5} THEN b2 ELSE b1]
MCKeyOf == [r \in MCRequests |-> IF r \in {r4, r5} THEN NoKey ELSE k]
SameBody == Permutations({r1, r2, r3}) \cup Permutations({r4, r5})
=============================================================================
