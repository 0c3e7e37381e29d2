------------------------------ MODULE MCRelease -----------------------------
EXTENDS Release, TLC

MCHome == [c \in Callers |-> CHOOSE p \in Processes : TRUE]

(* A strict publication, a rollback package, a plan, an execution with a   *)
(* bundle, and a channel that becomes a file drop.                         *)
MCRequests ==
  LET Ask(fields) == {fields @@ [Nothing EXCEPT !.tenant = t] : t \in Tenants}
  IN Ask([op |-> "publish"]) \cup Ask([op |-> "rollback"]) \cup Ask([op |-> "plan"])
     \cup Ask([op |-> "execute", live |-> TRUE, bundle |-> TRUE])
     \cup Ask([op |-> "upsert", settings |-> [Seeded EXCEPT !.kind = "file_drop"]])

Symmetric == Permutations(Callers)
=============================================================================
