----------------------------- MODULE MCRowScope -----------------------------
EXTENDS RowScope
CONSTANTS admin, guest, other

As(a, h, r) == [actor |-> a, home |-> h, role |-> r]
MCTokens == {As(admin, Default, "admin"), As(guest, other, "service_account"),
             As(guest, other, "viewer"), As(guest, Default, "viewer")}

(* A binding policy, a relaxed one, and one that shares the rows of the    *)
(* default tenant.                                                         *)
MCOffered == {
  [mode |-> "enforce", match |-> TRUE, admin |-> FALSE, service |-> FALSE, global |-> FALSE],
  [mode |-> "relaxed", match |-> TRUE, admin |-> TRUE, service |-> TRUE, global |-> FALSE],
  [mode |-> "inherit", match |-> FALSE, admin |-> TRUE, service |-> FALSE, global |-> TRUE]}
=============================================================================
