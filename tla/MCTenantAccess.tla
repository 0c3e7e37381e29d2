-------------------------- MODULE MCTenantAccess ---------------------------
(* One request at a time: requests do not write what others read.          *)
EXTENDS TenantAccess

(* One policy that agrees to overrides, and one that does not and is       *)
(* relaxed, or binding under strict_tenant_enforcement.                    *)
MCOffered == {
  [mode |-> "inherit", membership |-> TRUE, admin |-> TRUE,  service |-> TRUE],
  [mode |-> "relaxed", membership |-> TRUE, admin |-> FALSE, service |-> FALSE]}
=============================================================================
