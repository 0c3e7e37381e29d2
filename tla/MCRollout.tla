----------------------------- MODULE MCRollout ------------------------------
(* One caller makes thorough reports, another fills the tables and asks    *)
(* whether that is done.  Two connectors: one like azure_ml, whose token   *)
(* or client credentials do, and one like google_drive.                    *)
EXTENDS Rollout

CONSTANTS c1, c2, default, base, bearer, client, token, refresh, url

MCCatalog == <<"azure_ml", "google_drive">>

MCConnector ==
  [azure_ml |-> [required |-> {base}, optional |-> {bearer, client}, base |-> base,
                 auth |-> "oauth_bearer_or_client_credentials", status |-> "live_api",
                 mode |-> "rest_api", ops |-> {"list_jobs"}],
   google_drive |-> [required |-> {refresh}, optional |-> {token}, base |-> url,
                 auth |-> "oauth_refresh_or_bearer", status |-> "live_api",
                 mode |-> "rest_api", ops |-> {"list_files"}]]

MCBearer == [oauth_bearer_or_client_credentials |-> bearer, oauth_refresh_or_bearer |-> token]
MCTrio == [oauth_bearer_or_client_credentials |-> {client}, oauth_refresh_or_bearer |-> {refresh}]

MCImportFiles == {[service |-> "azure_ml", op |-> "list_jobs", primary |-> FALSE]}

MCSecrets == {{base, refresh}, {base, client, token}}

Ask(kind) == [kind |-> kind, tenant |-> default, names |-> {}, persist |-> TRUE]
MCRequests == c1 :> {Ask("bundle"), Ask("sync")}
              @@ c2 :> {Ask("matrix"), Ask("persistence"), [Ask("deployment") EXCEPT !.persist = FALSE],
                        [Ask("validate") EXCEPT !.names = {"google_drive"}]}
=============================================================================
