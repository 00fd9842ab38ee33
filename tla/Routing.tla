------------------------------ MODULE Routing ------------------------------
(***************************************************************************)
(* What the two sides of routing share: the deployments, and the custom    *)
(* domains that deployment_domains binds to them.  Domains models who      *)
(* writes that table, Proxy who reads it.                                  *)
(***************************************************************************)
CONSTANTS
    Deps,    \* deployments
    Names    \* custom domain names

None == "none"   \* SQL NULL
=============================================================================
