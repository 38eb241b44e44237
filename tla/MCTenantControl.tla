-------------------------- MODULE MCTenantControl --------------------------
(* One tenant, with what may be done to it: tenants share the scheduler's loop and
   Caddy's file, and the theorems hold for any number of them. *)
EXTENDS TenantControl

CONSTANTS t1
=============================================================================
