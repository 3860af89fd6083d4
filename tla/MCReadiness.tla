----------------------------- MODULE MCReadiness -----------------------------
(****************************************************************************)
(* One NewConfigurator on a host where the bus and the daemon may be up or  *)
(* not, and the daemon restarts twice at most.                              *)
(****************************************************************************)
EXTENDS Readiness
=============================================================================
