---------------------------- MODULE MCDashboards ----------------------------
(***************************************************************************)
(* Dashboards on a small instance.                                         *)
(***************************************************************************)
EXTENDS Dashboards
=============================================================================
