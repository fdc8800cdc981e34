---------------------------- MODULE MCLogStream ----------------------------
(***************************************************************************)
(* CommandLog, and with it LogStream, on a small instance: two clients     *)
(* while the deployment writes its own lines, or one beside its commands.  *)
(***************************************************************************)
EXTENDS CommandLog

CONSTANT second         \* the client that is there only without commands

MCNext == /\ CommandNext
          /\ commands' > 0 => pc'[second] = "idle"
          /\ Expire => commands > 0

MCSpec == CommandInit /\ [][MCNext]_cvars /\ CommandFairness
=============================================================================
