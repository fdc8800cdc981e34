--------------------------- MODULE MCDeployEngine ---------------------------
(***************************************************************************)
(* DeployEngine on a small instance.  An environment is created under the  *)
(* first of two names; once the process has died, clients deploy, delete   *)
(* and change types, and leave names and statuses as they are.             *)
(***************************************************************************)
EXTENDS DeployEngine

(* Nobody tells the status failed from idle when a client wrote it.        *)
Words == {"idle", "running", "success"}

MCNext == /\ Next
          /\ \A e \in created' \ created : name'[e] = AnyName
          /\ \A e \in claimed' : status'[e] \in Words
          /\ restarts > 0 =>
                /\ claimed' \subseteq claimed
                /\ name' = name \/ created' # created
          /\ mark # {} => mark' = {}     \* marks are for ProxyGate to leave

MCSpec == Init /\ [][MCNext]_vars /\ Fairness
=============================================================================
