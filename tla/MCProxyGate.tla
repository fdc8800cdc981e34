---------------------------- MODULE MCProxyGate -----------------------------
(***************************************************************************)
(* ProxyGate on a small instance: two requests, which are alike, while the *)
(* environment keeps its name, or one beside renamings.                    *)
(***************************************************************************)
EXTENDS ProxyGate, TLC

Alike == Permutations(Requests)

(* Nothing has ever gone by another name than the first.                   *)
OneName == /\ \A e \in EnvIds : name[e] = AnyName
           /\ \A d \in DeployIds : named[d] = AnyName
           /\ \A n \in Names : container[n] # Nobody => n = AnyName
           /\ \A q \in Requests : req[q].name = AnyName

(* Beside renamings clients leave the statuses to the engine, and the      *)
(* process does not die.                                                   *)
Alone == /\ claimed = {} /\ restarts = 0
         /\ Cardinality({q \in Requests : req[q].at # "idle"}) <= 1

MCNext == /\ GateNext
          /\ \A e \in created' \ created : name'[e] = AnyName
          /\ \A e \in claimed' : status'[e] \in {"idle", "running"}
          /\ OneName' \/ Alone'

MCSpec == GateInit /\ [][MCNext]_allVars
=============================================================================
