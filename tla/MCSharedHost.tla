---------------------------- MODULE MCSharedHost ----------------------------
(***************************************************************************)
(* SharedHost on a small instance, in two parts.  Environments with        *)
(* forwarders, which contend for a port, beside deployments of one of them *)
(* and teardowns, where an instance is alone; and environments without,    *)
(* whose names are changed, given up and alike, beside another instance.   *)
(***************************************************************************)
EXTENDS SharedHost

CONSTANTS here, there,          \* instances
          web, api, Web, fwd    \* names: web and Web give one container name,
                                \* and fwd that of a forwarder

MCContainerName == [n \in Names |-> CASE n = api -> "edp-api" [] n = fwd -> "edp-fwd-1"
                                      [] OTHER -> "edp-web"]
MCForwarderName == [e \in EnvIds |-> IF e = 1 THEN "edp-fwd-1" ELSE "edp-fwd-2"]

Forwarded == {[type |-> "container", name |-> fwd, port |-> 80],
              [type |-> "compose", name |-> api, port |-> 80]}
Named == [type : {"container"}, name : Names \ {fwd}, port : {None}]
MCRows == Forwarded \cup Named

Stored == {env[i][e] : i \in Instances, e \in EnvIds} \ {None}

(* The part that the first environment decides on.                         *)
Naming     == Stored # {} /\ Stored \subseteq Named
Forwarding == edits > 0 /\ ~Naming

(* Nothing was deployed or torn down: a third edit is for the forwarders.  *)
Undeployed == /\ \A i \in Instances, e \in EnvIds : deploy[i][e] = None
              /\ \A n \in ContainerNames :
                    container[n] # None => container[n].kind = "forwarder"
              /\ \A e \in EnvIds : stack[e] = None
              /\ \A i \in Instances : mode[i] # "exiting" /\ reaper[i] = NoReap
              /\ reaped = {}

EditForwarding == /\ ~Naming /\ mode[there] = "down"
                  /\ edits < 2 \/ (edits = 2 /\ Undeployed)
                  /\ Edit(here)
                  /\ Forwarding'

EditNaming == /\ Naming \/ edits = 0
              /\ \/ Edit(here)
                 \/ nextId[there] = 1 /\ \E row \in Named : /\ row.name = web
                                                            /\ CreateEnv(there, row)
              /\ Naming'

MCNext ==
    \/ EditForwarding \/ EditNaming
    \/ Naming /\ \E i \in Instances, e \in EnvIds : MakeRoom(i, e)
    \/ Forwarding /\ edits <= 2 /\ MakeRoom(here, 1)
    \/ \E i \in Instances, e \in EnvIds : BringUp(i, e)
    \/ ~Forwarding /\ Kill(there)
    \/ Forwarding /\ (Reconcile(here) \/ Kill(here) \/ Restart(here))
    \/ /\ Forwarding /\ edits <= 2
       /\ Stream(here) \/ Terminate(here) \/ ReapCommand(here) \/ Teardown(here)

MCFairness == /\ WF_vars(Forwarding /\ Reconcile(here))
              /\ \A i \in Instances, e \in EnvIds : WF_vars(BringUp(i, e))

MCSpec == Init /\ [][MCNext]_vars /\ MCFairness
=============================================================================
