------------------------------ MODULE ProxyGate ------------------------------
(***************************************************************************)
(* The reverse proxy (internal/proxy) in front of the deploy engine: what  *)
(* a request reads, in which order, and what it is answered, while the     *)
(* environment is deployed, edited and deleted.  The engine's steps are    *)
(* those of DeployEngine; a request is a goroutine that interleaves with   *)
(* them.  A request that gets the splash page, or anything else that does  *)
(* not come from the environment, is simply over: it changes nothing.      *)
(***************************************************************************)
EXTENDS DeployEngine

CONSTANT Requests      \* requests in flight

VARIABLES
    req,     \* where each request is, and what it has read
    made,    \* history: per env, the deployment that made its latest mark
    older,   \* history: per env, the deployments worked before that one
    sent,    \* history: per deployment, responses that carried its mark
    spared   \* history: deployments that ran on beside a container of their
             \* environment that RemoveContainersByEnv had failed to remove

gate == <<req, made, older, sent, spared>>
allVars == <<vars, gate>>

Idle == [at |-> "idle", env |-> CHOOSE e \in EnvIds : TRUE, name |-> AnyName,
         clear |-> Nobody, old |-> {}, rested |-> TRUE]

GateTypeOK ==
    /\ req \in [Requests -> [at : {"idle", "control", "list", "reverse", "dial"},
                             env : EnvIds, name : Names,
                             clear : DeployIds \cup {Nobody},
                             old : SUBSET DeployIds, rested : BOOLEAN]]
    /\ \A q \in Requests : req[q].at = "idle" => req[q] = Idle
    /\ made \in [EnvIds -> DeployIds \cup {Nobody}]
    /\ \A e \in mark : made[e] # Nobody
    /\ older \in [EnvIds -> SUBSET DeployIds]
    /\ sent \in [DeployIds -> Nat]
    /\ spared \subseteq DeployIds

GateInit == /\ Init
            /\ req = [q \in Requests |-> Idle]
            /\ made = [e \in EnvIds |-> Nobody]
            /\ older = [e \in EnvIds |-> {}]
            /\ sent = [d \in DeployIds |-> 0]
            /\ spared = {}

-----------------------------------------------------------------------------
(* The engine, and what its steps mean for the requests and the histories. *)

(* Nothing is deploying the environment that its row could tell: a         *)
(* deployment past its deadline and a client's word keep the row from it.  *)
AtRest(e) == \/ e \in claimed
             \/ \A d \in DeployIds \ expired : envOf[d] = e => pc[d] \notin Pipeline

Marks(d) == pc[d] = "check" /\ pc'[d] = "finish_row" /\ result'[d] = "success"

Worked(e) == {f \in 1 .. (nextId - 1) : envOf[f] = e /\ pc[f] # "lock"}

Spares(d) == pc[d] = "remove" /\ pc'[d] = "run" /\ Labelled(envOf[d])' # {}

Dies == restarts' # restarts

Engine ==
    /\ Next
    /\ mark \subseteq mark' \/ Dies        \* the mark is taken by requests only
    /\ made' = [e \in EnvIds |->
                    IF e \in ClearEnvs /\ \E d \in DeployIds : envOf[d] = e /\ Marks(d)
                    THEN lock[e] ELSE made[e]]
    /\ older' = [e \in EnvIds |->
                    IF made'[e] = made[e] THEN older[e] ELSE Worked(e) \ {lock[e]}]
    /\ req' = [q \in Requests |->
                    IF Dies \/ req[q].at = "idle" THEN Idle
                    ELSE [req[q] EXCEPT !.rested =
                            @ \/ req[q].env \in {e \in EnvIds : AtRest(e)'}]]
    /\ spared' = spared \cup {d \in DeployIds : Spares(d)}
    /\ UNCHANGED sent

-----------------------------------------------------------------------------
(* A request: ServeHTTP.                                                   *)

Answered(q) == req' = [req EXCEPT ![q] = Idle]

Step(q, p) == req' = [req EXCEPT ![q].at = p]

Arrived(q, e, p) ==
    req' = [req EXCEPT ![q] = [Idle EXCEPT !.at = p, !.env = e, !.name = name[e],
                                           !.rested = AtRest(e)]]

(* Mutant: ready asks Docker alone.                                        *)
ArriveUnchecked(q, e) ==
    /\ Up
    /\ req[q].at = "idle"
    /\ e \in envs
    /\ Arrived(q, e, "control") \/ Arrived(q, e, "list")
    /\ UNCHANGED <<vars, made, older, sent, spared>>

(* resolve reads the row, which is all that the rest of the request knows  *)
(* of it.  A control request goes its own way; the first half of ready     *)
(* lets the others pass unless the row reads running.                      *)
Arrive(q, e) ==
    /\ Up
    /\ req[q].at = "idle"
    /\ e \in envs
    /\ \/ Arrived(q, e, "control")
       \/ status[e] # "running" /\ Arrived(q, e, "list")
    /\ UNCHANGED <<vars, made, older, sent, spared>>

(* serveControl: redeploy triggers, and is refused for an environment that *)
(* is gone by then; status, and a request without the token, only answer.  *)
Control(q) ==
    /\ req[q].at = "control"
    /\ Trigger(req[q].env) \/ UNCHANGED vars
    /\ Answered(q)
    /\ UNCHANGED <<made, older, sent, spared>>

(* The second half of ready: ListByEnv, which may fail.  It asks for the   *)
(* label, so a container of any name will do.                              *)
List(q) ==
    /\ req[q].at = "list"
    /\ \/ Labelled(req[q].env) # {} /\ Step(q, "reverse")
       \/ Answered(q)
    /\ UNCHANGED <<vars, made, older, sent, spared>>

Took(q) == LET e == req[q].env IN
    /\ req' = [req EXCEPT ![q].at = "dial", ![q].clear = made[e], ![q].old = older[e]]
    /\ sent' = [sent EXCEPT ![made[e]] = @ + 1]
    /\ UNCHANGED <<made, older, spared>>

(* Mutant: Take leaves the mark where it is.                               *)
ReverseKeepingMark(q) ==
    /\ req[q].at = "reverse"
    /\ \/ req[q].env \in mark /\ Took(q) /\ UNCHANGED vars
       \/ Step(q, "dial") /\ UNCHANGED <<vars, made, older, sent, spared>>

(* reverse: a navigation takes the mark if there is one; other requests    *)
(* leave it.                                                               *)
Reverse(q) ==
    /\ req[q].at = "reverse"
    /\ \/ TakeMark(req[q].env) /\ Took(q)
       \/ Step(q, "dial") /\ UNCHANGED <<vars, made, older, sent, spared>>

(* The container that has by now the name in the row that resolve read     *)
(* answers, container[req[q].name]; if there is none, or it does not       *)
(* listen, the splash page, with the header that was set before.           *)
Dial(q) ==
    /\ req[q].at = "dial"
    /\ Answered(q)
    /\ UNCHANGED <<vars, made, older, sent, spared>>

-----------------------------------------------------------------------------
Serve(q) == Control(q) \/ List(q) \/ Reverse(q) \/ Dial(q)

GateNext == \/ Engine
            \/ \E q \in Requests : \/ \E e \in EnvIds : Arrive(q, e)
                                   \/ Serve(q)

GateSpec == GateInit /\ [][GateNext]_allVars

-----------------------------------------------------------------------------
(* Properties.                                                             *)

(* reverse and Flags.Mark: the page that tells the browser to drop what    *)
(* the environment left with it never comes from a container that the      *)
(* redeploy was to replace: nothing old can be stored again behind the     *)
(* clearing.  Two exceptions: a compose deployment does not replace the    *)
(* container that an environment had before its type was changed, and      *)
(* where an environment was renamed, a removal that failed is only a       *)
(* warning and docker run does not fail over it, so that a request that    *)
(* goes by another name than the deployment's may reach what was left.     *)
ClearedPageIsNew ==
    \A q \in Requests :
        /\ req[q].at = "dial"
        /\ req[q].clear # Nobody
        /\ plan[req[q].clear] = "container"
        /\ req[q].name = named[req[q].clear] \/ req[q].clear \notin spared
        => container[req[q].name] \notin req[q].old

(* clearsite.go:42 "the header is sent only once per redeploy": whatever   *)
(* requests race for the mark while the environment is redeployed.         *)
ClearedOnce == \A d \in DeployIds : sent[d] <= 1

(* ready: a request that gets past it, to take the mark and reach the      *)
(* container, has overlapped a time when the environment was not being     *)
(* deployed; it is let through in mid-deploy only because the deploy began *)
(* behind its back, met its deadline, or was hidden by a client's word.    *)
ServedAtRest == \A q \in Requests : req[q].at \in {"reverse", "dial"} => req[q].rested
=============================================================================
