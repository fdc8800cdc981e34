---------------------------- MODULE DeployEngine ----------------------------
(***************************************************************************)
(* The deploy engine of edp (internal/deploy), the rows it keeps in the    *)
(* store (environments, deployments), the workloads it puts on the Docker  *)
(* host, the API calls that touch the same rows, and the process's death   *)
(* and restart.                                                            *)
(*                                                                         *)
(* Every deployment is worked by a goroutine of its own.  The goroutines   *)
(* of one environment take turns under that environment's mutex; those of  *)
(* different environments interleave.  One action is one statement on the  *)
(* store (the store has one connection, so a statement is atomic) or one   *)
(* Docker command.  The store fails only as the code provokes it: a        *)
(* statement under a context whose deadline has passed does nothing, and   *)
(* an insert that violates a foreign key is refused.                       *)
(***************************************************************************)
EXTENDS Naturals, FiniteSets

CONSTANTS EnvIds,        \* ids environments may get; ids are never reused
          ClearEnvs,     \* the environments with clear_site_data set
          Names,         \* names of containers, as the environments' names give them
          MaxDeploys,    \* bound: deployments triggered in a behaviour
          MaxRestarts    \* bound: times the process dies

ASSUME ConstantsAssumption == /\ EnvIds # {}
                              /\ Names # {}
                              /\ MaxDeploys \in Nat
                              /\ MaxRestarts \in Nat
                              /\ ClearEnvs \subseteq EnvIds

DeployIds == 1 .. MaxDeploys

Nobody == 0        \* no deployment: a free lock, an empty slot

Kinds == {"container", "compose"}
Results == {"success", "failed"}
EnvStatuses == {"idle", "running"} \cup Results
RowStatuses == {"absent", "queued", "running"} \cup Results

VARIABLES
    boot,        \* how far ResetInterrupted has got since the process started
    restarts,    \* times the process has died
    nextId,      \* AUTOINCREMENT of deployments
    created,     \* environments ever inserted
    envs,        \* environments with a row
    status,      \* environments.status
    name,        \* naming.ContainerName of environments.name
    kind,        \* environments.deploy_type
    row,         \* deployments.status
    envOf,       \* deployments.env_id, which the worker also carries
    pc,          \* where each deployment's goroutine is
    plan,        \* the deploy type the goroutine read; "none": no env loaded
    named,       \* the container's name in the row the goroutine read
    result,      \* the outcome it will record
    expired,     \* deployments whose 30-minute context ended before they did
    lock,        \* Engine.locks: the deployment that holds each env's mutex
    container,   \* per name, the deployment whose container has it; that
                 \* deployment's environment is the container's edp.env label
    stack,       \* per env, the deployment whose compose stack is there
    mark,        \* clearsite.Flags.pending
    claimed      \* history: envs whose status is a client's word, not the engine's

store   == <<nextId, created, envs, status, name, kind, row, envOf>>
workers == <<pc, plan, named, result, expired, lock>>
host    == <<container, stack>>
vars    == <<boot, restarts, store, workers, host, mark, claimed>>

(* Program points at which the goroutine holds the lock and its context    *)
(* is alive: between lock.Lock() and the deferred unlock.                  *)
Holding == {"mark", "envrun", "load", "prepare", "build", "remove", "run", "down",
            "up", "check", "finish_row", "finish_env", "release"}

(* The part of Holding in which the pipeline proper runs: the environment  *)
(* has been set to running and the outcome has not been written over it.   *)
Pipeline == {"load", "prepare", "build", "remove", "run", "down", "up", "check",
             "finish_row", "finish_env"}

(* Where it waits for a command, or for a health check.                    *)
Commands == {"prepare", "build", "remove", "run", "down", "up", "check"}

PCs == {"none", "lock", "done"} \cup Holding

Workloads(e) ==
    {d \in DeployIds : envOf[d] = e /\ (stack[e] = d \/ \E n \in Names : container[n] = d)}

(* The containers with the label edp.env=<e>.                              *)
Labelled(e) == {n \in Names : container[n] # Nobody /\ envOf[container[n]] = e}

Rows(e) == {d \in DeployIds : row[d] # "absent" /\ envOf[d] = e}

TypeOK == /\ boot \in {"deployments", "environments", "up"}
          /\ restarts \in 0 .. MaxRestarts
          /\ nextId \in 1 .. (MaxDeploys + 1)
          /\ created \subseteq EnvIds
          /\ envs \subseteq created
          /\ status \in [EnvIds -> EnvStatuses]
          /\ name \in [EnvIds -> Names]
          /\ kind \in [EnvIds -> Kinds]
          /\ row \in [DeployIds -> RowStatuses]
          /\ envOf \in [DeployIds -> EnvIds]
          /\ pc \in [DeployIds -> PCs]
          /\ plan \in [DeployIds -> Kinds \cup {"none"}]
          /\ named \in [DeployIds -> Names]
          /\ result \in [DeployIds -> Results \cup {"none"}]
          /\ expired \subseteq DeployIds
          /\ lock \in [EnvIds -> DeployIds \cup {Nobody}]
          /\ container \in [Names -> DeployIds \cup {Nobody}]
          /\ stack \in [EnvIds -> DeployIds \cup {Nobody}]
          /\ mark \subseteq EnvIds
          /\ claimed \subseteq EnvIds

AnyName == CHOOSE n \in Names : TRUE

Init == /\ boot = "up"
        /\ restarts = 0
        /\ nextId = 1
        /\ created = {}
        /\ envs = {}
        /\ status = [e \in EnvIds |-> "idle"]
        /\ name = [e \in EnvIds |-> AnyName]
        /\ kind = [e \in EnvIds |-> "container"]
        /\ row = [d \in DeployIds |-> "absent"]
        /\ envOf = [d \in DeployIds |-> CHOOSE e \in EnvIds : TRUE]
        /\ pc = [d \in DeployIds |-> "none"]
        /\ plan = [d \in DeployIds |-> "none"]
        /\ named = [d \in DeployIds |-> AnyName]
        /\ result = [d \in DeployIds |-> "none"]
        /\ expired = {}
        /\ lock = [e \in EnvIds |-> Nobody]
        /\ container = [n \in Names |-> Nobody]
        /\ stack = [e \in EnvIds |-> Nobody]
        /\ mark = {}
        /\ claimed = {}

-----------------------------------------------------------------------------
(* The API: environments come and go, deployments are triggered.           *)

Up == boot = "up"

(* apiCreateEnv stores the row the client sends, its status included (left *)
(* out, it is idle).  A name that is taken is refused by the table; names  *)
(* that differ may still give containers the same name.                    *)
CreateEnvironment(e, n, k, s) ==
    /\ Up
    /\ e \notin created
    /\ created' = created \cup {e}
    /\ envs' = envs \cup {e}
    /\ status' = [status EXCEPT ![e] = s]
    /\ name' = [name EXCEPT ![e] = n]
    /\ kind' = [kind EXCEPT ![e] = k]
    /\ claimed' = IF s = "idle" THEN claimed ELSE claimed \cup {e}
    /\ UNCHANGED <<boot, restarts, nextId, row, envOf, workers, host, mark>>

(* ON DELETE CASCADE takes the deployments with the environment.  Nothing  *)
(* is done about goroutines, locks or workloads.                           *)
DeleteEnvironment(e) ==
    /\ Up
    /\ e \in envs
    /\ envs' = envs \ {e}
    /\ row' = [d \in DeployIds |-> IF d \in Rows(e) THEN "absent" ELSE row[d]]
    /\ UNCHANGED <<boot, restarts, nextId, created, status, name, kind, envOf,
                   workers, host, mark, claimed>>

(* Trigger, from whichever caller: apiDeploy, a webhook, the scheduler,    *)
(* the splash page's redeploy, auto-deploy.  The insert is refused for an  *)
(* environment that is gone; otherwise the goroutine exists at once.       *)
Trigger(e) ==
    /\ Up
    /\ e \in envs
    /\ nextId \in DeployIds
    /\ nextId' = nextId + 1
    /\ row' = [row EXCEPT ![nextId] = "queued"]
    /\ envOf' = [envOf EXCEPT ![nextId] = e]
    /\ pc' = [pc EXCEPT ![nextId] = "lock"]
    /\ UNCHANGED <<boot, restarts, created, envs, status, name, kind, plan,
                   named, result, expired, lock, host, mark, claimed>>

(* apiUpdateEnv and apiRotateToken read a row, lay the client's body over  *)
(* it (id and status are fields of the body like any other), and later     *)
(* write the whole row.  So any row may be given any name, type and        *)
(* status, be it the client's word or the one that was read before the     *)
(* engine wrote another; the read restricts nothing, and is left out.      *)
UpdateEnvironment(e, n, k, s) ==
    /\ Up
    /\ e \in envs
    /\ status' = [status EXCEPT ![e] = s]
    /\ name' = [name EXCEPT ![e] = n]
    /\ kind' = [kind EXCEPT ![e] = k]
    /\ claimed' = IF s = status[e] THEN claimed ELSE claimed \cup {e}
    /\ UNCHANGED <<boot, restarts, nextId, created, envs, row, envOf, workers,
                   host, mark>>

-----------------------------------------------------------------------------
(* Engine.work, statement by statement.                                    *)

Goto(d, p) == pc' = [pc EXCEPT ![d] = p]

UpdateRow(d, s) ==       \* UPDATE deployments ... WHERE id=?
    row' = IF d \in expired \/ row[d] = "absent" THEN row
           ELSE [row EXCEPT ![d] = s]

SetStatus(d, s) ==       \* UPDATE environments SET status=? WHERE id=?
    LET e == envOf[d] IN
    IF d \in expired \/ e \notin envs
    THEN UNCHANGED <<status, claimed>>
    ELSE /\ status' = [status EXCEPT ![e] = s]
         /\ claimed' = claimed \ {e}

(* Mutant: the goroutine does not wait for the mutex.                      *)
AcquireWithoutWaiting(d) ==
    /\ pc[d] = "lock"
    /\ lock' = [lock EXCEPT ![envOf[d]] = d]
    /\ Goto(d, "mark")
    /\ UNCHANGED <<boot, restarts, store, plan, named, result, expired, host,
                   mark, claimed>>

Acquire(d) ==
    /\ pc[d] = "lock"
    /\ lock[envOf[d]] = Nobody
    /\ lock' = [lock EXCEPT ![envOf[d]] = d]
    /\ Goto(d, "mark")
    /\ UNCHANGED <<boot, restarts, store, plan, named, result, expired, host,
                   mark, claimed>>

(* The deadline of the context passes.  Nothing tells the goroutine: its   *)
(* next store statement or command fails.                                  *)
Expire(d) ==
    /\ pc[d] \in Holding \ {"release"}
    /\ d \notin expired
    /\ expired' = expired \cup {d}
    /\ UNCHANGED <<boot, restarts, store, pc, plan, named, result, lock, host,
                   mark, claimed>>

MarkDeploymentRunning(d) ==
    /\ pc[d] = "mark"
    /\ UpdateRow(d, "running")
    /\ Goto(d, "envrun")
    /\ UNCHANGED <<boot, restarts, nextId, created, envs, status, name, kind,
                   envOf, plan, named, result, expired, lock, host, mark,
                   claimed>>

MarkEnvironmentRunning(d) ==
    /\ pc[d] = "envrun"
    /\ SetStatus(d, "running")
    /\ Goto(d, "load")
    /\ UNCHANGED <<boot, restarts, nextId, created, envs, name, kind, row, envOf,
                   plan, named, result, expired, lock, host, mark>>

(* GetEnvironment: an error or a missing row ends the deployment, and      *)
(* finish, given no environment, leaves environments.status alone.         *)
Load(d) ==
    /\ pc[d] = "load"
    /\ IF d \in expired \/ envOf[d] \notin envs
       THEN /\ result' = [result EXCEPT ![d] = "failed"]
            /\ Goto(d, "finish_row")
            /\ UNCHANGED <<plan, named>>
       ELSE /\ plan' = [plan EXCEPT ![d] = kind[envOf[d]]]
            /\ named' = [named EXCEPT ![d] = name[envOf[d]]]
            /\ Goto(d, "prepare")
            /\ UNCHANGED result
    /\ UNCHANGED <<boot, restarts, store, expired, lock, host, mark, claimed>>

-----------------------------------------------------------------------------
(* Engine.deploy: the pipeline between Load and finish.                    *)

Fail(d) == /\ result' = [result EXCEPT ![d] = "failed"]
           /\ Goto(d, "finish_row")

(* Setup hook and git.  Either may fail; once the deadline is past every   *)
(* command fails.                                                          *)
Prepare(d) ==
    /\ pc[d] = "prepare"
    /\ \/ /\ d \notin expired
          /\ Goto(d, IF plan[d] = "container" THEN "build" ELSE "down")
          /\ UNCHANGED result
       \/ Fail(d)
    /\ UNCHANGED <<boot, restarts, store, plan, named, expired, lock, host, mark,
                   claimed>>

(* docker pull, or docker build from git or from an inline Dockerfile.     *)
Build(d) ==
    /\ pc[d] = "build"
    /\ \/ d \notin expired /\ Goto(d, "remove") /\ UNCHANGED result
       \/ Fail(d)
    /\ UNCHANGED <<boot, restarts, store, plan, named, expired, lock, host, mark,
                   claimed>>

(* RemoveContainersByEnv: every container with the environment's label,    *)
(* whatever its name.  A failure, which may have removed some, is a        *)
(* warning in the log.                                                     *)
RemoveOldContainer(d) ==
    /\ pc[d] = "remove"
    /\ \E gone \in SUBSET Labelled(envOf[d]) :
           container' = [n \in Names |-> IF n \in gone THEN Nobody ELSE container[n]]
    /\ Goto(d, "run")
    /\ UNCHANGED <<boot, restarts, store, plan, named, result, expired, lock,
                   stack, mark, claimed>>

ContainerCreated(d) == /\ container[named[d]] = Nobody
                       /\ container' = [container EXCEPT ![named[d]] = d]

(* Mutant: the error of docker run is taken for a warning.                 *)
RunContainerIgnoringErrors(d) ==
    /\ pc[d] = "run"
    /\ ContainerCreated(d) \/ UNCHANGED container
    /\ Goto(d, "check")
    /\ UNCHANGED <<boot, restarts, store, plan, named, result, expired, lock,
                   stack, mark, claimed>>

(* docker run --name: refused while a container, of whatever environment,  *)
(* has the name.  A failing or killed client may leave the container it    *)
(* asked for.                                                              *)
RunContainer(d) ==
    /\ pc[d] = "run"
    /\ \/ d \notin expired /\ ContainerCreated(d) /\ Goto(d, "check") /\ UNCHANGED result
       \/ (ContainerCreated(d) \/ UNCHANGED container) /\ Fail(d)
    /\ UNCHANGED <<boot, restarts, store, plan, named, expired, lock, stack,
                   mark, claimed>>

(* docker compose down, when the environment sweeps volumes; its failure   *)
(* is ignored.                                                             *)
TearDownStack(d) ==
    /\ pc[d] = "down"
    /\ \/ d \notin expired /\ stack' = [stack EXCEPT ![envOf[d]] = Nobody]
       \/ UNCHANGED stack
    /\ Goto(d, "up")
    /\ UNCHANGED <<boot, restarts, store, plan, named, result, expired, lock,
                   container, mark, claimed>>

(* docker compose up reuses what is there; a failure leaves some of it.    *)
BringUpStack(d) ==
    LET Replaced == stack' = [stack EXCEPT ![envOf[d]] = d]
    IN /\ pc[d] = "up"
       /\ \/ d \notin expired /\ Replaced /\ Goto(d, "check") /\ UNCHANGED result
          \/ (Replaced \/ UNCHANGED stack) /\ Fail(d)
       /\ UNCHANGED <<boot, restarts, store, plan, named, expired, lock,
                      container, mark, claimed>>

(* Cleanup hook (its failure is a warning), health check (skipped for      *)
(* compose stacks), prune.  A success leaves a clear-site-data mark.  The  *)
(* deadline does not fail a deployment that has no health check.           *)
Check(d) ==
    /\ pc[d] = "check"
    /\ \/ /\ result' = [result EXCEPT ![d] = "success"]
          /\ mark' = mark \cup ({envOf[d]} \cap ClearEnvs)
          /\ Goto(d, "finish_row")
       \/ plan[d] = "container" /\ Fail(d) /\ UNCHANGED mark
    /\ UNCHANGED <<boot, restarts, store, plan, named, expired, lock, host,
                   claimed>>

-----------------------------------------------------------------------------
(* finish, under the same context as the pipeline, and the deferred calls. *)

FinishDeployment(d) ==
    /\ pc[d] = "finish_row"
    /\ UpdateRow(d, result[d])
    /\ Goto(d, IF plan[d] = "none" THEN "release" ELSE "finish_env")
    /\ UNCHANGED <<boot, restarts, nextId, created, envs, status, name, kind,
                   envOf, plan, named, result, expired, lock, host, mark,
                   claimed>>

(* Mutant: a failed deployment returns before it resets the environment.   *)
FinishEnvironmentIfSuccessful(d) ==
    /\ pc[d] = "finish_env"
    /\ IF result[d] = "success" THEN SetStatus(d, "success")
                                ELSE UNCHANGED <<status, claimed>>
    /\ Goto(d, "release")
    /\ UNCHANGED <<boot, restarts, nextId, created, envs, name, kind, row, envOf,
                   plan, named, result, expired, lock, host, mark>>

FinishEnvironment(d) ==
    /\ pc[d] = "finish_env"
    /\ SetStatus(d, result[d])
    /\ Goto(d, "release")
    /\ UNCHANGED <<boot, restarts, nextId, created, envs, name, kind, row, envOf,
                   plan, named, result, expired, lock, host, mark>>

(* Mutant: the early return leaves without unlocking.                      *)
ReleaseUnlessEarly(d) ==
    /\ pc[d] = "release"
    /\ lock' = IF plan[d] = "none" THEN lock
               ELSE [lock EXCEPT ![envOf[d]] = Nobody]
    /\ Goto(d, "done")
    /\ UNCHANGED <<boot, restarts, store, plan, named, result, expired, host,
                   mark, claimed>>

Release(d) ==
    /\ pc[d] = "release"
    /\ lock' = [lock EXCEPT ![envOf[d]] = Nobody]
    /\ Goto(d, "done")
    /\ UNCHANGED <<boot, restarts, store, plan, named, result, expired, host,
                   mark, claimed>>

-----------------------------------------------------------------------------
(* The proxy, on the first page it serves of an environment after a        *)
(* deployment succeeded: clearsite.Flags.Take.  ProxyGate has the request. *)
TakeMark(e) ==
    /\ Up
    /\ e \in mark
    /\ mark' = mark \ {e}
    /\ UNCHANGED <<boot, restarts, store, workers, host, claimed>>

-----------------------------------------------------------------------------
(* The process dies at any point and takes its memory with it; what it put *)
(* on the Docker host stays.  On start, before anything else runs,         *)
(* ResetInterrupted closes the books, one statement at a time.             *)

Crash ==
    /\ restarts < MaxRestarts
    /\ restarts' = restarts + 1
    /\ boot' = "deployments"
    /\ pc' = [d \in DeployIds |-> "none"]
    /\ plan' = [d \in DeployIds |-> "none"]
    /\ named' = [d \in DeployIds |-> AnyName]
    /\ result' = [d \in DeployIds |-> "none"]
    /\ expired' = {}
    /\ lock' = [e \in EnvIds |-> Nobody]
    /\ mark' = {}
    /\ UNCHANGED <<store, host, claimed>>

(* Mutant: rows that were waiting for the mutex are forgotten.             *)
ResetRunningDeployments ==
    /\ boot = "deployments"
    /\ row' = [d \in DeployIds |-> IF row[d] = "running" THEN "failed" ELSE row[d]]
    /\ boot' = "environments"
    /\ UNCHANGED <<restarts, nextId, created, envs, status, name, kind, envOf,
                   workers, host, mark, claimed>>

(* Mutant: the statement has lost its WHERE.                               *)
ResetEveryDeployment ==
    /\ boot = "deployments"
    /\ row' = [d \in DeployIds |-> IF row[d] # "absent" THEN "failed" ELSE row[d]]
    /\ boot' = "environments"
    /\ UNCHANGED <<restarts, nextId, created, envs, status, name, kind, envOf,
                   workers, host, mark, claimed>>

ResetDeployments ==
    /\ boot = "deployments"
    /\ row' = [d \in DeployIds |-> IF row[d] \in {"queued", "running"} THEN "failed"
                                   ELSE row[d]]
    /\ boot' = "environments"
    /\ UNCHANGED <<restarts, nextId, created, envs, status, name, kind, envOf,
                   workers, host, mark, claimed>>

ResetEnvironments ==
    /\ boot = "environments"
    /\ status' = [e \in EnvIds |-> IF e \in envs /\ status[e] = "running" THEN "idle"
                                   ELSE status[e]]
    /\ claimed' = {e \in claimed : e \notin envs \/ status[e] # "running"}
    /\ boot' = "up"
    /\ UNCHANGED <<restarts, nextId, created, envs, name, kind, row, envOf,
                   workers, host, mark>>

-----------------------------------------------------------------------------
Work(d) == \/ Acquire(d) \/ MarkDeploymentRunning(d) \/ MarkEnvironmentRunning(d)
           \/ Load(d) \/ Prepare(d) \/ Build(d) \/ RemoveOldContainer(d)
           \/ RunContainer(d) \/ TearDownStack(d) \/ BringUpStack(d) \/ Check(d)
           \/ FinishDeployment(d) \/ FinishEnvironment(d) \/ Release(d)

Start == ResetDeployments \/ ResetEnvironments

Next == \/ \E e \in EnvIds : \/ \E n \in Names, k \in Kinds, s \in EnvStatuses :
                                   \/ CreateEnvironment(e, n, k, s)
                                   \/ UpdateEnvironment(e, n, k, s)
                             \/ DeleteEnvironment(e)
                             \/ Trigger(e)
                             \/ TakeMark(e)
        \/ \E d \in DeployIds : Work(d) \/ Expire(d)
        \/ Crash \/ Start

Spec == Init /\ [][Next]_vars

Statement(d) == pc[d] \notin Commands /\ Work(d)

(* The Go scheduler runs every runnable goroutine, and a process that is   *)
(* started boots.  A mutex waiter is not overtaken forever: Go hands a     *)
(* contended mutex to its oldest waiter.  Nothing makes a client, a crash  *)
(* or a deadline occur, nor a command come back: the deadline ends it, but *)
(* not what it may leave behind (see CommandLog).                          *)
Fairness == /\ \A d \in DeployIds : WF_vars(Statement(d)) /\ SF_vars(Acquire(d))
            /\ WF_vars(Start)

FairSpec == Spec /\ Fairness

-----------------------------------------------------------------------------
(* Properties.                                                             *)

(* Engine.locks: of one environment's deployments, at most one is between  *)
(* lock.Lock() and its deferred unlock, and it is the one the mutex names. *)
(* Everything the pipeline does to containers and rows relies on it.       *)
OnePipelinePerEnv ==
    \A d, f \in DeployIds :
        /\ pc[d] \in Holding => lock[envOf[d]] = d
        /\ pc[d] \in Holding /\ pc[f] \in Holding /\ envOf[d] = envOf[f] => d = f

(* ResetInterrupted and work: once the process is up, a row that reads     *)
(* queued or running has a live goroutine behind it, unless the deadline   *)
(* of its context made the recording of its outcome fail.                  *)
NoOrphanedRow ==
    Up => \A d \in DeployIds :
            row[d] \in {"queued", "running"} =>
                pc[d] \in {"lock"} \cup Holding \/ d \in expired

(* The proxy shows the splash page and the scheduler skips an environment  *)
(* whose status is running.  It is stuck there for two reasons only: a     *)
(* deployment outlived its context, or the status is a client's word.      *)
NoStuckEnvironment ==
    Up => \A e \in envs \ claimed :
            status[e] = "running" =>
                \E d \in DeployIds :
                    envOf[d] = e /\ (pc[d] \in Pipeline \/ d \in expired)

(* An environment that reads success by the engine's word has a workload   *)
(* of a deployment recorded as successful: no interleaving of deploys,     *)
(* renames, deletions, failures and crashes, of this environment or of one *)
(* whose containers get the same name, leaves it claiming success over a   *)
(* removed container.                                                      *)
SuccessIsServed ==
    \A e \in envs \ claimed :
        status[e] = "success" => \E d \in Workloads(e) : row[d] = "success"

(* A workload is removed or replaced only by a deployment that holds its   *)
(* environment's mutex, and only to make room for that deployment's own.   *)
WorkloadUnderLock ==
    [][/\ \A n \in Names : container'[n] # container[n] =>
            \E e \in EnvIds :
                /\ lock[e] # Nobody /\ lock'[e] = lock[e]
                /\ IF container[n] = Nobody THEN container'[n] = lock[e]
                   ELSE container'[n] = Nobody /\ envOf[container[n]] = e
       /\ \A e \in EnvIds : stack'[e] # stack[e] =>
                /\ lock[e] # Nobody /\ lock'[e] = lock[e]
                /\ stack'[e] \in {Nobody, lock[e]}]_vars

(* The rows of the deployments table are a job table: see JobLifecycle.    *)
JobState == [d \in DeployIds |->
                IF row[d] # "absent" THEN row[d]
                ELSE IF d < nextId THEN "gone" ELSE "unborn"]

Jobs == INSTANCE JobLifecycle WITH Jobs <- DeployIds, job <- JobState

RowsAreJobs == Jobs!Spec

(* Every deployment that is triggered is worked and recorded, or loses its *)
(* row to a deletion, or outlives its context, in which case it stays as   *)
(* it is until the process restarts; unless a command of a deployment of   *)
(* its environment, perhaps another one, never comes back.                 *)
EveryDeploySettles ==
    \A d \in DeployIds :
        \/ \E f \in DeployIds : <>[](pc[f] \in Commands /\ envOf[f] = envOf[d])
        \/ row[d] \in {"queued", "running"} ~>
               row[d] \notin {"queued", "running"} \/ d \in expired

-----------------------------------------------------------------------------
(* What the documentation says and the code does not do.                   *)

(* edp/README.md:23 "every deploy records its duration": a goroutine that  *)
(* entered the pipeline and has run to its end has recorded the outcome.   *)
EveryDeployIsRecorded ==
    \A d \in DeployIds : pc[d] = "done" /\ plan[d] # "none" =>
                            row[d] \notin {"queued", "running"}

=============================================================================
