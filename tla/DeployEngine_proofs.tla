------------------------ MODULE DeployEngine_proofs ------------------------
(***************************************************************************)
(* Proofs about DeployEngine, for every set of environments and of    *)
(* container names and every bound on deployments and restarts, and about ProxyGate, which *)
(* rest on the inductive invariant of the engine, for every set of         *)
(* requests.                                                               *)
(***************************************************************************)
EXTENDS ProxyGate, TLAPS

Pending == {"queued", "running"}

-----------------------------------------------------------------------------
(* The inductive invariant, part by part.                                  *)

(* A deployment that has not been triggered has left no trace.             *)
FreshIds ==
    /\ \A d \in DeployIds : d >= nextId =>
            pc[d] = "none" /\ row[d] = "absent" /\ d \notin expired
    /\ \A n \in Names : container[n] < nextId
    /\ \A e \in EnvIds : stack[e] < nextId

(* A deployment's environment was created, and the deployment's row is     *)
(* there as long as its environment's is.                                  *)
RowsMatchEnvs ==
    \A d \in DeployIds : d < nextId =>
        /\ envOf[d] \in created
        /\ envOf[d] \in envs => row[d] # "absent"

(* Inside the critical section the mutex names its holder.                 *)
LockNamesHolder ==
    \A d \in DeployIds : pc[d] \in Holding => lock[envOf[d]] = d

(* While the process boots no goroutine of it exists, and after the first  *)
(* statement of ResetInterrupted no row is pending.                        *)
BootIsQuiet ==
    /\ boot # "up" => \A d \in DeployIds : pc[d] = "none"
    /\ boot = "environments" => \A d \in DeployIds : row[d] \notin Pending

(* What the row says follows from where its goroutine is.                  *)
RowFollowsWorker ==
    \A d \in DeployIds :
        /\ pc[d] \in {"lock", "mark"} => row[d] \in {"queued", "absent"}
        /\ pc[d] \in {"envrun"} \cup (Pipeline \ {"finish_env"}) =>
                \/ row[d] \in {"running", "absent"}
                \/ row[d] = "queued" /\ d \in expired
        /\ pc[d] \in {"finish_env", "release"} =>
                \/ row[d] \in {result[d], "absent"}
                \/ row[d] \in Pending /\ d \in expired
        /\ pc[d] = "done" => row[d] \notin Pending \/ d \in expired
        /\ pc[d] = "none" /\ Up => row[d] \notin Pending

(* What the goroutine knows follows from where it is.                      *)
WorkerKnows ==
    \A d \in DeployIds :
        /\ pc[d] \in {"none", "lock", "mark", "envrun", "load"} => plan[d] = "none"
        /\ pc[d] \in {"prepare", "build", "remove", "run", "down", "up", "check",
                      "finish_env"} => plan[d] \in Kinds
        /\ pc[d] = "finish_row" /\ plan[d] = "none" =>
                /\ result[d] = "failed"
                /\ d \in expired \/ envOf[d] \notin envs
        /\ pc[d] \in {"finish_row", "finish_env", "release"} => result[d] \in Results

(* The step that may remove or replace a workload knows its own kind.      *)
StepMatchesPlan ==
    \A d \in DeployIds :
        /\ pc[d] \in {"build", "remove", "run"} => plan[d] = "container"
        /\ pc[d] \in {"down", "up"} => plan[d] = "compose"

(* In the pipeline the environment reads running, unless its row is gone,  *)
(* a client overwrote it, or the deadline kept it from being set.          *)
PipelineShows ==
    \A d \in DeployIds : pc[d] \in Pipeline =>
        \/ envOf[d] \notin envs
        \/ status[envOf[d]] = "running"
        \/ envOf[d] \in claimed
        \/ d \in expired /\ plan[d] = "none"

(* The workload that the deployment's own plan calls for is there.         *)
Stands(d) == IF plan[d] = "container" THEN container[named[d]] = d
                                      ELSE stack[envOf[d]] = d

(* The workload of a deployment that got past docker run, or that is about *)
(* to record success, is there.                                            *)
WorkloadOwner ==
    \A d \in DeployIds :
        \/ pc[d] = "check"
        \/ pc[d] \in {"finish_row", "finish_env"} /\ result[d] = "success"
        => Stands(d)

IInv == /\ TypeOK
        /\ FreshIds
        /\ RowsMatchEnvs
        /\ LockNamesHolder
        /\ BootIsQuiet
        /\ RowFollowsWorker
        /\ WorkerKnows
        /\ StepMatchesPlan
        /\ PipelineShows
        /\ WorkloadOwner
        /\ NoStuckEnvironment
        /\ SuccessIsServed

-----------------------------------------------------------------------------
(* A step that leaves alone the rows, and the workloads of an environment, *)
(* leaves it as well served as it was.                                     *)
LEMMA ServedStaysServed ==
  ASSUME NEW e \in EnvIds, row' = row, envOf' = envOf, stack'[e] = stack[e],
         \A n \in Labelled(e) : container'[n] = container[n],
         IInv,
         \E d \in Workloads(e) : row[d] = "success"
  PROVE  \E d \in Workloads(e)' : row'[d] = "success"
<1>1. PICK d \in Workloads(e) : row[d] = "success"
  OBVIOUS
<1>2. d \in DeployIds /\ envOf[d] = e /\ d # Nobody
  BY ConstantsAssumption DEF Workloads, DeployIds, Nobody
<1>3. CASE stack[e] = d
  BY <1>1, <1>2, <1>3 DEF Workloads
<1>4. CASE \E n \in Names : container[n] = d
  BY <1>1, <1>2, <1>4 DEF Workloads, Labelled
<1> QED
  BY <1>1, <1>3, <1>4 DEF Workloads

-----------------------------------------------------------------------------
(* One lemma per action: the parts it cannot disturb first, then the rest. *)

LEMMA CreateEnvironmentStep ==
  ASSUME NEW e \in EnvIds, NEW n \in Names, NEW k \in Kinds, NEW s \in EnvStatuses,
         IInv, CreateEnvironment(e, n, k, s)
  PROVE  IInv'
<1>1. /\ FreshIds' /\ RowsMatchEnvs' /\ LockNamesHolder' /\ BootIsQuiet'
      /\ RowFollowsWorker' /\ StepMatchesPlan' /\ WorkloadOwner'
  BY DEF IInv, CreateEnvironment, FreshIds, Up, workers, host, RowsMatchEnvs,
      LockNamesHolder, BootIsQuiet, RowFollowsWorker, StepMatchesPlan,
      WorkloadOwner, Stands
<1>2. TypeOK'
  BY DEF IInv, CreateEnvironment, TypeOK, DeployIds, Nobody, Kinds,
      Results, EnvStatuses, RowStatuses, PCs, Holding, Up, workers,
      host
<1>3. WorkerKnows'
  BY ConstantsAssumption DEF IInv, CreateEnvironment, TypeOK, WorkerKnows,
      FreshIds, RowsMatchEnvs, DeployIds, Nobody, Kinds, Results, EnvStatuses,
      RowStatuses, PCs, Holding, Up, workers, host
<1>4. PipelineShows'
  BY ConstantsAssumption DEF IInv, CreateEnvironment, TypeOK, PipelineShows,
      FreshIds, RowsMatchEnvs, LockNamesHolder, BootIsQuiet, WorkerKnows,
      DeployIds, Nobody, Kinds, Results, EnvStatuses, RowStatuses, PCs, Holding,
      Pipeline, Pending, Up, workers, host
<1>5. NoStuckEnvironment'
  BY DEF IInv, CreateEnvironment, TypeOK, NoStuckEnvironment, DeployIds, Nobody,
      Kinds, Results, EnvStatuses, RowStatuses, PCs, Holding, Pipeline,
      Up, workers, host
<1>6. SuccessIsServed'
  BY DEF IInv, CreateEnvironment, TypeOK, SuccessIsServed, DeployIds, Nobody,
      Kinds, Results, EnvStatuses, RowStatuses, PCs, Holding, Workloads, Up, workers,
      host
<1> QED
  BY <1>1, <1>2, <1>3, <1>4, <1>5, <1>6 DEF IInv

LEMMA DeleteEnvironmentStep ==
  ASSUME NEW e \in EnvIds, IInv, DeleteEnvironment(e)
  PROVE  IInv'
<1>1. /\ FreshIds' /\ RowsMatchEnvs' /\ LockNamesHolder' /\ BootIsQuiet'
      /\ WorkerKnows' /\ StepMatchesPlan' /\ PipelineShows' /\ WorkloadOwner'
      /\ NoStuckEnvironment'
  BY DEF IInv, DeleteEnvironment, FreshIds, DeployIds, Rows, Up, workers, host,
      RowsMatchEnvs, LockNamesHolder, BootIsQuiet, WorkerKnows, StepMatchesPlan,
      PipelineShows, WorkloadOwner, Stands, NoStuckEnvironment
<1>2. TypeOK'
  BY DEF IInv, DeleteEnvironment, TypeOK, DeployIds, Nobody, Kinds,
      Results, EnvStatuses, RowStatuses, PCs, Holding, Rows, Up,
      workers, host
<1>3. RowFollowsWorker'
  BY DEF IInv, DeleteEnvironment, TypeOK, RowFollowsWorker, DeployIds, Nobody,
      Kinds, Results, EnvStatuses, RowStatuses, PCs, Holding, Pipeline, Pending,
      Rows, Up, workers, host
<1>4. SuccessIsServed'
  BY ConstantsAssumption DEF IInv, DeleteEnvironment, TypeOK, SuccessIsServed,
      FreshIds, RowsMatchEnvs, RowFollowsWorker, WorkerKnows, StepMatchesPlan,
      PipelineShows, WorkloadOwner, DeployIds, Nobody, Kinds, Results,
      EnvStatuses, RowStatuses, PCs, Holding, Pipeline, Pending, Rows,
      Stands, Workloads, Up, workers, host
<1> QED
  BY <1>1, <1>2, <1>3, <1>4 DEF IInv

LEMMA TriggerStep ==
  ASSUME NEW e \in EnvIds, IInv, Trigger(e)
  PROVE  IInv'
<1>1. /\ BootIsQuiet' /\ StepMatchesPlan'
  BY DEF IInv, Trigger, BootIsQuiet, DeployIds, Up, host, StepMatchesPlan
<1>2. TypeOK'
  BY ConstantsAssumption DEF IInv, Trigger, TypeOK, WorkerKnows, FreshIds,
      DeployIds, Nobody, Kinds, Results, EnvStatuses, RowStatuses, PCs, Holding,
      Up, host
<1>3. FreshIds'
  <2>1. nextId \in Nat /\ nextId' = nextId + 1
    BY ConstantsAssumption DEF IInv, TypeOK, Trigger, DeployIds
  <2>2. ASSUME NEW f \in DeployIds, f >= nextId'
        PROVE  pc'[f] = "none" /\ row'[f] = "absent" /\ f \notin expired'
    <3>1. f \in Nat /\ f # nextId /\ f >= nextId
      BY ConstantsAssumption, <2>1, <2>2 DEF DeployIds
    <3> QED BY <3>1 DEF IInv, TypeOK, FreshIds, Trigger
  <2>3. ASSUME NEW g \in EnvIds
        PROVE  stack'[g] < nextId'
    <3>1. stack[g] \in Nat /\ stack[g] < nextId /\ stack' = stack
      BY ConstantsAssumption DEF IInv, TypeOK, FreshIds, Trigger, host, DeployIds,
         Nobody
    <3> QED BY <3>1, <2>1
  <2>4. ASSUME NEW n \in Names
        PROVE  container'[n] < nextId'
    <3>1. container[n] \in Nat /\ container[n] < nextId /\ container' = container
      BY ConstantsAssumption DEF IInv, TypeOK, FreshIds, Trigger, host, DeployIds,
         Nobody
    <3> QED BY <3>1, <2>1
  <2> QED BY <2>2, <2>3, <2>4 DEF FreshIds
<1>4. RowsMatchEnvs'
  BY DEF IInv, Trigger, TypeOK, RowsMatchEnvs, DeployIds, Nobody, Kinds, Results,
      EnvStatuses, RowStatuses, PCs, Holding, Up, host
<1>5. LockNamesHolder'
  BY DEF IInv, Trigger, TypeOK, LockNamesHolder, DeployIds, Nobody, Kinds,
      Results, EnvStatuses, RowStatuses, PCs, Holding, Up, host
<1>6. RowFollowsWorker'
  BY DEF IInv, Trigger, TypeOK, RowFollowsWorker, DeployIds, Nobody, Kinds,
      Results, EnvStatuses, RowStatuses, PCs, Holding, Pipeline, Pending,
      Up, host
<1>7. WorkerKnows'
  BY ConstantsAssumption DEF IInv, Trigger, TypeOK, WorkerKnows, FreshIds,
      RowsMatchEnvs, DeployIds, Nobody, Kinds, Results, EnvStatuses, RowStatuses,
      PCs, Holding, Up, host
<1>8. PipelineShows'
  BY DEF IInv, Trigger, TypeOK, PipelineShows, DeployIds, Nobody, Kinds, Results,
      EnvStatuses, RowStatuses, PCs, Holding, Pipeline, Up, host
<1>9. WorkloadOwner'
  BY ConstantsAssumption DEF IInv, Trigger, TypeOK, WorkloadOwner, FreshIds,
      RowsMatchEnvs, LockNamesHolder, WorkerKnows, StepMatchesPlan, DeployIds,
      Nobody, Kinds, Results, EnvStatuses, RowStatuses, PCs, Holding, Stands, Up, host
<1>10. NoStuckEnvironment'
  <2> SUFFICES ASSUME Up', NEW g \in envs' \ claimed', status'[g] = "running"
               PROVE  \E f \in DeployIds :
                          envOf'[f] = g /\ (pc'[f] \in Pipeline \/ f \in expired')
    BY DEF NoStuckEnvironment
  <2>1. Up /\ g \in envs \ claimed /\ status[g] = "running"
    BY DEF Trigger, Up, store
  <2>2. PICK f \in DeployIds : envOf[f] = g /\ (pc[f] \in Pipeline \/ f \in expired)
    BY <2>1 DEF IInv, NoStuckEnvironment
  <2>3. f # nextId
    BY <2>2, ConstantsAssumption DEF IInv, TypeOK, FreshIds, Trigger, Pipeline,
       DeployIds
  <2> QED BY <2>2, <2>3 DEF IInv, TypeOK, Trigger, FreshIds, Pipeline, DeployIds
<1>11. SuccessIsServed'
  BY ConstantsAssumption DEF IInv, Trigger, TypeOK, SuccessIsServed, FreshIds,
      RowsMatchEnvs, RowFollowsWorker, WorkerKnows, StepMatchesPlan,
      PipelineShows, WorkloadOwner, DeployIds, Nobody, Kinds, Results,
      EnvStatuses, RowStatuses, PCs, Holding, Pipeline, Pending, Stands, Workloads,
      Up, host
<1> QED
  BY <1>1, <1>2, <1>3, <1>4, <1>5, <1>6, <1>7, <1>8, <1>9, <1>10, <1>11 DEF IInv

LEMMA UpdateEnvironmentStep ==
  ASSUME NEW e \in EnvIds, NEW n \in Names, NEW k \in Kinds, NEW s \in EnvStatuses,
         IInv, UpdateEnvironment(e, n, k, s)
  PROVE  IInv'
<1>1. /\ FreshIds' /\ RowsMatchEnvs' /\ LockNamesHolder' /\ BootIsQuiet'
      /\ RowFollowsWorker' /\ WorkerKnows' /\ StepMatchesPlan'
      /\ WorkloadOwner'
  BY DEF IInv, UpdateEnvironment, FreshIds, Up, workers, host, RowsMatchEnvs,
      LockNamesHolder, BootIsQuiet, RowFollowsWorker, WorkerKnows,
      StepMatchesPlan, WorkloadOwner, Stands
<1>2. TypeOK'
  BY DEF IInv, UpdateEnvironment, TypeOK, workers, host
<1>3. PipelineShows'
  BY DEF IInv, UpdateEnvironment, TypeOK, PipelineShows, DeployIds, Nobody, Kinds,
      Results, EnvStatuses, RowStatuses, PCs, Holding, Pipeline, Up, workers, host
<1>4. NoStuckEnvironment'
  BY DEF IInv, UpdateEnvironment, TypeOK, NoStuckEnvironment, DeployIds, Nobody,
      Kinds, Results, EnvStatuses, RowStatuses, PCs, Holding, Pipeline, Up,
      workers, host
<1>5. SuccessIsServed'
  BY DEF IInv, UpdateEnvironment, TypeOK, SuccessIsServed, DeployIds, Nobody,
      Kinds, Results, EnvStatuses, RowStatuses, PCs, Holding, Workloads, Up,
      workers, host
<1> QED
  BY <1>1, <1>2, <1>3, <1>4, <1>5 DEF IInv

LEMMA AcquireStep ==
  ASSUME NEW d \in DeployIds, IInv, Acquire(d)
  PROVE  IInv'
<1>1. /\ FreshIds' /\ RowsMatchEnvs' /\ BootIsQuiet' /\ WorkerKnows'
      /\ StepMatchesPlan' /\ WorkloadOwner' /\ SuccessIsServed'
  BY DEF IInv, Acquire, FreshIds, Nobody, Goto, store, host, RowsMatchEnvs,
      BootIsQuiet, WorkerKnows, StepMatchesPlan, WorkloadOwner, Stands, Workloads,
      SuccessIsServed
<1>2. TypeOK'
  BY DEF IInv, Acquire, TypeOK, DeployIds, Nobody, Kinds, Results,
      EnvStatuses, RowStatuses, PCs, Holding, Goto, store, host
<1>3. LockNamesHolder'
  BY DEF IInv, Acquire, TypeOK, LockNamesHolder, DeployIds, Nobody, Kinds,
      Results, EnvStatuses, RowStatuses, PCs, Holding, Goto, store,
      host
<1>4. RowFollowsWorker'
  BY DEF IInv, Acquire, TypeOK, RowFollowsWorker, DeployIds, Nobody, Kinds,
      Results, EnvStatuses, RowStatuses, PCs, Holding, Pipeline, Pending,
      Up, Goto, store, host
<1>5. PipelineShows'
  BY DEF IInv, Acquire, TypeOK, PipelineShows, DeployIds, Nobody, Kinds, Results,
      EnvStatuses, RowStatuses, PCs, Holding, Pipeline, Goto, store,
      host
<1>6. NoStuckEnvironment'
  <2> SUFFICES ASSUME Up', NEW g \in envs' \ claimed', status'[g] = "running"
               PROVE  \E f \in DeployIds :
                          envOf'[f] = g /\ (pc'[f] \in Pipeline \/ f \in expired')
    BY DEF NoStuckEnvironment
  <2>1. Up /\ g \in envs \ claimed /\ status[g] = "running"
    BY DEF Acquire, Up, store
  <2>2. PICK f \in DeployIds : envOf[f] = g /\ (pc[f] \in Pipeline \/ f \in expired)
    BY <2>1 DEF IInv, NoStuckEnvironment
  <2> QED BY <2>2 DEF IInv, TypeOK, Acquire, Goto, store, Pipeline
<1> QED
  BY <1>1, <1>2, <1>3, <1>4, <1>5, <1>6 DEF IInv

LEMMA ExpireStep ==
  ASSUME NEW d \in DeployIds, IInv, Expire(d)
  PROVE  IInv'
<1>1. /\ TypeOK' /\ FreshIds' /\ RowsMatchEnvs' /\ LockNamesHolder'
      /\ BootIsQuiet' /\ RowFollowsWorker' /\ WorkerKnows' /\ StepMatchesPlan'
      /\ PipelineShows' /\ WorkloadOwner' /\ NoStuckEnvironment'
      /\ SuccessIsServed'
  BY DEF IInv, Expire, TypeOK, Holding, store, host, FreshIds, RowsMatchEnvs,
      LockNamesHolder, BootIsQuiet, RowFollowsWorker, Up, WorkerKnows,
      StepMatchesPlan, PipelineShows, WorkloadOwner, Stands, Workloads,
      NoStuckEnvironment, SuccessIsServed
<1> QED
  BY <1>1 DEF IInv

LEMMA MarkDeploymentRunningStep ==
  ASSUME NEW d \in DeployIds, IInv, MarkDeploymentRunning(d)
  PROVE  IInv'
<1>1. /\ FreshIds' /\ RowsMatchEnvs' /\ BootIsQuiet' /\ WorkerKnows'
      /\ StepMatchesPlan' /\ WorkloadOwner'
  BY DEF IInv, MarkDeploymentRunning, FreshIds, Goto, UpdateRow, host,
      RowsMatchEnvs, BootIsQuiet, WorkerKnows, StepMatchesPlan, WorkloadOwner,
      Stands
<1>2. TypeOK'
  BY DEF IInv, MarkDeploymentRunning, TypeOK, DeployIds, Nobody, Kinds,
      Results, EnvStatuses, RowStatuses, PCs, Holding, Goto,
      UpdateRow, host
<1>3. LockNamesHolder'
  BY DEF IInv, MarkDeploymentRunning, TypeOK, LockNamesHolder, DeployIds, Nobody,
      Kinds, Results, EnvStatuses, RowStatuses, PCs, Holding, Goto,
      UpdateRow, host
<1>4. RowFollowsWorker'
  BY DEF IInv, MarkDeploymentRunning, TypeOK, RowFollowsWorker, DeployIds,
      Nobody, Kinds, Results, EnvStatuses, RowStatuses, PCs, Holding, Pipeline,
      Pending, Up, Goto, UpdateRow, host
<1>5. PipelineShows'
  BY DEF IInv, MarkDeploymentRunning, TypeOK, PipelineShows, DeployIds, Nobody,
      Kinds, Results, EnvStatuses, RowStatuses, PCs, Holding, Pipeline,
      Goto, UpdateRow, host
<1>6. NoStuckEnvironment'
  <2> SUFFICES ASSUME Up', NEW g \in envs' \ claimed', status'[g] = "running"
               PROVE  \E f \in DeployIds :
                          envOf'[f] = g /\ (pc'[f] \in Pipeline \/ f \in expired')
    BY DEF NoStuckEnvironment
  <2>1. Up /\ g \in envs \ claimed /\ status[g] = "running"
    BY DEF MarkDeploymentRunning, Up, store
  <2>2. PICK f \in DeployIds : envOf[f] = g /\ (pc[f] \in Pipeline \/ f \in expired)
    BY <2>1 DEF IInv, NoStuckEnvironment
  <2> QED BY <2>2 DEF IInv, TypeOK, MarkDeploymentRunning, Goto, store, Pipeline
<1>7. SuccessIsServed'
  BY ConstantsAssumption DEF IInv, MarkDeploymentRunning, TypeOK,
      SuccessIsServed, FreshIds, RowsMatchEnvs, RowFollowsWorker, WorkerKnows,
      StepMatchesPlan, PipelineShows, WorkloadOwner, DeployIds, Nobody, Kinds,
      Results, EnvStatuses, RowStatuses, PCs, Holding, Pipeline, Pending,
      Stands, Workloads, Up, Goto, UpdateRow, host
<1> QED
  BY <1>1, <1>2, <1>3, <1>4, <1>5, <1>6, <1>7 DEF IInv

LEMMA MarkEnvironmentRunningStep ==
  ASSUME NEW d \in DeployIds, IInv, MarkEnvironmentRunning(d)
  PROVE  IInv'
<1>1. /\ FreshIds' /\ RowsMatchEnvs' /\ BootIsQuiet' /\ RowFollowsWorker'
      /\ WorkerKnows' /\ StepMatchesPlan' /\ WorkloadOwner'
  BY DEF IInv, MarkEnvironmentRunning, FreshIds, Goto, SetStatus, host,
      RowsMatchEnvs, BootIsQuiet, RowFollowsWorker, Up, WorkerKnows,
      StepMatchesPlan, WorkloadOwner, Stands
<1>2. TypeOK'
  BY DEF IInv, MarkEnvironmentRunning, TypeOK, DeployIds, Nobody, Kinds,
      Results, EnvStatuses, RowStatuses, PCs, Holding, Goto,
      SetStatus, host
<1>3. LockNamesHolder'
  BY DEF IInv, MarkEnvironmentRunning, TypeOK, LockNamesHolder, DeployIds,
      Nobody, Kinds, Results, EnvStatuses, RowStatuses, PCs, Holding, Goto,
      SetStatus, host
<1>4. PipelineShows'
  BY ConstantsAssumption DEF IInv, MarkEnvironmentRunning, TypeOK, PipelineShows,
      FreshIds, RowsMatchEnvs, LockNamesHolder, BootIsQuiet, WorkerKnows,
      DeployIds, Nobody, Kinds, Results, EnvStatuses, RowStatuses, PCs, Holding,
      Pipeline, Pending, Goto, SetStatus, host
<1>5. NoStuckEnvironment'
  BY DEF IInv, MarkEnvironmentRunning, TypeOK, NoStuckEnvironment, DeployIds,
      Nobody, Kinds, Results, EnvStatuses, RowStatuses, PCs, Holding, Pipeline,
      Up, Goto, SetStatus, host
<1>6. SuccessIsServed'
  <2> SUFFICES ASSUME NEW g \in envs' \ claimed', status'[g] = "success"
               PROVE  \E f \in Workloads(g)' : row'[f] = "success"
    BY DEF SuccessIsServed
  <2>1. g \in envs \ claimed /\ status[g] = "success"
    BY DEF IInv, TypeOK, MarkEnvironmentRunning, SetStatus
  <2> QED BY <2>1 DEF IInv, SuccessIsServed, MarkEnvironmentRunning, Workloads, host
<1> QED
  BY <1>1, <1>2, <1>3, <1>4, <1>5, <1>6 DEF IInv

LEMMA LoadStep ==
  ASSUME NEW d \in DeployIds, IInv, Load(d)
  PROVE  IInv'
<1>1. /\ RowsMatchEnvs' /\ BootIsQuiet' /\ SuccessIsServed'
  BY DEF IInv, Load, RowsMatchEnvs, Goto, store, host, BootIsQuiet,
      SuccessIsServed, Workloads
<1>2. TypeOK'
  <2>1. pc' \in [DeployIds -> PCs]
    BY DEF IInv, TypeOK, Load, Goto, PCs, Holding
  <2>2. result' \in [DeployIds -> Results \cup {"none"}]
    BY DEF IInv, TypeOK, Load, Goto, Results
  <2>3. plan' \in [DeployIds -> Kinds \cup {"none"}]
    BY DEF IInv, TypeOK, Load, Goto, Kinds
  <2> QED BY <2>1, <2>2, <2>3 DEF IInv, TypeOK, Load, store, host
<1>3. FreshIds'
  BY DEF IInv, Load, TypeOK, FreshIds, DeployIds, Nobody, Kinds, Results,
      EnvStatuses, RowStatuses, PCs, Holding, Goto, store, host
<1>4. LockNamesHolder'
  BY ConstantsAssumption DEF IInv, Load, TypeOK, LockNamesHolder, FreshIds,
      DeployIds, Nobody, Kinds, Results, EnvStatuses, RowStatuses, PCs, Holding,
      Goto, store, host
<1>5. RowFollowsWorker'
  BY ConstantsAssumption DEF IInv, Load, TypeOK, RowFollowsWorker, BootIsQuiet,
      WorkerKnows, FreshIds, DeployIds, Nobody, Kinds, Results, EnvStatuses,
      RowStatuses, PCs, Holding, Pipeline, Pending, Up, Goto, store,
      host
<1>6. WorkerKnows'
  BY ConstantsAssumption DEF IInv, Load, TypeOK, WorkerKnows, FreshIds,
      RowsMatchEnvs, DeployIds, Nobody, Kinds, Results, EnvStatuses, RowStatuses,
      PCs, Holding, Goto, store, host
<1>7. StepMatchesPlan'
  <2>1. pc'[d] \in {"finish_row", "prepare"}
    BY DEF IInv, TypeOK, Load, Goto
  <2>2. \A f \in DeployIds : f # d => pc'[f] = pc[f] /\ plan'[f] = plan[f]
    BY DEF IInv, TypeOK, Load, Goto
  <2> QED BY <2>1, <2>2 DEF IInv, StepMatchesPlan
<1>8. PipelineShows'
  <2> SUFFICES ASSUME NEW f \in DeployIds, pc'[f] \in Pipeline
               PROVE  \/ envOf[f] \notin envs
                      \/ status[envOf[f]] = "running"
                      \/ envOf[f] \in claimed
                      \/ f \in expired /\ plan'[f] = "none"
    BY DEF PipelineShows, Load, store
  <2>1. CASE f = d
    <3>1. \/ envOf[d] \notin envs
          \/ status[envOf[d]] = "running"
          \/ envOf[d] \in claimed
          \/ d \in expired /\ plan[d] = "none"
      BY DEF IInv, PipelineShows, Pipeline, Load
    <3> QED BY <2>1, <3>1 DEF Load
  <2>2. CASE f # d
    BY <2>2 DEF IInv, TypeOK, PipelineShows, Load, Goto
  <2> QED BY <2>1, <2>2
<1>9. WorkloadOwner'
  BY ConstantsAssumption DEF IInv, Load, TypeOK, WorkloadOwner, FreshIds,
      RowsMatchEnvs, LockNamesHolder, WorkerKnows, StepMatchesPlan, DeployIds,
      Nobody, Kinds, Results, EnvStatuses, RowStatuses, PCs, Holding, Stands, Goto,
      store, host
<1>10. NoStuckEnvironment'
  <2> SUFFICES ASSUME Up', NEW g \in envs' \ claimed', status'[g] = "running"
               PROVE  \E f \in DeployIds :
                          envOf'[f] = g /\ (pc'[f] \in Pipeline \/ f \in expired')
    BY DEF NoStuckEnvironment
  <2>1. Up /\ g \in envs \ claimed /\ status[g] = "running"
    BY DEF Load, Up, store
  <2>2. PICK f \in DeployIds : envOf[f] = g /\ (pc[f] \in Pipeline \/ f \in expired)
    BY <2>1 DEF IInv, NoStuckEnvironment
  <2>3. pc[f] \in Pipeline => pc'[f] \in Pipeline
    BY DEF IInv, TypeOK, Load, Goto, Pipeline, Fail
  <2> QED BY <2>2, <2>3 DEF Load, store
<1> QED
  BY <1>1, <1>2, <1>3, <1>4, <1>5, <1>6, <1>7, <1>8, <1>9, <1>10 DEF IInv

LEMMA PrepareStep ==
  ASSUME NEW d \in DeployIds, IInv, Prepare(d)
  PROVE  IInv'
<1>1. /\ RowsMatchEnvs' /\ BootIsQuiet' /\ SuccessIsServed'
  BY DEF IInv, Prepare, RowsMatchEnvs, Goto, Fail, store, host, BootIsQuiet,
      SuccessIsServed, Workloads
<1>2. TypeOK'
  <2>1. pc' \in [DeployIds -> PCs]
    BY DEF IInv, TypeOK, Prepare, Goto, Fail, PCs, Holding
  <2>2. result' \in [DeployIds -> Results \cup {"none"}]
    BY DEF IInv, TypeOK, Prepare, Goto, Fail, Results
  <2> QED BY <2>1, <2>2 DEF IInv, TypeOK, Prepare, store, host
<1>3. FreshIds'
  BY DEF IInv, Prepare, TypeOK, FreshIds, DeployIds, Nobody, Kinds, Results,
      EnvStatuses, RowStatuses, PCs, Holding, Goto, Fail, store, host
<1>4. LockNamesHolder'
  BY DEF IInv, Prepare, TypeOK, LockNamesHolder, DeployIds, Nobody, Kinds,
      Results, EnvStatuses, RowStatuses, PCs, Holding, Goto, Fail,
      store, host
<1>5. RowFollowsWorker'
  BY ConstantsAssumption DEF IInv, Prepare, TypeOK, RowFollowsWorker,
      BootIsQuiet, WorkerKnows, FreshIds, DeployIds, Nobody, Kinds, Results,
      EnvStatuses, RowStatuses, PCs, Holding, Pipeline, Pending, Up,
      Goto, Fail, store, host
<1>6. WorkerKnows'
  BY ConstantsAssumption DEF IInv, Prepare, TypeOK, WorkerKnows, FreshIds,
      RowsMatchEnvs, DeployIds, Nobody, Kinds, Results, EnvStatuses, RowStatuses,
      PCs, Holding, Goto, Fail, store, host
<1>7. StepMatchesPlan'
  BY ConstantsAssumption DEF IInv, Prepare, TypeOK, StepMatchesPlan, WorkerKnows,
      FreshIds, DeployIds, Nobody, Kinds, Results, EnvStatuses, RowStatuses, PCs,
      Holding, Goto, Fail, store, host
<1>8. PipelineShows'
  BY DEF IInv, Prepare, TypeOK, PipelineShows, DeployIds, Nobody, Kinds, Results,
      EnvStatuses, RowStatuses, PCs, Holding, Pipeline, Goto, Fail,
      store, host
<1>9. WorkloadOwner'
  BY ConstantsAssumption DEF IInv, Prepare, TypeOK, WorkloadOwner, FreshIds,
      RowsMatchEnvs, LockNamesHolder, WorkerKnows, StepMatchesPlan, DeployIds,
      Nobody, Kinds, Results, EnvStatuses, RowStatuses, PCs, Holding, Stands, Goto,
      Fail, store, host
<1>10. NoStuckEnvironment'
  BY ConstantsAssumption DEF IInv, Prepare, TypeOK, NoStuckEnvironment, FreshIds,
      RowsMatchEnvs, WorkerKnows, BootIsQuiet, DeployIds, Nobody, Kinds, Results,
      EnvStatuses, RowStatuses, PCs, Holding, Pipeline, Pending, Up,
      Goto, Fail, store, host
<1> QED
  BY <1>1, <1>2, <1>3, <1>4, <1>5, <1>6, <1>7, <1>8, <1>9, <1>10 DEF IInv

LEMMA BuildStep ==
  ASSUME NEW d \in DeployIds, IInv, Build(d)
  PROVE  IInv'
<1>1. /\ RowsMatchEnvs' /\ BootIsQuiet' /\ SuccessIsServed'
  BY DEF IInv, Build, RowsMatchEnvs, Goto, Fail, store, host, BootIsQuiet,
      SuccessIsServed, Workloads
<1>2. TypeOK'
  <2>1. pc' \in [DeployIds -> PCs]
    BY DEF IInv, TypeOK, Build, Goto, Fail, PCs, Holding
  <2>2. result' \in [DeployIds -> Results \cup {"none"}]
    BY DEF IInv, TypeOK, Build, Goto, Fail, Results
  <2> QED BY <2>1, <2>2 DEF IInv, TypeOK, Build, store, host
<1>3. FreshIds'
  BY DEF IInv, Build, TypeOK, FreshIds, DeployIds, Nobody, Kinds, Results,
      EnvStatuses, RowStatuses, PCs, Holding, Goto, Fail, store, host
<1>4. LockNamesHolder'
  BY DEF IInv, Build, TypeOK, LockNamesHolder, DeployIds, Nobody, Kinds, Results,
      EnvStatuses, RowStatuses, PCs, Holding, Goto, Fail, store, host
<1>5. RowFollowsWorker'
  BY ConstantsAssumption DEF IInv, Build, TypeOK, RowFollowsWorker, BootIsQuiet,
      WorkerKnows, FreshIds, DeployIds, Nobody, Kinds, Results, EnvStatuses,
      RowStatuses, PCs, Holding, Pipeline, Pending, Up, Goto, Fail,
      store, host
<1>6. WorkerKnows'
  BY ConstantsAssumption DEF IInv, Build, TypeOK, WorkerKnows, FreshIds,
      RowsMatchEnvs, DeployIds, Nobody, Kinds, Results, EnvStatuses, RowStatuses,
      PCs, Holding, Goto, Fail, store, host
<1>7. StepMatchesPlan'
  <2>1. plan' = plan /\ pc'[d] \in {"remove", "finish_row"}
    BY DEF IInv, TypeOK, Build, Goto, Fail
  <2>2. \A f \in DeployIds : f # d => pc'[f] = pc[f]
    BY DEF IInv, TypeOK, Build, Goto, Fail
  <2> QED BY <2>1, <2>2 DEF IInv, StepMatchesPlan, Build
<1>8. PipelineShows'
  BY DEF IInv, Build, TypeOK, PipelineShows, DeployIds, Nobody, Kinds, Results,
      EnvStatuses, RowStatuses, PCs, Holding, Pipeline, Goto, Fail,
      store, host
<1>9. WorkloadOwner'
  BY ConstantsAssumption DEF IInv, Build, TypeOK, WorkloadOwner, FreshIds,
      RowsMatchEnvs, LockNamesHolder, WorkerKnows, StepMatchesPlan, DeployIds,
      Nobody, Kinds, Results, EnvStatuses, RowStatuses, PCs, Holding, Stands, Goto,
      Fail, store, host
<1>10. NoStuckEnvironment'
  <2> SUFFICES ASSUME Up', NEW g \in envs' \ claimed', status'[g] = "running"
               PROVE  \E f \in DeployIds :
                          envOf'[f] = g /\ (pc'[f] \in Pipeline \/ f \in expired')
    BY DEF NoStuckEnvironment
  <2>1. Up /\ g \in envs \ claimed /\ status[g] = "running"
    BY DEF Build, Up, store
  <2>2. PICK f \in DeployIds : envOf[f] = g /\ (pc[f] \in Pipeline \/ f \in expired)
    BY <2>1 DEF IInv, NoStuckEnvironment
  <2> QED BY <2>2 DEF IInv, TypeOK, Build, Goto, store, Pipeline, Fail
<1> QED
  BY <1>1, <1>2, <1>3, <1>4, <1>5, <1>6, <1>7, <1>8, <1>9, <1>10 DEF IInv

LEMMA RemoveOldContainerStep ==
  ASSUME NEW d \in DeployIds, IInv, RemoveOldContainer(d)
  PROVE  IInv'
<1>1. /\ RowsMatchEnvs' /\ BootIsQuiet' /\ WorkerKnows' /\ StepMatchesPlan'
  BY DEF IInv, RemoveOldContainer, RowsMatchEnvs, Nobody, Goto, store,
      BootIsQuiet, WorkerKnows, StepMatchesPlan
<1>2. TypeOK'
  BY ConstantsAssumption DEF IInv, RemoveOldContainer, TypeOK, DeployIds, Nobody, Kinds,
      Results, EnvStatuses, RowStatuses, PCs, Holding, Goto, store
<1>3. FreshIds'
  <2>1. \A n \in Names : container'[n] \in {container[n], Nobody}
    BY DEF RemoveOldContainer
  <2>2. nextId \in Nat \ {0}
    BY ConstantsAssumption DEF IInv, TypeOK
  <2>3. \A n \in Names : container'[n] < nextId
    BY <2>1, <2>2 DEF IInv, FreshIds, Nobody
  <2> QED BY <2>3 DEF IInv, FreshIds, TypeOK, RemoveOldContainer, Goto, store
<1>4. LockNamesHolder'
  BY DEF IInv, RemoveOldContainer, TypeOK, LockNamesHolder, DeployIds, Nobody,
      Kinds, Results, EnvStatuses, RowStatuses, PCs, Holding, Goto,
      store
<1>5. RowFollowsWorker'
  BY DEF IInv, RemoveOldContainer, TypeOK, RowFollowsWorker, DeployIds, Nobody,
      Kinds, Results, EnvStatuses, RowStatuses, PCs, Holding, Pipeline, Pending,
      Up, Goto, store
<1>6. PipelineShows'
  BY DEF IInv, RemoveOldContainer, TypeOK, PipelineShows, DeployIds, Nobody,
      Kinds, Results, EnvStatuses, RowStatuses, PCs, Holding, Pipeline,
      Goto, store
<1>7. WorkloadOwner'
  <2> SUFFICES ASSUME NEW f \in DeployIds,
                      \/ pc'[f] = "check"
                      \/ pc'[f] \in {"finish_row", "finish_env"} /\ result'[f] = "success"
               PROVE  Stands(f)'
    BY DEF WorkloadOwner
  <2>1. f # d /\ pc'[f] = pc[f] /\ result'[f] = result[f]
    BY DEF IInv, TypeOK, RemoveOldContainer, Goto
  <2>2. Stands(f) /\ envOf[f] # envOf[d]
    BY <2>1 DEF IInv, WorkloadOwner, LockNamesHolder, Holding, RemoveOldContainer
  <2>3. UNCHANGED <<plan, named, envOf, stack>>
    BY DEF RemoveOldContainer, store
  <2>4. ASSUME plan[f] = "container"
        PROVE  container'[named[f]] = f
    <3>1. container[named[f]] = f /\ named[f] \in Names
      BY <2>2, <2>4 DEF Stands, IInv, TypeOK
    <3>2. named[f] \notin Labelled(envOf[d])
      BY <2>2, <3>1 DEF Labelled
    <3> QED BY <3>1, <3>2 DEF RemoveOldContainer
  <2> QED BY <2>2, <2>3, <2>4 DEF Stands
<1>8. NoStuckEnvironment'
  BY DEF IInv, RemoveOldContainer, TypeOK, NoStuckEnvironment, DeployIds, Nobody,
      Kinds, Results, EnvStatuses, RowStatuses, PCs, Holding, Pipeline,
      Up, Goto, store
<1>9. SuccessIsServed'
  <2> SUFFICES ASSUME NEW g \in envs \ claimed, status[g] = "success"
               PROVE  \E f \in Workloads(g)' : row'[f] = "success"
    BY DEF SuccessIsServed, RemoveOldContainer, store
  <2>1. g # envOf[d] /\ g \in EnvIds
    BY DEF IInv, TypeOK, PipelineShows, StepMatchesPlan, Pipeline, RemoveOldContainer
  <2>2. \A n \in Labelled(g) : container'[n] = container[n]
    BY <2>1 DEF Labelled, RemoveOldContainer
  <2> QED BY <2>1, <2>2, ServedStaysServed DEF IInv, SuccessIsServed,
     RemoveOldContainer, store
<1> QED
  BY <1>1, <1>2, <1>3, <1>4, <1>5, <1>6, <1>7, <1>8, <1>9 DEF IInv

LEMMA RunContainerStep ==
  ASSUME NEW d \in DeployIds, IInv, RunContainer(d)
  PROVE  IInv'
<1>1. /\ RowsMatchEnvs' /\ BootIsQuiet'
  BY DEF IInv, RunContainer, RowsMatchEnvs, Nobody, Goto, Fail, store,
      BootIsQuiet
<1>2. TypeOK'
  <2>1. pc' \in [DeployIds -> PCs]
    BY DEF IInv, TypeOK, RunContainer, Goto, Fail, PCs, Holding
  <2>2. result' \in [DeployIds -> Results \cup {"none"}]
    BY DEF IInv, TypeOK, RunContainer, Goto, Fail, Results
  <2>3. container' \in [Names -> DeployIds \cup {Nobody}]
    BY DEF IInv, TypeOK, RunContainer, ContainerCreated, Goto, Fail
  <2> QED BY <2>1, <2>2, <2>3 DEF IInv, TypeOK, RunContainer, store, host
<1>3. FreshIds'
  <2>1. d < nextId
    BY ConstantsAssumption DEF IInv, TypeOK, FreshIds, RunContainer, DeployIds
  <2>2. /\ \A n \in Names : container'[n] < nextId'
        /\ \A e \in EnvIds : stack'[e] < nextId'
    BY <2>1 DEF IInv, TypeOK, FreshIds, RunContainer, ContainerCreated, store
  <2>3. /\ nextId' = nextId /\ row' = row /\ expired' = expired
        /\ \A f \in DeployIds : f # d => pc'[f] = pc[f]
    BY DEF IInv, TypeOK, RunContainer, Goto, Fail, store
  <2> QED BY <2>1, <2>2, <2>3, ConstantsAssumption DEF IInv, TypeOK, FreshIds, DeployIds
<1>4. LockNamesHolder'
  BY DEF IInv, RunContainer, TypeOK, LockNamesHolder, DeployIds, Nobody, Kinds,
      Results, EnvStatuses, RowStatuses, PCs, Holding, Goto, Fail,
      store
<1>5. RowFollowsWorker'
  BY ConstantsAssumption DEF IInv, RunContainer, TypeOK, RowFollowsWorker,
      BootIsQuiet, WorkerKnows, FreshIds, DeployIds, Nobody, Kinds, Results,
      EnvStatuses, RowStatuses, PCs, Holding, Pipeline, Pending, Up,
      Goto, Fail, store
<1>6. WorkerKnows'
  BY ConstantsAssumption DEF IInv, RunContainer, TypeOK, WorkerKnows, FreshIds,
      RowsMatchEnvs, DeployIds, Nobody, Kinds, Results, EnvStatuses, RowStatuses,
      PCs, Holding, Goto, Fail, store
<1>7. StepMatchesPlan'
  <2>1. plan' = plan /\ pc'[d] \in {"check", "finish_row"}
    BY DEF IInv, TypeOK, RunContainer, Goto, Fail
  <2>2. \A f \in DeployIds : f # d => pc'[f] = pc[f]
    BY DEF IInv, TypeOK, RunContainer, Goto, Fail
  <2> QED BY <2>1, <2>2 DEF IInv, StepMatchesPlan, RunContainer
<1>8. PipelineShows'
  BY DEF IInv, RunContainer, TypeOK, PipelineShows, DeployIds, Nobody, Kinds,
      Results, EnvStatuses, RowStatuses, PCs, Holding, Pipeline, Goto,
      Fail, store
<1>9. WorkloadOwner'
  <2>1. /\ envOf' = envOf /\ plan' = plan /\ named' = named /\ stack' = stack
        /\ \A n \in Names : container[n] # Nobody => container'[n] = container[n]
        /\ \A f \in DeployIds : f # d => pc'[f] = pc[f] /\ result'[f] = result[f]
    BY DEF IInv, TypeOK, RunContainer, ContainerCreated, Goto, Fail, store
  <2> SUFFICES ASSUME NEW f \in DeployIds,
                      \/ pc'[f] = "check"
                      \/ pc'[f] \in {"finish_row", "finish_env"} /\ result'[f] = "success"
               PROVE  Stands(f)'
    BY DEF WorkloadOwner
  <2>2. CASE f = d
    <3>1. pc'[d] = "check" /\ ContainerCreated(d)
      BY <2>2 DEF IInv, TypeOK, RunContainer, Goto, Fail
    <3>2. plan[d] = "container" /\ container'[named[d]] = d
      BY <3>1 DEF IInv, TypeOK, StepMatchesPlan, ContainerCreated, RunContainer
    <3> QED BY <3>2, <2>1, <2>2 DEF Stands
  <2>3. CASE f # d
    <3>1. Stands(f) /\ named[f] \in Names /\ f # Nobody
      BY <2>1, <2>3, ConstantsAssumption DEF IInv, TypeOK, WorkloadOwner, DeployIds,
         Nobody
    <3> QED BY <3>1, <2>1 DEF Stands
  <2> QED BY <2>2, <2>3
<1>10. NoStuckEnvironment'
  BY ConstantsAssumption DEF IInv, RunContainer, TypeOK, NoStuckEnvironment,
      FreshIds, RowsMatchEnvs, WorkerKnows, BootIsQuiet, DeployIds, Nobody,
      Kinds, Results, EnvStatuses, RowStatuses, PCs, Holding, Pipeline, Pending,
      Up, Goto, Fail, store
<1>11. SuccessIsServed'
  <2> SUFFICES ASSUME NEW g \in envs \ claimed, status[g] = "success"
               PROVE  \E f \in Workloads(g)' : row'[f] = "success"
    BY DEF SuccessIsServed, RunContainer, store
  <2>1. g \in EnvIds /\ \A n \in Labelled(g) : container'[n] = container[n]
    BY DEF IInv, TypeOK, Labelled, RunContainer, ContainerCreated
  <2> QED BY <2>1, ServedStaysServed DEF IInv, SuccessIsServed, RunContainer, store
<1> QED
  BY <1>1, <1>2, <1>3, <1>4, <1>5, <1>6, <1>7, <1>8, <1>9, <1>10, <1>11 DEF IInv

LEMMA TearDownStackStep ==
  ASSUME NEW d \in DeployIds, IInv, TearDownStack(d)
  PROVE  IInv'
<1>1. /\ RowsMatchEnvs' /\ BootIsQuiet' /\ WorkerKnows' /\ StepMatchesPlan'
  BY DEF IInv, TearDownStack, RowsMatchEnvs, Nobody, Goto, store, BootIsQuiet,
      WorkerKnows, StepMatchesPlan
<1>2. TypeOK'
  BY DEF IInv, TearDownStack, TypeOK, DeployIds, Nobody, Kinds, Results,
      EnvStatuses, RowStatuses, PCs, Holding, Goto, store
<1>3. FreshIds'
  BY DEF IInv, TearDownStack, TypeOK, FreshIds, DeployIds, Nobody, Kinds,
      Results, EnvStatuses, RowStatuses, PCs, Holding, Goto, store
<1>4. LockNamesHolder'
  BY DEF IInv, TearDownStack, TypeOK, LockNamesHolder, DeployIds, Nobody, Kinds,
      Results, EnvStatuses, RowStatuses, PCs, Holding, Goto, store
<1>5. RowFollowsWorker'
  BY DEF IInv, TearDownStack, TypeOK, RowFollowsWorker, DeployIds, Nobody, Kinds,
      Results, EnvStatuses, RowStatuses, PCs, Holding, Pipeline, Pending,
      Up, Goto, store
<1>6. PipelineShows'
  BY DEF IInv, TearDownStack, TypeOK, PipelineShows, DeployIds, Nobody, Kinds,
      Results, EnvStatuses, RowStatuses, PCs, Holding, Pipeline, Goto,
      store
<1>7. WorkloadOwner'
  <2>1. /\ envOf' = envOf /\ plan' = plan /\ named' = named /\ container' = container
        /\ \A e \in EnvIds : e # envOf[d] => stack'[e] = stack[e]
        /\ pc'[d] = "up"
        /\ \A f \in DeployIds : f # d => pc'[f] = pc[f] /\ result'[f] = result[f]
    BY DEF IInv, TypeOK, TearDownStack, Goto, store
  <2> SUFFICES ASSUME NEW f \in DeployIds,
                      \/ pc'[f] = "check"
                      \/ pc'[f] \in {"finish_row", "finish_env"} /\ result'[f] = "success"
               PROVE  Stands(f)'
    BY DEF WorkloadOwner
  <2>2. f # d /\ Stands(f) /\ envOf[f] \in EnvIds
    BY <2>1 DEF IInv, TypeOK, WorkloadOwner
  <2>3. envOf[f] # envOf[d]
    BY <2>1, <2>2 DEF IInv, LockNamesHolder, Holding, TearDownStack
  <2> QED BY <2>1, <2>2, <2>3 DEF Stands
<1>8. NoStuckEnvironment'
  BY DEF IInv, TearDownStack, TypeOK, NoStuckEnvironment, DeployIds, Nobody,
      Kinds, Results, EnvStatuses, RowStatuses, PCs, Holding, Pipeline,
      Up, Goto, store
<1>9. SuccessIsServed'
  <2> SUFFICES ASSUME NEW g \in envs \ claimed, status[g] = "success"
               PROVE  \E f \in Workloads(g)' : row'[f] = "success"
    BY DEF SuccessIsServed, TearDownStack, store
  <2>1. g # envOf[d] /\ g \in EnvIds
    BY DEF IInv, TypeOK, PipelineShows, StepMatchesPlan, Pipeline, TearDownStack
  <2>2. container' = container /\ stack'[g] = stack[g]
    BY <2>1 DEF IInv, TypeOK, TearDownStack
  <2> QED BY <2>1, <2>2, ServedStaysServed DEF IInv, SuccessIsServed, TearDownStack,
     store, Labelled
<1> QED
  BY <1>1, <1>2, <1>3, <1>4, <1>5, <1>6, <1>7, <1>8, <1>9 DEF IInv

LEMMA BringUpStackStep ==
  ASSUME NEW d \in DeployIds, IInv, BringUpStack(d)
  PROVE  IInv'
<1>1. /\ RowsMatchEnvs' /\ BootIsQuiet'
  BY DEF IInv, BringUpStack, RowsMatchEnvs, Goto, Fail, store, BootIsQuiet
<1>2. TypeOK'
  <2>1. pc' \in [DeployIds -> PCs]
    BY DEF IInv, TypeOK, BringUpStack, Goto, Fail, PCs, Holding
  <2>2. result' \in [DeployIds -> Results \cup {"none"}]
    BY DEF IInv, TypeOK, BringUpStack, Goto, Fail, Results
  <2>3. stack' \in [EnvIds -> DeployIds \cup {Nobody}]
    BY DEF IInv, TypeOK, BringUpStack, Goto, Fail
  <2> QED BY <2>1, <2>2, <2>3 DEF IInv, TypeOK, BringUpStack, store, host
<1>3. FreshIds'
  <2>1. d < nextId
    BY ConstantsAssumption DEF IInv, TypeOK, FreshIds, BringUpStack, DeployIds
  <2>2. /\ \A n \in Names : container'[n] < nextId'
        /\ \A e \in EnvIds : stack'[e] < nextId'
    BY <2>1 DEF IInv, TypeOK, FreshIds, BringUpStack, store
  <2>3. /\ nextId' = nextId /\ row' = row /\ expired' = expired
        /\ \A f \in DeployIds : f # d => pc'[f] = pc[f]
    BY DEF IInv, TypeOK, BringUpStack, Goto, Fail, store
  <2> QED BY <2>1, <2>2, <2>3, ConstantsAssumption DEF IInv, TypeOK, FreshIds, DeployIds
<1>4. LockNamesHolder'
  BY DEF IInv, BringUpStack, TypeOK, LockNamesHolder, DeployIds, Nobody, Kinds,
      Results, EnvStatuses, RowStatuses, PCs, Holding, Goto, Fail,
      store
<1>5. RowFollowsWorker'
  BY ConstantsAssumption DEF IInv, BringUpStack, TypeOK, RowFollowsWorker,
      BootIsQuiet, WorkerKnows, FreshIds, DeployIds, Nobody, Kinds, Results,
      EnvStatuses, RowStatuses, PCs, Holding, Pipeline, Pending, Up,
      Goto, Fail, store
<1>6. WorkerKnows'
  BY ConstantsAssumption DEF IInv, BringUpStack, TypeOK, WorkerKnows, FreshIds,
      RowsMatchEnvs, DeployIds, Nobody, Kinds, Results, EnvStatuses, RowStatuses,
      PCs, Holding, Goto, Fail, store
<1>7. StepMatchesPlan'
  <2>1. plan' = plan /\ pc'[d] \in {"check", "finish_row"}
    BY DEF IInv, TypeOK, BringUpStack, Goto, Fail
  <2>2. \A f \in DeployIds : f # d => pc'[f] = pc[f]
    BY DEF IInv, TypeOK, BringUpStack, Goto, Fail
  <2> QED BY <2>1, <2>2 DEF IInv, StepMatchesPlan, BringUpStack
<1>8. PipelineShows'
  BY DEF IInv, BringUpStack, TypeOK, PipelineShows, DeployIds, Nobody, Kinds,
      Results, EnvStatuses, RowStatuses, PCs, Holding, Pipeline, Goto,
      Fail, store
<1>9. WorkloadOwner'
  <2>1. /\ envOf' = envOf /\ plan' = plan /\ named' = named /\ container' = container
        /\ \A e \in EnvIds : e # envOf[d] => stack'[e] = stack[e]
        /\ \A f \in DeployIds : f # d => pc'[f] = pc[f] /\ result'[f] = result[f]
    BY DEF IInv, TypeOK, BringUpStack, Goto, Fail, store
  <2> SUFFICES ASSUME NEW f \in DeployIds,
                      \/ pc'[f] = "check"
                      \/ pc'[f] \in {"finish_row", "finish_env"} /\ result'[f] = "success"
               PROVE  Stands(f)'
    BY DEF WorkloadOwner
  <2>2. CASE f = d
    <3>1. pc'[d] = "check" /\ stack'[envOf[d]] = d
      BY <2>2 DEF IInv, TypeOK, BringUpStack, Goto, Fail
    <3>2. plan[d] = "compose"
      BY DEF IInv, StepMatchesPlan, BringUpStack
    <3> QED BY <3>1, <3>2, <2>1, <2>2 DEF Stands
  <2>3. CASE f # d
    <3>1. Stands(f) /\ envOf[f] \in EnvIds
      BY <2>1, <2>3 DEF IInv, TypeOK, WorkloadOwner
    <3>2. envOf[f] # envOf[d]
      BY <2>1, <2>3 DEF IInv, LockNamesHolder, Holding, BringUpStack
    <3> QED BY <3>1, <3>2, <2>1 DEF Stands
  <2> QED BY <2>2, <2>3
<1>10. NoStuckEnvironment'
  BY ConstantsAssumption DEF IInv, BringUpStack, TypeOK, NoStuckEnvironment,
      FreshIds, RowsMatchEnvs, WorkerKnows, BootIsQuiet, DeployIds, Nobody,
      Kinds, Results, EnvStatuses, RowStatuses, PCs, Holding, Pipeline, Pending,
      Up, Goto, Fail, store
<1>11. SuccessIsServed'
  <2> SUFFICES ASSUME NEW g \in envs \ claimed, status[g] = "success"
               PROVE  \E f \in Workloads(g)' : row'[f] = "success"
    BY DEF SuccessIsServed, BringUpStack, store
  <2>1. g # envOf[d] /\ g \in EnvIds
    BY DEF IInv, TypeOK, PipelineShows, StepMatchesPlan, Pipeline, BringUpStack
  <2>2. container' = container /\ stack'[g] = stack[g]
    BY <2>1 DEF IInv, TypeOK, BringUpStack
  <2> QED BY <2>1, <2>2, ServedStaysServed DEF IInv, SuccessIsServed, BringUpStack,
     store, Labelled
<1> QED
  BY <1>1, <1>2, <1>3, <1>4, <1>5, <1>6, <1>7, <1>8, <1>9, <1>10, <1>11 DEF IInv

LEMMA CheckStep ==
  ASSUME NEW d \in DeployIds, IInv, Check(d)
  PROVE  IInv'
<1>1. /\ RowsMatchEnvs' /\ BootIsQuiet' /\ SuccessIsServed'
  BY DEF IInv, Check, RowsMatchEnvs, Goto, Fail, store, host, BootIsQuiet,
      SuccessIsServed, Workloads
<1>2. TypeOK'
  <2>1. pc' \in [DeployIds -> PCs]
    BY DEF IInv, TypeOK, Check, Goto, Fail, PCs, Holding
  <2>2. result' \in [DeployIds -> Results \cup {"none"}]
    BY DEF IInv, TypeOK, Check, Goto, Fail, Results
  <2>3. mark' \subseteq EnvIds
    BY DEF IInv, TypeOK, Check, Goto, Fail
  <2> QED BY <2>1, <2>2, <2>3 DEF IInv, TypeOK, Check, store, host
<1>3. FreshIds'
  BY DEF IInv, Check, TypeOK, FreshIds, DeployIds, Nobody, Kinds, Results,
      EnvStatuses, RowStatuses, PCs, Holding, Goto, Fail, store, host
<1>4. LockNamesHolder'
  BY DEF IInv, Check, TypeOK, LockNamesHolder, DeployIds, Nobody, Kinds, Results,
      EnvStatuses, RowStatuses, PCs, Holding, Goto, Fail, store, host
<1>5. RowFollowsWorker'
  BY ConstantsAssumption DEF IInv, Check, TypeOK, RowFollowsWorker, BootIsQuiet,
      WorkerKnows, FreshIds, DeployIds, Nobody, Kinds, Results, EnvStatuses,
      RowStatuses, PCs, Holding, Pipeline, Pending, Up, Goto, Fail,
      store, host
<1>6. WorkerKnows'
  BY ConstantsAssumption DEF IInv, Check, TypeOK, WorkerKnows, FreshIds,
      RowsMatchEnvs, DeployIds, Nobody, Kinds, Results, EnvStatuses, RowStatuses,
      PCs, Holding, Goto, Fail, store, host
<1>7. StepMatchesPlan'
  BY DEF IInv, Check, TypeOK, StepMatchesPlan, DeployIds, Nobody, Kinds, Results,
      EnvStatuses, RowStatuses, PCs, Holding, Goto, Fail, store, host
<1>8. PipelineShows'
  BY DEF IInv, Check, TypeOK, PipelineShows, DeployIds, Nobody, Kinds, Results,
      EnvStatuses, RowStatuses, PCs, Holding, Pipeline, Goto, Fail,
      store, host
<1>9. WorkloadOwner'
  <2>1. UNCHANGED <<plan, named, envOf, container, stack>>
    BY DEF Check, store, host
  <2>2. \A f \in DeployIds : f # d => pc'[f] = pc[f] /\ result'[f] = result[f]
    BY DEF IInv, TypeOK, Check, Goto, Fail
  <2>3. Stands(d)
    BY DEF IInv, WorkloadOwner, Check
  <2> QED BY <2>1, <2>2, <2>3 DEF IInv, WorkloadOwner, Stands
<1>10. NoStuckEnvironment'
  <2> SUFFICES ASSUME Up', NEW g \in envs' \ claimed', status'[g] = "running"
               PROVE  \E f \in DeployIds :
                          envOf'[f] = g /\ (pc'[f] \in Pipeline \/ f \in expired')
    BY DEF NoStuckEnvironment
  <2>1. Up /\ g \in envs \ claimed /\ status[g] = "running"
    BY DEF Check, Up, store
  <2>2. PICK f \in DeployIds : envOf[f] = g /\ (pc[f] \in Pipeline \/ f \in expired)
    BY <2>1 DEF IInv, NoStuckEnvironment
  <2>3. pc[f] \in Pipeline => pc'[f] \in Pipeline
    BY DEF IInv, TypeOK, Check, Goto, Pipeline, Fail
  <2> QED BY <2>2, <2>3 DEF Check, store
<1> QED
  BY <1>1, <1>2, <1>3, <1>4, <1>5, <1>6, <1>7, <1>8, <1>9, <1>10 DEF IInv

LEMMA FinishDeploymentStep ==
  ASSUME NEW d \in DeployIds, IInv, FinishDeployment(d)
  PROVE  IInv'
<1>1. /\ FreshIds' /\ BootIsQuiet' /\ StepMatchesPlan' /\ WorkloadOwner'
  BY DEF IInv, FinishDeployment, FreshIds, Goto, UpdateRow, host, BootIsQuiet,
      StepMatchesPlan, WorkloadOwner, Stands
<1>2. TypeOK'
  BY ConstantsAssumption DEF IInv, FinishDeployment, TypeOK, WorkerKnows,
      FreshIds, DeployIds, Nobody, Kinds, Results, EnvStatuses, RowStatuses, PCs,
      Holding, Goto, UpdateRow, host
<1>3. RowsMatchEnvs'
  BY DEF IInv, FinishDeployment, TypeOK, RowsMatchEnvs, DeployIds, Nobody, Kinds,
      Results, EnvStatuses, RowStatuses, PCs, Holding, Goto,
      UpdateRow, host
<1>4. LockNamesHolder'
  BY DEF IInv, FinishDeployment, TypeOK, LockNamesHolder, DeployIds, Nobody,
      Kinds, Results, EnvStatuses, RowStatuses, PCs, Holding, Goto,
      UpdateRow, host
<1>5. RowFollowsWorker'
  BY DEF IInv, FinishDeployment, TypeOK, RowFollowsWorker, DeployIds, Nobody,
      Kinds, Results, EnvStatuses, RowStatuses, PCs, Holding, Pipeline, Pending,
      Up, Goto, UpdateRow, host
<1>6. WorkerKnows'
  BY DEF IInv, FinishDeployment, TypeOK, WorkerKnows, DeployIds, Nobody, Kinds,
      Results, EnvStatuses, RowStatuses, PCs, Holding, Goto,
      UpdateRow, host
<1>7. PipelineShows'
  BY DEF IInv, FinishDeployment, TypeOK, PipelineShows, DeployIds, Nobody, Kinds,
      Results, EnvStatuses, RowStatuses, PCs, Holding, Pipeline, Goto,
      UpdateRow, host
<1>8. NoStuckEnvironment'
  BY ConstantsAssumption DEF IInv, FinishDeployment, TypeOK, NoStuckEnvironment,
      FreshIds, RowsMatchEnvs, WorkerKnows, BootIsQuiet, DeployIds, Nobody,
      Kinds, Results, EnvStatuses, RowStatuses, PCs, Holding, Pipeline, Pending,
      Up, Goto, UpdateRow, host
<1>9. SuccessIsServed'
  BY ConstantsAssumption DEF IInv, FinishDeployment, TypeOK, SuccessIsServed,
      FreshIds, RowsMatchEnvs, RowFollowsWorker, WorkerKnows, StepMatchesPlan,
      PipelineShows, WorkloadOwner, DeployIds, Nobody, Kinds, Results,
      EnvStatuses, RowStatuses, PCs, Holding, Pipeline, Pending, Stands, Workloads,
      Up, Goto, UpdateRow, host
<1> QED
  BY <1>1, <1>2, <1>3, <1>4, <1>5, <1>6, <1>7, <1>8, <1>9 DEF IInv

LEMMA FinishEnvironmentStep ==
  ASSUME NEW d \in DeployIds, IInv, FinishEnvironment(d)
  PROVE  IInv'
<1>1. /\ FreshIds' /\ RowsMatchEnvs' /\ BootIsQuiet' /\ WorkerKnows'
      /\ StepMatchesPlan' /\ WorkloadOwner'
  BY DEF IInv, FinishEnvironment, FreshIds, Goto, SetStatus, host, RowsMatchEnvs,
      BootIsQuiet, WorkerKnows, StepMatchesPlan, WorkloadOwner, Stands
<1>2. TypeOK'
  BY ConstantsAssumption DEF IInv, FinishEnvironment, TypeOK, WorkerKnows,
      FreshIds, DeployIds, Nobody, Kinds, Results, EnvStatuses, RowStatuses, PCs,
      Holding, Goto, SetStatus, host
<1>3. LockNamesHolder'
  BY DEF IInv, FinishEnvironment, TypeOK, LockNamesHolder, DeployIds, Nobody,
      Kinds, Results, EnvStatuses, RowStatuses, PCs, Holding, Goto,
      SetStatus, host
<1>4. RowFollowsWorker'
  BY DEF IInv, FinishEnvironment, TypeOK, RowFollowsWorker, DeployIds, Nobody,
      Kinds, Results, EnvStatuses, RowStatuses, PCs, Holding, Pipeline, Pending,
      Up, Goto, SetStatus, host
<1>5. PipelineShows'
  <2> SUFFICES ASSUME NEW f \in DeployIds, pc'[f] \in Pipeline
               PROVE  \/ envOf[f] \notin envs
                      \/ status'[envOf[f]] = "running"
                      \/ envOf[f] \in claimed'
                      \/ f \in expired /\ plan[f] = "none"
    BY DEF PipelineShows, FinishEnvironment
  <2>1. f # d /\ pc[f] \in Pipeline
    BY DEF IInv, TypeOK, FinishEnvironment, Goto, Pipeline
  <2>2. envOf[f] # envOf[d]
    BY <2>1 DEF IInv, LockNamesHolder, Holding, Pipeline, FinishEnvironment
  <2>3. status'[envOf[f]] = status[envOf[f]] /\ (envOf[f] \in claimed => envOf[f] \in claimed')
    BY <2>2 DEF IInv, TypeOK, FinishEnvironment, SetStatus
  <2> QED BY <2>1, <2>3 DEF IInv, PipelineShows
<1>6. NoStuckEnvironment'
  <2> SUFFICES ASSUME Up', NEW g \in envs' \ claimed', status'[g] = "running"
               PROVE  \E f \in DeployIds :
                          envOf'[f] = g /\ (pc'[f] \in Pipeline \/ f \in expired')
    BY DEF NoStuckEnvironment
  <2>1. CASE d \in expired /\ envOf[d] = g
    BY <2>1 DEF FinishEnvironment
  <2>2. CASE d \notin expired /\ envOf[d] = g
    <3>1. result[d] \in Results
      BY DEF IInv, WorkerKnows, FinishEnvironment
    <3>2. status'[g] = result[d]
      BY <2>2 DEF IInv, TypeOK, FinishEnvironment, SetStatus
    <3> QED BY <3>1, <3>2 DEF Results
  <2>3. CASE envOf[d] # g
    <3>1. Up /\ g \in envs \ claimed /\ status[g] = "running"
      BY <2>3 DEF IInv, TypeOK, FinishEnvironment, SetStatus, Up
    <3>2. PICK f \in DeployIds : envOf[f] = g /\ (pc[f] \in Pipeline \/ f \in expired)
      BY <3>1 DEF IInv, NoStuckEnvironment
    <3> QED BY <2>3, <3>2 DEF IInv, TypeOK, FinishEnvironment, Goto
  <2> QED BY <2>1, <2>2, <2>3
<1>7. SuccessIsServed'
  <2> SUFFICES ASSUME NEW g \in envs' \ claimed', status'[g] = "success"
               PROVE  \E f \in Workloads(g)' : row'[f] = "success"
    BY DEF SuccessIsServed
  <2>0. envs' = envs /\ row' = row /\ Workloads(g)' = Workloads(g)
    BY DEF FinishEnvironment, Workloads, host
  <2>1. CASE envOf[d] = g /\ d \notin expired
    <3>1. result[d] = "success"
      BY <2>1, <2>0 DEF IInv, TypeOK, FinishEnvironment, SetStatus
    <3>2. d \in Workloads(g)
      BY <2>1, <3>1 DEF IInv, TypeOK, WorkloadOwner, Stands, Workloads,
         FinishEnvironment
    <3>3. d < nextId
      BY ConstantsAssumption DEF IInv, TypeOK, FreshIds, FinishEnvironment, DeployIds
    <3>4. row[d] # "absent"
      BY <3>3, <2>0, <2>1 DEF IInv, RowsMatchEnvs
    <3>5. row[d] = "success"
      BY <2>1, <3>1, <3>4 DEF IInv, RowFollowsWorker, FinishEnvironment
    <3> QED BY <2>0, <3>2, <3>5
  <2>2. CASE ~(envOf[d] = g /\ d \notin expired)
    <3>1. g \in envs \ claimed /\ status[g] = "success"
      BY <2>0, <2>2 DEF IInv, TypeOK, FinishEnvironment, SetStatus
    <3> QED BY <2>0, <3>1 DEF IInv, SuccessIsServed
  <2> QED BY <2>1, <2>2
<1> QED
  BY <1>1, <1>2, <1>3, <1>4, <1>5, <1>6, <1>7 DEF IInv

LEMMA ReleaseStep ==
  ASSUME NEW d \in DeployIds, IInv, Release(d)
  PROVE  IInv'
<1>1. /\ FreshIds' /\ RowsMatchEnvs' /\ BootIsQuiet' /\ WorkerKnows'
      /\ StepMatchesPlan' /\ WorkloadOwner' /\ SuccessIsServed'
  BY DEF IInv, Release, FreshIds, Nobody, Goto, store, host, RowsMatchEnvs,
      BootIsQuiet, WorkerKnows, StepMatchesPlan, WorkloadOwner, Stands, Workloads,
      SuccessIsServed
<1>2. TypeOK'
  BY DEF IInv, Release, TypeOK, DeployIds, Nobody, Kinds, Results,
      EnvStatuses, RowStatuses, PCs, Holding, Goto, store, host
<1>3. LockNamesHolder'
  BY DEF IInv, Release, TypeOK, LockNamesHolder, DeployIds, Nobody, Kinds,
      Results, EnvStatuses, RowStatuses, PCs, Holding, Goto, store,
      host
<1>4. RowFollowsWorker'
  BY DEF IInv, Release, TypeOK, RowFollowsWorker, DeployIds, Nobody, Kinds,
      Results, EnvStatuses, RowStatuses, PCs, Holding, Pipeline, Pending,
      Up, Goto, store, host
<1>5. PipelineShows'
  BY DEF IInv, Release, TypeOK, PipelineShows, DeployIds, Nobody, Kinds, Results,
      EnvStatuses, RowStatuses, PCs, Holding, Pipeline, Goto, store,
      host
<1>6. NoStuckEnvironment'
  <2> SUFFICES ASSUME Up', NEW g \in envs' \ claimed', status'[g] = "running"
               PROVE  \E f \in DeployIds :
                          envOf'[f] = g /\ (pc'[f] \in Pipeline \/ f \in expired')
    BY DEF NoStuckEnvironment
  <2>1. Up /\ g \in envs \ claimed /\ status[g] = "running"
    BY DEF Release, Up, store
  <2>2. PICK f \in DeployIds : envOf[f] = g /\ (pc[f] \in Pipeline \/ f \in expired)
    BY <2>1 DEF IInv, NoStuckEnvironment
  <2> QED BY <2>2 DEF IInv, TypeOK, Release, Goto, store, Pipeline
<1> QED
  BY <1>1, <1>2, <1>3, <1>4, <1>5, <1>6 DEF IInv

LEMMA TakeMarkStep ==
  ASSUME NEW e \in EnvIds, IInv, TakeMark(e)
  PROVE  IInv'
<1>1. /\ TypeOK' /\ FreshIds' /\ RowsMatchEnvs' /\ LockNamesHolder'
      /\ BootIsQuiet' /\ RowFollowsWorker' /\ WorkerKnows' /\ StepMatchesPlan'
      /\ PipelineShows' /\ WorkloadOwner' /\ NoStuckEnvironment'
      /\ SuccessIsServed'
  BY DEF IInv, TakeMark, TypeOK, Up, store, workers, host, FreshIds,
      RowsMatchEnvs, LockNamesHolder, BootIsQuiet, RowFollowsWorker, WorkerKnows,
      StepMatchesPlan, PipelineShows, WorkloadOwner, Stands, Workloads,
      NoStuckEnvironment, SuccessIsServed
<1> QED
  BY <1>1 DEF IInv

LEMMA CrashStep ==
  ASSUME IInv, Crash
  PROVE  IInv'
<1>0. AnyName \in Names
  BY ConstantsAssumption DEF AnyName
<1>1. /\ FreshIds' /\ RowsMatchEnvs' /\ BootIsQuiet' /\ WorkerKnows'
      /\ StepMatchesPlan' /\ WorkloadOwner' /\ NoStuckEnvironment'
      /\ SuccessIsServed'
  BY DEF IInv, Crash, FreshIds, DeployIds, Nobody, store, host, RowsMatchEnvs,
      BootIsQuiet, WorkerKnows, StepMatchesPlan, WorkloadOwner, Stands, Workloads,
      NoStuckEnvironment, Up, SuccessIsServed
<1>2. TypeOK'
  BY <1>0, ConstantsAssumption DEF IInv, Crash, TypeOK, WorkerKnows, FreshIds,
      DeployIds, Nobody, Kinds, Results, EnvStatuses, RowStatuses, PCs, Holding,
      store, host
<1>3. LockNamesHolder'
  BY DEF IInv, Crash, TypeOK, LockNamesHolder, DeployIds, Nobody, Kinds, Results,
      EnvStatuses, RowStatuses, PCs, Holding, store, host
<1>4. RowFollowsWorker'
  BY DEF IInv, Crash, TypeOK, RowFollowsWorker, DeployIds, Nobody, Kinds,
      Results, EnvStatuses, RowStatuses, PCs, Holding, Pipeline, Pending,
      Up, store, host
<1>5. PipelineShows'
  BY DEF IInv, Crash, TypeOK, PipelineShows, DeployIds, Nobody, Kinds, Results,
      EnvStatuses, RowStatuses, PCs, Holding, Pipeline, store, host
<1> QED
  BY <1>1, <1>2, <1>3, <1>4, <1>5 DEF IInv

LEMMA ResetDeploymentsStep ==
  ASSUME IInv, ResetDeployments
  PROVE  IInv'
<1>1. /\ FreshIds' /\ RowsMatchEnvs' /\ LockNamesHolder' /\ WorkerKnows'
      /\ StepMatchesPlan' /\ PipelineShows' /\ WorkloadOwner'
      /\ NoStuckEnvironment'
  BY DEF IInv, ResetDeployments, FreshIds, DeployIds, workers, host,
      RowsMatchEnvs, LockNamesHolder, WorkerKnows, StepMatchesPlan,
      PipelineShows, WorkloadOwner, Stands, NoStuckEnvironment, Up
<1>2. TypeOK'
  BY DEF IInv, ResetDeployments, TypeOK, DeployIds, Nobody, Kinds,
      Results, EnvStatuses, RowStatuses, PCs, Holding, workers, host
<1>3. BootIsQuiet'
  BY DEF IInv, ResetDeployments, TypeOK, BootIsQuiet, DeployIds, Nobody, Kinds,
      Results, EnvStatuses, RowStatuses, PCs, Holding, Pending, workers, host
<1>4. RowFollowsWorker'
  BY ConstantsAssumption DEF IInv, ResetDeployments, TypeOK, RowFollowsWorker,
      BootIsQuiet, WorkerKnows, FreshIds, DeployIds, Nobody, Kinds, Results,
      EnvStatuses, RowStatuses, PCs, Holding, Pipeline, Pending, Up,
      workers, host
<1>5. SuccessIsServed'
  BY DEF IInv, ResetDeployments, TypeOK, SuccessIsServed, DeployIds, Nobody,
      Kinds, Results, EnvStatuses, RowStatuses, PCs, Holding, Workloads, workers, host
<1> QED
  BY <1>1, <1>2, <1>3, <1>4, <1>5 DEF IInv

LEMMA ResetEnvironmentsStep ==
  ASSUME IInv, ResetEnvironments
  PROVE  IInv'
<1>1. /\ FreshIds' /\ RowsMatchEnvs' /\ LockNamesHolder' /\ BootIsQuiet'
      /\ WorkerKnows' /\ StepMatchesPlan' /\ WorkloadOwner'
  BY DEF IInv, ResetEnvironments, FreshIds, workers, host, RowsMatchEnvs,
      LockNamesHolder, BootIsQuiet, WorkerKnows, StepMatchesPlan, WorkloadOwner,
      Stands
<1>2. TypeOK'
  BY DEF IInv, ResetEnvironments, TypeOK, DeployIds, Nobody, Kinds,
      Results, EnvStatuses, RowStatuses, PCs, Holding, workers, host
<1>3. RowFollowsWorker'
  BY ConstantsAssumption DEF IInv, ResetEnvironments, TypeOK, RowFollowsWorker,
      BootIsQuiet, WorkerKnows, FreshIds, DeployIds, Nobody, Kinds, Results,
      EnvStatuses, RowStatuses, PCs, Holding, Pipeline, Pending, Up,
      workers, host
<1>4. PipelineShows'
  BY ConstantsAssumption DEF IInv, ResetEnvironments, TypeOK, PipelineShows,
      FreshIds, RowsMatchEnvs, LockNamesHolder, BootIsQuiet, WorkerKnows,
      DeployIds, Nobody, Kinds, Results, EnvStatuses, RowStatuses, PCs, Holding,
      Pipeline, Pending, workers, host
<1>5. NoStuckEnvironment'
  BY DEF IInv, ResetEnvironments, TypeOK, NoStuckEnvironment, DeployIds, Nobody,
      Kinds, Results, EnvStatuses, RowStatuses, PCs, Holding, Pipeline,
      Up, workers, host
<1>6. SuccessIsServed'
  BY DEF IInv, ResetEnvironments, TypeOK, SuccessIsServed, DeployIds, Nobody,
      Kinds, Results, EnvStatuses, RowStatuses, PCs, Holding, Workloads, workers, host
<1> QED
  BY <1>1, <1>2, <1>3, <1>4, <1>5, <1>6 DEF IInv

-----------------------------------------------------------------------------
LEMMA InitEstablishes == Init => IInv
<1> SUFFICES ASSUME Init PROVE IInv
  OBVIOUS
<1>0. AnyName \in Names
  BY ConstantsAssumption DEF AnyName
<1>1. TypeOK
  BY <1>0, ConstantsAssumption DEF Init, TypeOK, DeployIds, Nobody, Kinds, EnvStatuses,
      RowStatuses, PCs, Results
<1>2. FreshIds /\ RowsMatchEnvs /\ LockNamesHolder /\ BootIsQuiet
  BY ConstantsAssumption DEF Init, FreshIds, RowsMatchEnvs, LockNamesHolder,
      BootIsQuiet, DeployIds, Nobody, Holding
<1>3. RowFollowsWorker /\ WorkerKnows /\ StepMatchesPlan /\ PipelineShows
  BY DEF Init, RowFollowsWorker, WorkerKnows, StepMatchesPlan, PipelineShows,
      Pipeline, Pending
<1>4. WorkloadOwner /\ NoStuckEnvironment /\ SuccessIsServed
  BY DEF Init, WorkloadOwner, Stands, Workloads, NoStuckEnvironment, SuccessIsServed,
     Nobody
<1> QED
  BY <1>1, <1>2, <1>3, <1>4 DEF IInv

LEMMA StutterPreserves ==
  ASSUME IInv, UNCHANGED vars
  PROVE  IInv'
<1>1. TypeOK' /\ FreshIds' /\ RowsMatchEnvs' /\ LockNamesHolder' /\ BootIsQuiet'
  BY DEF IInv, TypeOK, FreshIds, RowsMatchEnvs, LockNamesHolder, BootIsQuiet, vars,
      store, workers, host
<1>2. /\ RowFollowsWorker' /\ WorkerKnows' /\ StepMatchesPlan' /\ PipelineShows'
      /\ WorkloadOwner'
  BY DEF IInv, RowFollowsWorker, WorkerKnows, StepMatchesPlan, PipelineShows,
      WorkloadOwner, Stands, Up, vars, store, workers, host
<1>3. NoStuckEnvironment' /\ SuccessIsServed'
  BY DEF IInv, NoStuckEnvironment, SuccessIsServed, Workloads, Up, vars, store,
      workers, host
<1> QED
  BY <1>1, <1>2, <1>3 DEF IInv

LEMMA StepPreserves ==
  ASSUME IInv, [Next]_vars
  PROVE  IInv'
<1>1. CASE UNCHANGED vars
  BY <1>1, StutterPreserves
<1>2. ASSUME NEW e \in EnvIds,
             \/ \E n \in Names, k \in Kinds, s \in EnvStatuses :
                    CreateEnvironment(e, n, k, s) \/ UpdateEnvironment(e, n, k, s)
             \/ DeleteEnvironment(e) \/ Trigger(e) \/ TakeMark(e)
      PROVE  IInv'
  BY <1>2, CreateEnvironmentStep, UpdateEnvironmentStep, DeleteEnvironmentStep,
     TriggerStep, TakeMarkStep
<1>4. ASSUME NEW d \in DeployIds, Work(d)
      PROVE  IInv'
  BY <1>4, AcquireStep, MarkDeploymentRunningStep, MarkEnvironmentRunningStep,
     LoadStep, PrepareStep, BuildStep, RemoveOldContainerStep, RunContainerStep,
     TearDownStackStep, BringUpStackStep, CheckStep, FinishDeploymentStep,
     FinishEnvironmentStep, ReleaseStep DEF Work
<1>5. ASSUME NEW d \in DeployIds, Expire(d)
      PROVE  IInv'
  BY <1>5, ExpireStep
<1>6. CASE Crash \/ Start
  BY <1>6, CrashStep, ResetDeploymentsStep, ResetEnvironmentsStep DEF Start
<1> QED
  BY <1>1, <1>2, <1>4, <1>5, <1>6 DEF Next

(* The inductive invariant holds of every state of every behaviour.        *)
THEOREM Invariance == Spec => []IInv
<1>1. Init => IInv
  BY InitEstablishes
<1>2. IInv /\ [Next]_vars => IInv'
  BY StepPreserves
<1> QED
  BY <1>1, <1>2, PTL DEF Spec

-----------------------------------------------------------------------------
(* The properties.                                                         *)

(* Every variable of the engine keeps its type.                            *)
THEOREM TypeCorrect == Spec => []TypeOK
<1>1. IInv => TypeOK
  BY DEF IInv
<1> QED
  BY <1>1, Invariance, PTL

(* At most one pipeline per environment, whatever was triggered, deleted,  *)
(* edited or interrupted (Engine.lockFor, Engine.work).                    *)
THEOREM MutualExclusion == Spec => []OnePipelinePerEnv
<1>1. IInv => OnePipelinePerEnv
  BY DEF IInv, LockNamesHolder, OnePipelinePerEnv
<1> QED
  BY <1>1, Invariance, PTL

(* A pending row has a goroutine behind it or has outlived its context:    *)
(* ResetInterrupted and work leave no other row pending.                   *)
THEOREM NoOrphans == Spec => []NoOrphanedRow
<1>1. IInv => NoOrphanedRow
  <2> SUFFICES ASSUME IInv, Up, NEW d \in DeployIds, row[d] \in Pending
               PROVE  pc[d] \in {"lock"} \cup Holding \/ d \in expired
    BY DEF NoOrphanedRow, Pending
  <2>1. pc[d] # "none" /\ (pc[d] = "done" => d \in expired)
    BY DEF IInv, RowFollowsWorker
  <2> QED
    BY <2>1 DEF IInv, TypeOK, PCs
<1> QED
  BY <1>1, Invariance, PTL

(* An environment is stuck reading running only through a deadline or a    *)
(* status that a client wrote.                                             *)
THEOREM NoStuckEnvironments == Spec => []NoStuckEnvironment
<1>1. IInv => NoStuckEnvironment
  BY DEF IInv
<1> QED
  BY <1>1, Invariance, PTL

(* An environment that reads success by the engine's word has a workload   *)
(* that is recorded as a success.                                          *)
THEOREM SuccessServed == Spec => []SuccessIsServed
<1>1. IInv => SuccessIsServed
  BY DEF IInv
<1> QED
  BY <1>1, Invariance, PTL

(* Containers and stacks change only under the mutex of the environment    *)
(* they belong to, and only to make room for, or to become, the holder's.  *)
THEOREM WorkloadsUnderLock == Spec => WorkloadUnderLock
<1> DEFINE ContainerKept(n) ==
        container'[n] # container[n] =>
            \E e \in EnvIds :
                /\ lock[e] # Nobody /\ lock'[e] = lock[e]
                /\ IF container[n] = Nobody THEN container'[n] = lock[e]
                   ELSE container'[n] = Nobody /\ envOf[container[n]] = e
           StackKept(e) ==
        stack'[e] # stack[e] =>
            /\ lock[e] # Nobody /\ lock'[e] = lock[e]
            /\ stack'[e] \in {Nobody, lock[e]}
<1>1. ASSUME IInv, Next
      PROVE  /\ \A n \in Names : ContainerKept(n)
             /\ \A e \in EnvIds : StackKept(e)
  <2>1. CASE container' = container /\ stack' = stack
    BY <2>1
  <2>2. ASSUME NEW d \in DeployIds, RemoveOldContainer(d) \/ RunContainer(d)
        PROVE  /\ \A n \in Names : ContainerKept(n)
               /\ stack' = stack
    <3>1. lock[envOf[d]] = d /\ d # Nobody /\ lock' = lock /\ envOf[d] \in EnvIds
      BY <1>1, <2>2, ConstantsAssumption DEF IInv, TypeOK, LockNamesHolder,
          RemoveOldContainer, RunContainer, Holding, DeployIds, Nobody
    <3>2. ASSUME NEW n \in Names, container'[n] # container[n]
          PROVE  IF container[n] = Nobody THEN container'[n] = d
                 ELSE container'[n] = Nobody /\ envOf[container[n]] = envOf[d]
      BY <1>1, <2>2, <3>2 DEF IInv, TypeOK, RemoveOldContainer, RunContainer,
         ContainerCreated, Labelled
    <3>3. stack' = stack
      BY <2>2 DEF RemoveOldContainer, RunContainer
    <3> QED
      BY <3>1, <3>2, <3>3
  <2>3. ASSUME NEW d \in DeployIds, TearDownStack(d) \/ BringUpStack(d)
        PROVE  /\ \A e \in EnvIds : StackKept(e)
               /\ container' = container
    <3>1. lock[envOf[d]] = d /\ d # Nobody /\ lock' = lock
      BY <1>1, <2>3, ConstantsAssumption DEF IInv, LockNamesHolder, TearDownStack,
          BringUpStack, Holding, DeployIds, Nobody
    <3>2. /\ container' = container
          /\ \A e \in EnvIds : stack'[e] # stack[e] =>
                e = envOf[d] /\ stack'[e] \in {Nobody, d}
      BY <1>1, <2>3 DEF IInv, TypeOK, TearDownStack, BringUpStack
    <3> QED
      BY <3>1, <3>2
  <2>4. \/ container' = container /\ stack' = stack
        \/ \E d \in DeployIds : RemoveOldContainer(d) \/ RunContainer(d)
        \/ \E d \in DeployIds : TearDownStack(d) \/ BringUpStack(d)
    BY <1>1 DEF Next, Work, Start, CreateEnvironment, UpdateEnvironment,
        DeleteEnvironment, Trigger, TakeMark, Acquire, MarkDeploymentRunning,
        MarkEnvironmentRunning, Load, Prepare, Build, Check, FinishDeployment,
        FinishEnvironment, Release, Expire, Crash, ResetDeployments,
        ResetEnvironments, host
  <2> QED
    BY <2>1, <2>2, <2>3, <2>4
<1>2. IInv /\ [Next]_vars =>
        [(\A n \in Names : ContainerKept(n)) /\ (\A e \in EnvIds : StackKept(e))]_vars
  BY <1>1
<1> QED
  BY <1>2, Invariance, PTL DEF Spec, WorkloadUnderLock

-----------------------------------------------------------------------------
(* The deployments table implements JobLifecycle.                          *)

(* What the refinement mapping says of one deployment.                     *)
LEMMA JobStateOf ==
  ASSUME IInv
  PROVE  /\ JobState = [d \in DeployIds |-> JobState[d]]
         /\ \A d \in DeployIds :
                /\ row[d] # "absent" => JobState[d] = row[d] /\ d < nextId
                /\ row[d] = "absent" /\ d < nextId => JobState[d] = "gone"
                /\ row[d] = "absent" /\ ~(d < nextId) => JobState[d] = "unborn"
<1>1. \A d \in DeployIds : row[d] # "absent" => d < nextId
  BY ConstantsAssumption DEF IInv, TypeOK, FreshIds, DeployIds
<1> QED
  BY <1>1 DEF JobState

(* A step that changes neither rows nor the id counter is a stutter.       *)
LEMMA SameJobs ==
  ASSUME row' = row, nextId' = nextId
  PROVE  JobState' = JobState
BY DEF JobState

LEMMA SubmitStep ==
  ASSUME IInv, NEW e \in EnvIds, Trigger(e)
  PROVE  Jobs!Submit(nextId)
<1>1. nextId \in DeployIds /\ nextId \in Nat /\ nextId' = nextId + 1
  BY ConstantsAssumption DEF Trigger, DeployIds
<1>2. row[nextId] = "absent" /\ row' = [row EXCEPT ![nextId] = "queued"]
  BY <1>1 DEF IInv, FreshIds, Trigger
<1>3. JobState[nextId] = "unborn"
  BY <1>1, <1>2 DEF JobState
<1>4. ASSUME NEW d \in DeployIds
      PROVE  JobState'[d] = IF d = nextId THEN "queued" ELSE JobState[d]
  <2>1. d \in Nat
    BY ConstantsAssumption DEF DeployIds
  <2> QED
    BY <1>1, <1>2, <2>1 DEF IInv, TypeOK, JobState
<1>5. JobState' = [JobState EXCEPT ![nextId] = "queued"]
  BY <1>4 DEF JobState
<1> QED
  BY <1>3, <1>5 DEF Jobs!Submit

LEMMA RowStepIsJobStep ==
  ASSUME IInv, NEW d \in DeployIds, NEW s \in {"running", "success", "failed"},
         UpdateRow(d, s), nextId' = nextId,
         row[d] # "absent" /\ d \notin expired
  PROVE  JobState[d] = row[d] /\ JobState' = [JobState EXCEPT ![d] = s]
<1>1. row' = [row EXCEPT ![d] = s]
  BY DEF UpdateRow
<1>2. ASSUME NEW f \in DeployIds
      PROVE  JobState'[f] = IF f = d THEN s ELSE JobState[f]
  BY <1>1 DEF IInv, TypeOK, JobState
<1> QED
  BY <1>2 DEF JobState

LEMMA InterruptStep ==
  ASSUME IInv, ResetDeployments
  PROVE  Jobs!Interrupt
<1>1. ASSUME NEW d \in DeployIds
      PROVE  JobState'[d] = IF JobState[d] \in Jobs!Pending THEN "failed"
                                                            ELSE JobState[d]
  BY DEF ResetDeployments, JobState, Jobs!Pending
<1> QED
  BY <1>1 DEF Jobs!Interrupt, JobState

LEMMA CascadeStep ==
  ASSUME IInv, NEW e \in EnvIds, DeleteEnvironment(e)
  PROVE  Jobs!Cascade(Rows(e))
<1>1. \A d \in Rows(e) : Jobs!Exists(d)
  BY JobStateOf DEF IInv, TypeOK, RowStatuses, Results, Rows, Jobs!Exists
<1>2. ASSUME NEW d \in DeployIds
      PROVE  JobState'[d] = IF d \in Rows(e) THEN "gone" ELSE JobState[d]
  <2>1. CASE d \in Rows(e)
    <3>1. d < nextId /\ nextId' = nextId /\ row'[d] = "absent"
      BY <2>1, JobStateOf DEF Rows, DeleteEnvironment
    <3> QED
      BY <2>1, <3>1 DEF JobState
  <2>2. CASE d \notin Rows(e)
    BY <2>2 DEF JobState, DeleteEnvironment
  <2> QED
    BY <2>1, <2>2
<1> QED
  BY <1>1, <1>2 DEF Jobs!Cascade, JobState

(* The rows of the deployments table are submitted, started and finished   *)
(* once each, interrupted only by a restart, and lost only by a deletion.  *)
THEOREM RowsImplementJobs == Spec => RowsAreJobs
<1>1. Init => Jobs!Init
  BY ConstantsAssumption DEF Init, Jobs!Init, JobState, DeployIds
<1>2. ASSUME IInv, [Next]_vars
      PROVE  [Jobs!Next]_JobState
  <2>1. CASE row' = row /\ nextId' = nextId
    BY <2>1, SameJobs
  <2>2. CASE \E e \in EnvIds : Trigger(e)
    BY <1>2, <2>2, SubmitStep DEF Jobs!Next, Trigger
  <2>3. CASE \E e \in EnvIds : DeleteEnvironment(e)
    <3>1. PICK e \in EnvIds : DeleteEnvironment(e)
      BY <2>3
    <3>2. Rows(e) \in SUBSET DeployIds
      BY DEF Rows
    <3> QED
      BY <1>2, <3>1, <3>2, CascadeStep DEF Jobs!Next
  <2>4. ASSUME NEW d \in DeployIds, MarkDeploymentRunning(d)
        PROVE  [Jobs!Next]_JobState
    <3>1. CASE row[d] # "absent" /\ d \notin expired
      <4>1. row[d] = "queued"
        BY <1>2, <2>4, <3>1 DEF IInv, RowFollowsWorker, MarkDeploymentRunning
      <4>2. JobState[d] = "queued" /\ JobState' = [JobState EXCEPT ![d] = "running"]
        BY <2>4, <3>1, <4>1, <1>2, RowStepIsJobStep DEF MarkDeploymentRunning
      <4> QED
        BY <4>2 DEF Jobs!Next, Jobs!Start
    <3>2. CASE ~(row[d] # "absent" /\ d \notin expired)
      BY <2>4, <3>2, SameJobs DEF MarkDeploymentRunning, UpdateRow
    <3> QED
      BY <3>1, <3>2
  <2>5. ASSUME NEW d \in DeployIds, FinishDeployment(d)
        PROVE  [Jobs!Next]_JobState
    <3>1. CASE row[d] # "absent" /\ d \notin expired
      <4>1. row[d] = "running" /\ result[d] \in {"success", "failed"}
        BY <2>5, <3>1, <1>2 DEF IInv, RowFollowsWorker, WorkerKnows, Pipeline,
            Results, FinishDeployment
      <4>2. /\ JobState[d] = "running"
            /\ JobState' = [JobState EXCEPT ![d] = result[d]]
        BY <2>5, <3>1, <4>1, <1>2, RowStepIsJobStep DEF FinishDeployment
      <4> QED
        BY <4>1, <4>2 DEF Jobs!Next, Jobs!Finish
    <3>2. CASE ~(row[d] # "absent" /\ d \notin expired)
      BY <2>5, <3>2, SameJobs DEF FinishDeployment, UpdateRow
    <3> QED
      BY <3>1, <3>2
  <2>6. CASE ResetDeployments
    BY <2>6, <1>2, InterruptStep DEF Jobs!Next
  <2>7. \/ row' = row /\ nextId' = nextId
        \/ \E e \in EnvIds : Trigger(e) \/ DeleteEnvironment(e)
        \/ \E d \in DeployIds : MarkDeploymentRunning(d) \/ FinishDeployment(d)
        \/ ResetDeployments
    BY <1>2 DEF Next, Work, Start, CreateEnvironment, TakeMark, UpdateEnvironment,
       Acquire, MarkEnvironmentRunning, Load, Prepare, Build,
        RemoveOldContainer, RunContainer, TearDownStack, BringUpStack, Check,
        FinishEnvironment, Release, Expire, Crash, ResetEnvironments, store, vars
  <2> QED
    BY <2>1, <2>2, <2>3, <2>4, <2>5, <2>6, <2>7, <1>2
<1> QED
  BY <1>1, <1>2, Invariance, PTL DEF Spec, RowsAreJobs, Jobs!Spec

-----------------------------------------------------------------------------
(* ProxyGate.                                                              *)

(* Where a deployment that has marked its environment may be, and where    *)
(* one that can do nothing any more.                                       *)
Past == {"finish_row", "finish_env", "release", "done", "none"}
Over == {"done", "none"}

Requested == [at : {"idle", "control", "list", "reverse", "dial"}, env : EnvIds,
              name : Names, clear : DeployIds \cup {Nobody}, old : SUBSET DeployIds,
              rested : BOOLEAN]

-----------------------------------------------------------------------------
(* The inductive invariant, on top of the engine's.                        *)

(* What a mark of d stands for: d is past its pipeline, the deployments it *)
(* left behind can do nothing, and none of their containers has the name   *)
(* that d gave its own, nor any other, unless RemoveContainersByEnv failed.*)
StandsFor(e, d, old) ==
    d # Nobody =>
        /\ d < nextId /\ envOf[d] = e /\ pc[d] \in Past
        /\ \A f \in old : f < nextId /\ pc[f] \in Over
        /\ plan[d] = "container" =>
              /\ container[named[d]] \notin old
              /\ d \notin spared => \A n \in Names : container[n] \notin old

(* Between the removal and its mark, a deployment that spared nothing is   *)
(* the only one of its environment to have a container.                    *)
Swept ==
    \A d \in DeployIds :
        pc[d] \in {"run", "check"} /\ plan[d] = "container" /\ d \notin spared =>
            \A n \in Labelled(envOf[d]) : container[n] = d

MarksStand == \A e \in EnvIds : StandsFor(e, made[e], older[e])

HeadersStand ==
    \A q \in Requests : StandsFor(req[q].env, req[q].clear, req[q].old)

(* Who is past the first half of ready has overlapped a time of rest.      *)
LetThroughAtRest ==
    \A q \in Requests : req[q].at \in {"list", "reverse", "dial"} => req[q].rested

(* A header that was sent came from a mark that is not there any more.     *)
SentMarksAreTaken ==
    \A d \in DeployIds :
        \/ sent[d] = 0
        \/ /\ sent[d] = 1
           /\ d < nextId /\ pc[d] \in Past
           /\ \A e \in mark : made[e] # d

GInv == /\ IInv
        /\ GateTypeOK
        /\ Swept
        /\ MarksStand
        /\ HeadersStand
        /\ LetThroughAtRest
        /\ SentMarksAreTaken

-----------------------------------------------------------------------------
(* What the engine's steps leave alone.                                    *)

(* A deployment that is past its pipeline, or over, stays so, of the same  *)
(* environment, and learns no plan.                                        *)
LEMMA PastStaysPast ==
  ASSUME IInv, [Next]_vars, NEW d \in DeployIds, d < nextId
  PROVE  /\ d < nextId' /\ envOf'[d] = envOf[d]
         /\ pc[d] \in Past =>
                /\ pc'[d] \in Past
                /\ plan'[d] = "container" => plan[d] = "container" /\ named'[d] = named[d]
         /\ pc[d] \in Over => pc'[d] \in Over
<1> DEFINE Kept == /\ d < nextId' /\ envOf'[d] = envOf[d]
                   /\ pc[d] \in Past =>
                        /\ pc'[d] \in Past
                        /\ plan'[d] = "container" =>
                                plan[d] = "container" /\ named'[d] = named[d]
                   /\ pc[d] \in Over => pc'[d] \in Over
<1>0. d \in Nat /\ nextId \in Nat /\ TypeOK
  BY ConstantsAssumption DEF IInv, TypeOK, DeployIds
<1>1. CASE UNCHANGED vars
  BY <1>1 DEF vars, store, workers
<1>2. ASSUME NEW e \in EnvIds,
             \/ \E n \in Names, k \in Kinds, s \in EnvStatuses :
                    CreateEnvironment(e, n, k, s) \/ UpdateEnvironment(e, n, k, s)
             \/ DeleteEnvironment(e) \/ Trigger(e) \/ TakeMark(e)
      PROVE  Kept
  <2>1. CASE Trigger(e)
    <3>1. /\ nextId' = nextId + 1 /\ plan' = plan /\ named' = named
          /\ pc'[d] = pc[d] /\ envOf'[d] = envOf[d]
      BY <1>0, <2>1 DEF Trigger, TypeOK
    <3> QED
      BY <1>0, <3>1
  <2>2. CASE ~ Trigger(e)
    BY <1>2, <2>2 DEF CreateEnvironment, UpdateEnvironment, DeleteEnvironment, TakeMark,
       store, workers
  <2> QED
    BY <2>1, <2>2
<1>4. ASSUME NEW f \in DeployIds, Work(f)
      PROVE  Kept
  <2>1. nextId' = nextId /\ envOf' = envOf
    BY <1>4 DEF Work, Acquire, MarkDeploymentRunning, MarkEnvironmentRunning, Load,
       Prepare, Build, RemoveOldContainer, RunContainer, TearDownStack,
       BringUpStack, Check, FinishDeployment, FinishEnvironment, Release, store
  <2>2. CASE f # d
    <3>1. pc'[d] = pc[d] /\ plan'[d] = plan[d] /\ named'[d] = named[d]
      BY <1>0, <1>4, <2>2 DEF TypeOK, Work, Acquire, MarkDeploymentRunning,
         MarkEnvironmentRunning, Load, Prepare, Build, RemoveOldContainer,
         RunContainer, TearDownStack, BringUpStack, Check, FinishDeployment,
         FinishEnvironment, Release, Goto, Fail
    <3> QED
      BY <2>1, <3>1
  <2>3. CASE f = d
    <3>1. pc[d] \notin Over
      BY <1>4, <2>3 DEF Over, Work, Acquire, MarkDeploymentRunning,
         MarkEnvironmentRunning, Load, Prepare, Build, RemoveOldContainer,
         RunContainer, TearDownStack, BringUpStack, Check, FinishDeployment,
         FinishEnvironment, Release
    <3>2. ASSUME pc[d] \in Past
          PROVE  pc'[d] \in Past /\ plan' = plan /\ named' = named
      <4>1. FinishDeployment(d) \/ FinishEnvironment(d) \/ Release(d)
        BY <1>4, <2>3, <3>2 DEF Past, Work, Acquire, MarkDeploymentRunning,
           MarkEnvironmentRunning, Load, Prepare, Build, RemoveOldContainer,
           RunContainer, TearDownStack, BringUpStack, Check
      <4> QED
        BY <1>0, <4>1 DEF TypeOK, Past, FinishDeployment, FinishEnvironment, Release,
           Goto
    <3> QED
      BY <2>1, <3>1, <3>2
  <2> QED
    BY <2>2, <2>3
<1>5. ASSUME NEW f \in DeployIds, Expire(f)
      PROVE  Kept
  BY <1>5 DEF Expire, store
<1>6. CASE Crash
  BY <1>6 DEF Crash, store, Past, Over
<1>7. CASE Start
  BY <1>7 DEF Start, ResetDeployments, ResetEnvironments, workers
<1> QED
  BY <1>1, <1>2, <1>4, <1>5, <1>6, <1>7 DEF Next

(* A container is removed, or made by a deployment at docker run.          *)
LEMMA ContainerSteps ==
  ASSUME IInv, [Next]_vars, NEW n \in Names
  PROVE  \/ container'[n] \in {container[n], Nobody}
         \/ container'[n] \in DeployIds /\ pc[container'[n]] = "run"
<1> USE DEF IInv, TypeOK
<1>1. ASSUME NEW f \in DeployIds, Work(f)
      PROVE  \/ container'[n] \in {container[n], Nobody}
             \/ container'[n] = f /\ pc[f] = "run"
  <2>1. CASE RemoveOldContainer(f)
    BY <2>1 DEF RemoveOldContainer
  <2>2. CASE RunContainer(f)
    BY <2>2 DEF RunContainer, ContainerCreated
  <2>3. CASE ~ (RemoveOldContainer(f) \/ RunContainer(f))
    BY <1>1, <2>3 DEF Work, Acquire, MarkDeploymentRunning, MarkEnvironmentRunning,
       Load, Prepare, Build, TearDownStack, BringUpStack, Check, FinishDeployment,
       FinishEnvironment, Release, host
  <2> QED
    BY <2>1, <2>2, <2>3
<1>2. ASSUME ~ \E f \in DeployIds : Work(f)
      PROVE  container' = container
  BY <1>2 DEF Next, CreateEnvironment, UpdateEnvironment, DeleteEnvironment, Trigger,
     TakeMark, Expire, Crash, Start, ResetDeployments, ResetEnvironments, vars, host
<1> QED
  BY <1>1, <1>2

(* What a mark stands for, it goes on standing for.                        *)
LEMMA SlotStable ==
  ASSUME IInv, [Next]_vars, spared \subseteq spared', NEW e \in EnvIds
  PROVE  \A d \in DeployIds \cup {Nobody}, old \in SUBSET DeployIds :
            StandsFor(e, d, old) => StandsFor(e, d, old)'
<1> SUFFICES ASSUME NEW d \in DeployIds \cup {Nobody}, NEW old \in SUBSET DeployIds,
                    StandsFor(e, d, old), d # Nobody
             PROVE  /\ d < nextId' /\ envOf'[d] = e /\ pc'[d] \in Past
                    /\ \A f \in old : f < nextId' /\ pc'[f] \in Over
                    /\ plan'[d] = "container" =>
                        /\ container'[named'[d]] \notin old
                        /\ d \notin spared' => \A n \in Names : container'[n] \notin old
  BY DEF StandsFor
<1>1. /\ d \in DeployIds /\ d < nextId /\ envOf[d] = e /\ pc[d] \in Past
      /\ \A f \in old : f < nextId /\ pc[f] \in Over
      /\ plan[d] = "container" =>
            /\ container[named[d]] \notin old
            /\ d \notin spared => \A n \in Names : container[n] \notin old
  BY DEF StandsFor
<1>2. /\ d < nextId' /\ envOf'[d] = e /\ pc'[d] \in Past
      /\ plan'[d] = "container" => plan[d] = "container" /\ named'[d] = named[d]
  BY <1>1, PastStaysPast
<1>3. \A f \in old : f < nextId' /\ pc'[f] \in Over
  BY <1>1, PastStaysPast
<1>4. Nobody \notin old /\ \A f \in old : pc[f] # "run"
  BY <1>1, ConstantsAssumption DEF Nobody, DeployIds, Over
<1>5. \A n \in Names : container[n] \notin old => container'[n] \notin old
  BY <1>4, ContainerSteps
<1>6. named[d] \in Names
  BY <1>1 DEF IInv, TypeOK
<1> QED
  BY <1>1, <1>2, <1>3, <1>5, <1>6

(* A deployment gets to docker run, and past it, by way of the removal.    *)
LEMMA ByWayOfRemoval ==
  ASSUME IInv, [Next]_vars, NEW d \in DeployIds,
         pc'[d] \in {"run", "check"}, plan'[d] = "container"
  PROVE  \/ pc[d] \in {"run", "check"} /\ plan[d] = "container"
         \/ pc[d] = "remove" /\ pc'[d] = "run"
<1>0. TypeOK
  BY DEF IInv
<1>1. CASE pc' = pc /\ plan' = plan
  BY <1>1
<1>2. ASSUME NEW e \in EnvIds, Trigger(e)
      PROVE  pc[d] = pc'[d] /\ plan[d] = plan'[d]
  BY <1>0, <1>2 DEF Trigger, TypeOK
<1>3. ASSUME NEW f \in DeployIds, Work(f)
      PROVE  \/ pc[d] \in {"run", "check"} /\ plan[d] = "container"
             \/ pc[d] = "remove" /\ pc'[d] = "run"
  <2>1. CASE f # d
    <3>1. pc'[d] = pc[d] /\ plan'[d] = plan[d]
      BY <1>0, <1>3, <2>1 DEF TypeOK, Work, Acquire, MarkDeploymentRunning,
         MarkEnvironmentRunning, Load, Prepare, Build, RemoveOldContainer,
         RunContainer, TearDownStack, BringUpStack, Check, FinishDeployment,
         FinishEnvironment, Release, Goto, Fail
    <3> QED
      BY <3>1
  <2>2. CASE f = d /\ RemoveOldContainer(d)
    BY <1>0, <2>2 DEF TypeOK, RemoveOldContainer, Goto
  <2>3. CASE f = d /\ RunContainer(d)
    BY <2>3 DEF RunContainer, IInv, StepMatchesPlan
  <2>4. CASE f = d /\ BringUpStack(d)
    <3>1. plan'[d] = "compose"
      BY <2>4 DEF BringUpStack, IInv, StepMatchesPlan
    <3> QED
      BY <3>1
  <2>5. CASE f = d /\ ~ (RemoveOldContainer(d) \/ RunContainer(d) \/ BringUpStack(d))
    <3>1. pc'[d] \notin {"run", "check"}
      BY <1>0, <1>3, <2>5 DEF TypeOK, Work, Acquire, MarkDeploymentRunning,
         MarkEnvironmentRunning, Load, Prepare, Build, TearDownStack, Check,
         FinishDeployment, FinishEnvironment, Release, Goto, Fail
    <3> QED
      BY <3>1
  <2> QED
    BY <1>3, <2>1, <2>2, <2>3, <2>4, <2>5
<1>4. ~ Crash
  BY DEF Crash
<1>5. \/ pc' = pc /\ plan' = plan
      \/ \E e \in EnvIds : Trigger(e)
      \/ \E f \in DeployIds : Work(f)
  BY <1>4 DEF Next, CreateEnvironment, UpdateEnvironment, DeleteEnvironment, TakeMark,
     Expire, Start, ResetDeployments, ResetEnvironments, vars, workers
<1> QED
  BY <1>1, <1>2, <1>3, <1>5

(* A step that records who spares a container keeps the others swept.      *)
LEMMA SweptStable ==
  ASSUME IInv, Swept, [Next]_vars, spared \subseteq spared',
         \A d \in DeployIds : Spares(d) => d \in spared'
  PROVE  Swept'
<1> SUFFICES ASSUME NEW d \in DeployIds, pc'[d] \in {"run", "check"},
                    plan'[d] = "container", d \notin spared',
                    NEW n \in Labelled(envOf[d])'
             PROVE  container'[n] = d
  BY DEF Swept
<1>1. pc[d] \in {"run", "check"} /\ plan[d] = "container"
  BY ByWayOfRemoval DEF Spares
<1>2. d < nextId /\ \A f \in DeployIds : pc[f] = "run" => f < nextId
  BY <1>1, ConstantsAssumption DEF IInv, TypeOK, FreshIds, DeployIds
<1>3. /\ n \in Names /\ container'[n] # Nobody
      /\ envOf'[container'[n]] = envOf[d]
  BY <1>2, PastStaysPast DEF Labelled
<1>4. CASE container'[n] = container[n]
  <2>1. container[n] \in DeployIds /\ container[n] < nextId
    BY <1>3, <1>4 DEF IInv, TypeOK, FreshIds
  <2>2. envOf[container[n]] = envOf[d]
    BY <1>3, <1>4, <2>1, PastStaysPast
  <2>3. n \in Labelled(envOf[d])
    BY <1>3, <1>4, <2>2 DEF Labelled
  <2> QED
    BY <1>1, <1>4, <2>3 DEF Swept
<1>5. CASE container'[n] \in DeployIds /\ pc[container'[n]] = "run"
  <2>1. envOf[container'[n]] = envOf[d]
    BY <1>2, <1>3, <1>5, PastStaysPast
  <2> QED
    BY <1>1, <1>5, <2>1 DEF IInv, LockNamesHolder, Holding
<1> QED
  BY <1>3, <1>4, <1>5, ContainerSteps

(* Marks says of a step that it is a successful Check.                     *)
LEMMA MarksIsCheck ==
  ASSUME IInv, Next, NEW d \in DeployIds, Marks(d)
  PROVE  /\ Check(d)
         /\ mark' = mark \cup ({envOf[d]} \cap ClearEnvs)
         /\ lock[envOf[d]] = d /\ d < nextId /\ d # Nobody
<1>0. /\ pc[d] = "check" /\ pc'[d] = "finish_row" /\ result'[d] = "success"
      /\ pc' # pc /\ TypeOK
  BY DEF Marks, IInv
<1>1. Check(d)
  <2>1. ASSUME NEW e \in EnvIds, Trigger(e)
        PROVE  FALSE
    BY <1>0, <2>1 DEF Trigger, TypeOK
  <2>2. ~ Crash
    BY <1>0 DEF Crash
  <2>3. PICK f \in DeployIds : Work(f)
    BY <1>0, <2>1, <2>2 DEF Next, CreateEnvironment, DeleteEnvironment, TakeMark,
       UpdateEnvironment, Expire, Start, ResetDeployments,
       ResetEnvironments, workers
  <2>4. f = d
    BY <1>0, <2>3 DEF TypeOK, Work, Acquire, MarkDeploymentRunning,
       MarkEnvironmentRunning, Load, Prepare, Build, RemoveOldContainer,
       RunContainer, TearDownStack, BringUpStack, Check, FinishDeployment,
       FinishEnvironment, Release, Goto, Fail
  <2> QED
    BY <1>0, <2>3, <2>4 DEF Work, Acquire, MarkDeploymentRunning,
       MarkEnvironmentRunning, Load, Prepare, Build, RemoveOldContainer,
       RunContainer, TearDownStack, BringUpStack, FinishDeployment,
       FinishEnvironment, Release
<1>2. mark' = mark \cup ({envOf[d]} \cap ClearEnvs)
  BY <1>0, <1>1 DEF Check, Fail, TypeOK
<1>3. lock[envOf[d]] = d
  BY <1>0 DEF IInv, LockNamesHolder, Holding
<1>4. d < nextId /\ d # Nobody
  <2>1. d \in Nat \ {0} /\ nextId \in Nat
    BY <1>0, ConstantsAssumption DEF TypeOK, DeployIds
  <2>2. ~ (d >= nextId)
    BY <1>0 DEF IInv, FreshIds
  <2> QED
    BY <2>1, <2>2 DEF Nobody
<1> QED
  BY <1>1, <1>2, <1>3, <1>4

(* No other step makes a mark.                                             *)
LEMMA OnlyMarksMark ==
  ASSUME IInv, Next, NEW e \in mark' \ mark
  PROVE  e \in ClearEnvs /\ \E d \in DeployIds : envOf[d] = e /\ Marks(d)
<1>1. PICK d \in DeployIds : Check(d)
  BY DEF Next, Work, Start, CreateEnvironment, DeleteEnvironment, Trigger,
     TakeMark, UpdateEnvironment, Acquire, MarkDeploymentRunning,
     MarkEnvironmentRunning, Load, Prepare, Build, RemoveOldContainer, RunContainer,
     TearDownStack, BringUpStack, FinishDeployment, FinishEnvironment, Release,
     Expire, Crash, ResetDeployments, ResetEnvironments
<1>2. /\ e = envOf[d] /\ e \in ClearEnvs
      /\ pc[d] = "check" /\ result' = [result EXCEPT ![d] = "success"]
      /\ pc' = [pc EXCEPT ![d] = "finish_row"]
  BY <1>1 DEF Check, Goto
<1> QED
  BY <1>2 DEF Marks, IInv, TypeOK

-----------------------------------------------------------------------------
(* The invariant holds initially, and every step of the gate keeps it.     *)

LEMMA IdleRequest == Idle \in Requested /\ Idle.at = "idle" /\ Idle.clear = Nobody
<1>1. AnyName \in Names
  BY ConstantsAssumption DEF AnyName
<1>2. (CHOOSE e \in EnvIds : TRUE) \in EnvIds
  BY ConstantsAssumption
<1> QED
  BY <1>1, <1>2 DEF Idle, Requested

LEMMA GateInitEstablishes == GateInit => GInv
<1> SUFFICES ASSUME GateInit PROVE GInv
  OBVIOUS
<1>1. IInv /\ mark = {}
  BY InitEstablishes DEF GateInit, Init
<1>2. GateTypeOK
  BY <1>1, IdleRequest DEF GateInit, GateTypeOK, Requested
<1>3. MarksStand /\ HeadersStand /\ LetThroughAtRest /\ SentMarksAreTaken
  BY IdleRequest DEF GateInit, MarksStand, HeadersStand, LetThroughAtRest,
     SentMarksAreTaken, StandsFor
<1>4. Swept
  BY DEF GateInit, Init, Swept
<1> QED
  BY <1>1, <1>2, <1>3, <1>4 DEF GInv

(* Every step of the gate is a step of the engine, or a stutter of it.     *)
LEMMA GateStepIsEngineStep ==
  ASSUME GateTypeOK, [GateNext]_allVars
  PROVE  [Next]_vars
<1>1. CASE Engine
  BY <1>1 DEF Engine
<1>2. ASSUME NEW q \in Requests, \E e \in EnvIds : Arrive(q, e)
      PROVE  UNCHANGED vars
  BY <1>2 DEF Arrive
<1>3. ASSUME NEW q \in Requests, Serve(q)
      PROVE  [Next]_vars
  <2>1. req[q].env \in EnvIds
    BY DEF GateTypeOK
  <2>2. UNCHANGED vars \/ Trigger(req[q].env) \/ TakeMark(req[q].env)
    BY <1>3 DEF Serve, Control, List, Reverse, Dial
  <2> QED
    BY <2>1, <2>2 DEF Next
<1> QED
  BY <1>1, <1>2, <1>3 DEF GateNext, allVars

(* What the engine does to the histories.                                  *)
LEMMA EngineHistories ==
  ASSUME GInv, Engine, NEW e \in EnvIds
  PROVE  \/ made'[e] = made[e] /\ older'[e] = older[e]
         \/ /\ made'[e] \in DeployIds /\ Marks(made'[e]) /\ envOf[made'[e]] = e
            /\ older'[e] = Worked(e) \ {made'[e]}
<1>1. CASE \E d \in DeployIds : envOf[d] = e /\ Marks(d)
  <2>1. PICK d \in DeployIds : envOf[d] = e /\ Marks(d)
    BY <1>1
  <2>2. lock[e] = d /\ pc[d] = "check" /\ d # Nobody
    BY <2>1, MarksIsCheck DEF GInv, Engine, Check
  <2>3. made[e] # d
    BY <2>2 DEF GInv, MarksStand, StandsFor, Past
  <2> QED
    BY <2>1, <2>2, <2>3 DEF Engine
<1>2. CASE ~ \E d \in DeployIds : envOf[d] = e /\ Marks(d)
  BY <1>2 DEF Engine
<1> QED
  BY <1>1, <1>2

(* A new mark stands for the deployment that made it.                      *)
LEMMA NewMarkStands ==
  ASSUME IInv, Swept, Next, spared \subseteq spared',
         NEW e \in EnvIds, NEW d \in DeployIds, Marks(d), envOf[d] = e
  PROVE  \A old : old = Worked(e) \ {d} => StandsFor(e, d, old)'
<1>1. /\ Check(d) /\ lock[e] = d /\ pc[d] = "check" /\ d < nextId
      /\ nextId' = nextId /\ envOf' = envOf /\ plan' = plan /\ named' = named
      /\ container' = container /\ pc'[d] = "finish_row"
  BY MarksIsCheck DEF Marks, Check, store, host
<1>2. ASSUME NEW f \in Worked(e), f # d
      PROVE  f < nextId' /\ pc'[f] \in Over
  <2>1. f \in DeployIds /\ f < nextId /\ envOf[f] = e /\ pc[f] # "lock"
    BY ConstantsAssumption DEF IInv, TypeOK, DeployIds, Worked
  <2>2. pc[f] \notin Holding
    BY <1>1, <1>2, <2>1 DEF IInv, LockNamesHolder
  <2>3. pc[f] \in Over
    BY <2>1, <2>2 DEF IInv, TypeOK, PCs, Over
  <2> QED
    BY <2>1, <2>3, PastStaysPast
<1>3. plan[d] = "container" => container[named[d]] = d
  BY <1>1 DEF IInv, WorkloadOwner, Stands
<1>4. ASSUME plan[d] = "container", d \notin spared'
      PROVE  \A n \in Names : container[n] \notin Worked(e) \ {d}
  <2> SUFFICES ASSUME NEW n \in Names, container[n] \in Worked(e), container[n] # d
               PROVE  FALSE
    OBVIOUS
  <2>1. envOf[container[n]] = e /\ container[n] # Nobody
    BY ConstantsAssumption DEF IInv, TypeOK, DeployIds, Worked, Nobody
  <2>2. n \in Labelled(envOf[d])
    BY <2>1 DEF Labelled
  <2> QED
    BY <1>1, <1>4, <2>2 DEF Swept
<1> QED
  BY <1>1, <1>2, <1>3, <1>4 DEF StandsFor, Past

(* The engine keeps the histories, and with them every slot.               *)
LEMMA EngineKeepsMarks ==
  ASSUME GInv, Engine
  PROVE  MarksStand'
<1> SUFFICES ASSUME NEW e \in EnvIds
             PROVE  StandsFor(e, made[e], older[e])'
  BY DEF MarksStand
<1>0. IInv /\ Swept /\ Next /\ spared \subseteq spared'
      /\ StandsFor(e, made[e], older[e]) /\ made[e] \in DeployIds \cup {Nobody}
      /\ older[e] \in SUBSET DeployIds
  BY DEF GInv, GateTypeOK, MarksStand, Engine
<1>1. CASE made'[e] = made[e] /\ older'[e] = older[e]
  <2>1. \A d \in DeployIds \cup {Nobody}, old \in SUBSET DeployIds :
            d = made[e] /\ old = older[e] => StandsFor(e, d, old)'
    BY <1>0, SlotStable
  <2> QED
    BY <1>0, <1>1, <2>1 DEF StandsFor
<1>2. CASE /\ made'[e] \in DeployIds /\ Marks(made'[e]) /\ envOf[made'[e]] = e
           /\ older'[e] = Worked(e) \ {made'[e]}
  <2>1. ASSUME NEW d \in DeployIds, d = made'[e]
        PROVE  StandsFor(e, made[e], older[e])'
    <3>1. \A old : old = Worked(e) \ {d} => StandsFor(e, d, old)'
      BY <1>0, <1>2, <2>1, NewMarkStands
    <3> QED
      BY <1>2, <2>1, <3>1 DEF StandsFor
  <2> QED
    BY <1>2, <2>1
<1> QED
  BY <1>1, <1>2, EngineHistories

LEMMA EngineKeepsHeaders ==
  ASSUME GInv, Engine
  PROVE  HeadersStand' /\ LetThroughAtRest'
<1>1. ASSUME NEW q \in Requests
      PROVE  /\ StandsFor(req[q].env, req[q].clear, req[q].old)'
             /\ req'[q].at \in {"list", "reverse", "dial"} => req'[q].rested
  <2>0. /\ IInv /\ Next /\ req[q] \in Requested /\ spared \subseteq spared'
        /\ StandsFor(req[q].env, req[q].clear, req[q].old)
        /\ req[q].at \in {"list", "reverse", "dial"} => req[q].rested
    BY DEF GInv, GateTypeOK, HeadersStand, LetThroughAtRest, Engine, Requested
  <2>1. CASE req'[q] = Idle
    BY <2>1, IdleRequest DEF StandsFor
  <2>2. CASE req'[q] # Idle
    <3>1. /\ req'[q].env = req[q].env /\ req'[q].clear = req[q].clear
          /\ req'[q].old = req[q].old /\ req'[q].at = req[q].at
          /\ req[q].rested => req'[q].rested
      BY <2>0, <2>2 DEF Engine, Requested
    <3>2. StandsFor(req[q].env, req[q].clear, req[q].old) =>
            \A e \in EnvIds, d \in DeployIds \cup {Nobody}, old \in SUBSET DeployIds :
                e = req[q].env /\ d = req[q].clear /\ old = req[q].old =>
                    StandsFor(e, d, old)'
      BY <2>0, SlotStable
    <3> QED
      BY <2>0, <3>1, <3>2 DEF StandsFor, Requested
  <2> QED
    BY <2>1, <2>2
<1> QED
  BY <1>1 DEF HeadersStand, LetThroughAtRest

LEMMA EngineKeepsTypes ==
  ASSUME GInv, Engine
  PROVE  GateTypeOK'
<1>0. IInv /\ Next /\ IInv' /\ GateTypeOK
  BY StepPreserves DEF GInv, Engine
<1>1. req' \in [Requests -> Requested]
  <2>1. ASSUME NEW q \in Requests
        PROVE  [req[q] EXCEPT !.rested =
                    @ \/ req[q].env \in {e \in EnvIds : AtRest(e)'}] \in Requested
    BY <1>0 DEF GateTypeOK, Requested
  <2> QED
    BY <2>1, IdleRequest DEF Engine
<1>2. \A q \in Requests : req'[q].at = "idle" => req'[q] = Idle
  BY <1>0 DEF GateTypeOK, Engine
<1>3. \A e \in EnvIds : made'[e] \in DeployIds \cup {Nobody} /\ older'[e] \in SUBSET DeployIds
  <2>1. \A e \in EnvIds : Worked(e) \subseteq DeployIds
    BY <1>0, ConstantsAssumption DEF IInv, TypeOK, DeployIds, Worked
  <2> QED
    BY <1>0, <2>1, EngineHistories DEF GateTypeOK
<1>4. ASSUME NEW e \in mark'
      PROVE  made'[e] # Nobody
  <2>0. e \in EnvIds /\ Nobody \notin DeployIds
    BY <1>0, ConstantsAssumption DEF IInv, TypeOK, Nobody, DeployIds
  <2>1. CASE e \in mark
    BY <1>0, <2>0, <2>1, EngineHistories DEF GateTypeOK
  <2>2. CASE e \notin mark
    <3>1. PICK d \in DeployIds : e \in ClearEnvs /\ envOf[d] = e /\ Marks(d)
      BY <1>0, <2>2, OnlyMarksMark
    <3>2. made'[e] = lock[e]
      BY <2>0, <3>1 DEF Engine
    <3> QED
      BY <1>0, <3>1, <3>2, MarksIsCheck
  <2> QED
    BY <2>1, <2>2
<1>5. made' \in [EnvIds -> DeployIds \cup {Nobody}] /\ older' \in [EnvIds -> SUBSET DeployIds]
  BY <1>3 DEF Engine
<1>6. sent' \in [DeployIds -> Nat] /\ spared' \subseteq DeployIds
  BY <1>0 DEF GateTypeOK, Engine
<1> QED
  BY <1>1, <1>2, <1>4, <1>5, <1>6 DEF GateTypeOK, Requested

(* A deployment whose mark was taken does not get it back.                 *)
LEMMA EngineKeepsSent ==
  ASSUME GInv, Engine
  PROVE  SentMarksAreTaken'
<1> SUFFICES ASSUME NEW d \in DeployIds, sent[d] = 1, d < nextId, pc[d] \in Past,
                    \A e \in mark : made[e] # d
             PROVE  d < nextId' /\ pc'[d] \in Past /\ \A e \in mark' : made'[e] # d
  BY DEF GInv, SentMarksAreTaken, Engine
<1>0. IInv /\ Next /\ GateTypeOK /\ ~ Marks(d) /\ mark' \subseteq EnvIds
  BY StepPreserves DEF GInv, Engine, Marks, Past, IInv, TypeOK
<1>1. d < nextId' /\ pc'[d] \in Past
  BY <1>0, PastStaysPast
<1>2. ASSUME NEW e \in mark', made'[e] = d
      PROVE  FALSE
  <2>1. e \in EnvIds /\ made'[e] = made[e]
    BY <1>0, <1>2, EngineHistories
  <2>2. e \notin mark
    BY <1>2, <2>1
  <2>3. PICK f \in DeployIds : e \in ClearEnvs /\ envOf[f] = e /\ Marks(f)
    BY <1>0, <2>2, OnlyMarksMark
  <2>4. made'[e] = f
    BY <1>0, <2>1, <2>3, MarksIsCheck DEF Engine
  <2> QED
    BY <1>0, <1>2, <2>3, <2>4
<1> QED
  BY <1>1, <1>2

LEMMA EngineStep ==
  ASSUME GInv, Engine
  PROVE  GInv'
<1>1. Swept'
  BY SweptStable DEF GInv, Engine
<1> QED
  BY <1>1, StepPreserves, EngineKeepsMarks, EngineKeepsHeaders, EngineKeepsTypes,
     EngineKeepsSent DEF GInv, Engine

-----------------------------------------------------------------------------
(* The steps of a request, one lemma per action.                           *)

(* A request's step that leaves the engine and the histories alone keeps   *)
(* the invariant if what it makes of the request may stand.                *)
LEMMA RequestStep ==
  ASSUME GInv, UNCHANGED <<vars, made, older, sent, spared>>, NEW q \in Requests,
         NEW r \in Requested, req' = [req EXCEPT ![q] = r],
         r.at = "idle" => r = Idle,
         StandsFor(r.env, r.clear, r.old),
         r.at \in {"list", "reverse", "dial"} => r.rested
  PROVE  GInv'
<1>1. IInv'
  BY StutterPreserves DEF GInv
<1>2. GateTypeOK'
  BY DEF GInv, GateTypeOK, Requested, vars
<1>3. MarksStand' /\ SentMarksAreTaken' /\ Swept'
  BY DEF GInv, Swept, Labelled, MarksStand, SentMarksAreTaken, StandsFor, vars,
     store, workers, host
<1>4. ASSUME NEW p \in Requests
      PROVE  /\ StandsFor(req'[p].env, req'[p].clear, req'[p].old)
             /\ req'[p].at \in {"list", "reverse", "dial"} => req'[p].rested
  <2>1. CASE p = q
    BY <2>1 DEF GInv, GateTypeOK
  <2>2. CASE p # q
    BY <2>2 DEF GInv, GateTypeOK, HeadersStand, LetThroughAtRest
  <2> QED
    BY <2>1, <2>2
<1>5. HeadersStand' /\ LetThroughAtRest'
  BY <1>4 DEF HeadersStand, LetThroughAtRest, StandsFor, vars, store, workers, host
<1> QED
  BY <1>1, <1>2, <1>3, <1>5 DEF GInv

LEMMA AnswerStep ==
  ASSUME GInv, UNCHANGED <<vars, made, older, sent, spared>>, NEW q \in Requests, Answered(q)
  PROVE  GInv'
BY RequestStep, IdleRequest DEF Answered, StandsFor

(* The row that ready reads tells whether the environment is at rest.      *)
LEMMA ArriveStep ==
  ASSUME GInv, NEW q \in Requests, NEW e \in EnvIds, Arrive(q, e)
  PROVE  GInv'
<1>1. status[e] # "running" => AtRest(e)
  BY DEF Arrive, GInv, IInv, PipelineShows, AtRest
<1>2. PICK p \in {"control", "list"} : Arrived(q, e, p) /\ (p = "list" => AtRest(e))
  BY <1>1 DEF Arrive
<1> DEFINE r == [Idle EXCEPT !.at = p, !.env = e, !.name = name[e],
                            !.rested = AtRest(e)]
<1>3. /\ r \in Requested /\ r.at = p /\ r.env = e /\ r.clear = Nobody
      /\ r.rested = AtRest(e)
  <2>1. name[e] \in Names
    BY DEF GInv, IInv, TypeOK
  <2> QED
    BY <2>1, IdleRequest DEF Requested, AtRest
<1>4. req' = [req EXCEPT ![q] = r]
  BY <1>2 DEF Arrived
<1>5. StandsFor(r.env, r.clear, r.old)
  BY <1>3 DEF StandsFor
<1> HIDE DEF r
<1> QED
  BY <1>2, <1>3, <1>4, <1>5, RequestStep DEF Arrive

LEMMA ListStep ==
  ASSUME GInv, NEW q \in Requests, List(q)
  PROVE  GInv'
<1>1. CASE Answered(q)
  BY <1>1, AnswerStep DEF List
<1>2. CASE Step(q, "reverse")
  <2>1. /\ req[q] \in Requested /\ req[q].at = "list" /\ req[q].rested
        /\ StandsFor(req[q].env, req[q].clear, req[q].old)
    BY DEF List, GInv, GateTypeOK, HeadersStand, LetThroughAtRest, Requested
  <2> QED
    BY <1>2, <2>1, RequestStep DEF List, Step, Requested
<1> QED
  BY <1>1, <1>2 DEF List

LEMMA DialStep ==
  ASSUME GInv, NEW q \in Requests, Dial(q)
  PROVE  GInv'
BY AnswerStep DEF Dial

(* Marks and headers go on standing through a step that makes no mark.     *)
LEMMA SlotsStable ==
  ASSUME GInv, [Next]_vars, UNCHANGED <<made, older, spared>>
  PROVE  /\ MarksStand'
         /\ \A q \in Requests, r \in Requested :
                r = req[q] => StandsFor(r.env, r.clear, r.old)'
<1>1. ASSUME NEW e \in EnvIds
      PROVE  StandsFor(e, made[e], older[e])'
  <2>1. /\ IInv /\ StandsFor(e, made[e], older[e])
        /\ made[e] \in DeployIds \cup {Nobody} /\ older[e] \in SUBSET DeployIds
    BY DEF GInv, GateTypeOK, MarksStand
  <2>2. \A d \in DeployIds \cup {Nobody}, old \in SUBSET DeployIds :
            d = made[e] /\ old = older[e] => StandsFor(e, d, old)'
    BY <2>1, SlotStable
  <2> QED
    BY <2>1, <2>2 DEF StandsFor
<1>2. ASSUME NEW q \in Requests, NEW r \in Requested, r = req[q]
      PROVE  StandsFor(r.env, r.clear, r.old)'
  <2>1. /\ IInv /\ StandsFor(r.env, r.clear, r.old) /\ r.env \in EnvIds
        /\ r.clear \in DeployIds \cup {Nobody} /\ r.old \in SUBSET DeployIds
    BY <1>2 DEF GInv, HeadersStand, Requested
  <2> QED
    BY <2>1, SlotStable
<1> QED
  BY <1>1, <1>2 DEF MarksStand

LEMMA ControlStep ==
  ASSUME GInv, NEW q \in Requests, Control(q)
  PROVE  GInv'
<1>1. CASE UNCHANGED vars
  BY <1>1, AnswerStep DEF Control
<1>2. CASE Trigger(req[q].env)
  <2>1. /\ Next /\ IInv /\ mark' = mark /\ UNCHANGED <<made, older, sent, spared>>
        /\ req' = [req EXCEPT ![q] = Idle]
    BY <1>2 DEF GInv, GateTypeOK, Control, Answered, Next, Trigger
  <2>2. IInv' /\ GateTypeOK'
    BY <2>1, StepPreserves, IdleRequest DEF GInv, GateTypeOK, Requested
  <2>3. ASSUME NEW p \in Requests
        PROVE  /\ StandsFor(req[p].env, req[p].clear, req[p].old)'
               /\ req'[p].at \in {"list", "reverse", "dial"} => req'[p].rested
    <3>1. CASE p = q
      BY <2>1, <3>1, IdleRequest DEF StandsFor, GInv, GateTypeOK
    <3>2. CASE p # q
      BY <2>1, <3>2, SlotsStable DEF StandsFor, GInv, GateTypeOK, LetThroughAtRest,
         Requested
    <3> QED
      BY <3>1, <3>2
  <2>4. SentMarksAreTaken'
    BY <2>1, PastStaysPast DEF GInv, SentMarksAreTaken
  <2>5. Swept'
    <3>1. \A d \in DeployIds : ~ Spares(d)
      BY <1>2 DEF Spares, Trigger, GInv, IInv, TypeOK
    <3> QED
      BY <2>1, <3>1, SweptStable DEF GInv
  <2> QED
    BY <2>1, <2>2, <2>3, <2>4, <2>5, SlotsStable DEF GInv, HeadersStand,
       LetThroughAtRest
<1> QED
  BY <1>1, <1>2 DEF Control

(* A request that takes the mark is the only one to: the mark is gone, and *)
(* no other environment's was made by the same deployment.                 *)
LEMMA TakeStep ==
  ASSUME GInv, NEW q \in Requests, req[q].at = "reverse", TakeMark(req[q].env), Took(q)
  PROVE  GInv'
<1> DEFINE e == req[q].env
           d == made[e]
<1>1. /\ Next /\ IInv /\ IInv' /\ UNCHANGED <<made, older, spared>>
      /\ e \in EnvIds /\ e \in mark /\ mark' = mark \ {e}
      /\ d \in DeployIds /\ older[e] \in SUBSET DeployIds
  BY StepPreserves DEF GInv, GateTypeOK, Took, TakeMark, Next
<1>2. StandsFor(e, d, older[e]) /\ d # Nobody
  BY <1>1 DEF GInv, GateTypeOK, MarksStand
<1>3. /\ req' = [req EXCEPT ![q] = [req[q] EXCEPT !.at = "dial", !.clear = d,
                                                 !.old = older[e]]]
      /\ req[q] \in Requested
  BY DEF Took, GInv, GateTypeOK, Requested
<1>4. GateTypeOK'
  BY <1>1, <1>3 DEF GInv, GateTypeOK, Requested, Took
<1>5. ASSUME NEW p \in Requests
      PROVE  /\ StandsFor(req[p].env, req[p].clear, req[p].old)'
             /\ req'[p].at \in {"list", "reverse", "dial"} => req'[p].rested
  <2>1. CASE p = q
    <3>1. /\ req'[p].env = e /\ req'[p].clear = d /\ req'[p].old = older[e]
          /\ req'[p].rested = req[q].rested
      BY <1>3, <2>1 DEF GInv, GateTypeOK, Requested
    <3>2. StandsFor(e, d, older[e]) =>
            \A old \in SUBSET DeployIds, f \in DeployIds, c \in EnvIds :
                c = e /\ f = d /\ old = older[e] => StandsFor(c, f, old)'
      BY <1>1, SlotStable
    <3> QED
      BY <1>1, <1>2, <2>1, <3>1, <3>2 DEF StandsFor, GInv, LetThroughAtRest
  <2>2. CASE p # q
    BY <1>1, <1>3, <2>2, SlotsStable DEF StandsFor, GInv, GateTypeOK,
       LetThroughAtRest, Requested
  <2> QED
    BY <2>1, <2>2
<1>6. ASSUME NEW f \in DeployIds
      PROVE  \/ sent'[f] = 0
             \/ /\ sent'[f] = 1
                /\ f < nextId' /\ pc'[f] \in Past
                /\ \A c \in mark' : made'[c] # f
  <2>1. CASE f = d
    <3>1. sent[d] = 0
      BY <1>1 DEF GInv, SentMarksAreTaken
    <3>2. sent'[d] = 1
      BY <1>1, <3>1 DEF Took, GInv, GateTypeOK
    <3>3. d < nextId /\ pc[d] \in Past /\ envOf[d] = e
      BY <1>2 DEF StandsFor
    <3>4. ASSUME NEW c \in mark, made[c] = d
          PROVE  c = e
      BY <1>1, <1>2, <3>3, <3>4 DEF GInv, IInv, TypeOK, MarksStand, StandsFor
    <3> QED
      BY <1>1, <2>1, <3>2, <3>3, <3>4, PastStaysPast
  <2>2. CASE f # d
    BY <1>1, <2>2, PastStaysPast DEF GInv, SentMarksAreTaken, GateTypeOK, Took
  <2> QED
    BY <2>1, <2>2
<1>7. Swept'
  <2>1. \A f \in DeployIds : ~ Spares(f)
    BY DEF Spares, TakeMark, workers
  <2> QED
    BY <1>1, <2>1, SweptStable DEF GInv
<1> QED
  BY <1>1, <1>4, <1>5, <1>6, <1>7, SlotsStable DEF GInv, HeadersStand, LetThroughAtRest,
     SentMarksAreTaken

LEMMA ReverseStep ==
  ASSUME GInv, NEW q \in Requests, Reverse(q)
  PROVE  GInv'
<1>1. CASE TakeMark(req[q].env) /\ Took(q)
  BY <1>1, TakeStep DEF Reverse
<1>2. CASE Step(q, "dial") /\ UNCHANGED <<vars, made, older, sent, spared>>
  <2>1. /\ req[q] \in Requested /\ req[q].at = "reverse" /\ req[q].rested
        /\ StandsFor(req[q].env, req[q].clear, req[q].old)
    BY DEF Reverse, GInv, GateTypeOK, HeadersStand, LetThroughAtRest, Requested
  <2> QED
    BY <1>2, <2>1, RequestStep DEF Step, Requested
<1> QED
  BY <1>1, <1>2 DEF Reverse

LEMMA GateStepPreserves ==
  ASSUME GInv, [GateNext]_allVars
  PROVE  GInv'
<1>1. CASE UNCHANGED allVars
  <2>1. IInv'
    BY <1>1, StutterPreserves DEF GInv, allVars
  <2> QED
    BY <1>1, <2>1 DEF GInv, GateTypeOK, Swept, Labelled, MarksStand, HeadersStand,
       LetThroughAtRest, SentMarksAreTaken, StandsFor, allVars, gate, vars, store,
       workers, host
<1>2. CASE Engine
  BY <1>2, EngineStep
<1>3. ASSUME NEW q \in Requests, (\E e \in EnvIds : Arrive(q, e)) \/ Serve(q)
      PROVE  GInv'
  BY <1>3, ArriveStep, ControlStep, ListStep, ReverseStep, DialStep DEF Serve
<1> QED
  BY <1>1, <1>2, <1>3 DEF GateNext

-----------------------------------------------------------------------------
(* The theorems.                                                           *)

THEOREM GateInvariance == GateSpec => []GInv
<1>1. GateInit => GInv
  BY GateInitEstablishes
<1>2. GInv /\ [GateNext]_allVars => GInv'
  BY GateStepPreserves
<1> QED
  BY <1>1, <1>2, PTL DEF GateSpec

(* Every variable of the proxy keeps its type; an idle request remembers   *)
(* nothing, and a mark has a deployment that made it.                      *)
THEOREM GateTypeCorrect == GateSpec => []GateTypeOK
<1>1. GInv => GateTypeOK
  BY DEF GInv
<1> QED
  BY <1>1, GateInvariance, PTL

(* The engine behind the proxy is the engine: whatever is proved of every  *)
(* behaviour of DeployEngine holds while requests are served.              *)
THEOREM GateRunsTheEngine == GateSpec => Spec
<1>1. GateInit => Init
  BY DEF GateInit
<1>2. GInv /\ [GateNext]_allVars => [Next]_vars
  BY GateStepIsEngineStep DEF GInv
<1> QED
  BY <1>1, <1>2, GateInvariance, PTL DEF GateSpec, Spec

(* Nothing that a redeploy was to replace answers with the clearing header *)
(* (clearsite.Flags, Server.reverse, Engine.work's Mark).                  *)
THEOREM ClearedPagesAreNew == GateSpec => []ClearedPageIsNew
<1>1. ASSUME GInv PROVE ClearedPageIsNew
  <2> SUFFICES ASSUME NEW q \in Requests, req[q].at = "dial", req[q].clear # Nobody,
                      plan[req[q].clear] = "container",
                      \/ req[q].name = named[req[q].clear]
                      \/ req[q].clear \notin spared
               PROVE  container[req[q].name] \notin req[q].old
    BY DEF ClearedPageIsNew
  <2>1. req[q].name \in Names /\ StandsFor(req[q].env, req[q].clear, req[q].old)
    BY <1>1 DEF GInv, GateTypeOK, HeadersStand
  <2> QED
    BY <2>1 DEF StandsFor
<1> QED
  BY <1>1, GateInvariance, PTL

(* A deployment's mark is sent at most once (clearsite.Flags.Take).        *)
THEOREM ClearedOncePerDeploy == GateSpec => []ClearedOnce
<1>1. GInv => ClearedOnce
  BY DEF GInv, SentMarksAreTaken, ClearedOnce
<1> QED
  BY <1>1, GateInvariance, PTL

(* Who gets past ready has overlapped a time when the environment was not  *)
(* being deployed (Server.ready).                                          *)
THEOREM ServedAtRestAlways == GateSpec => []ServedAtRest
<1>1. GInv => ServedAtRest
  BY DEF GInv, LetThroughAtRest, ServedAtRest
<1> QED
  BY <1>1, GateInvariance, PTL
=============================================================================
