---------------------------- MODULE JobLifecycle ----------------------------
(***************************************************************************)
(* What a table of asynchronous jobs promises to whoever reads it: the     *)
(* deployments table of the store, abstracted from the workers, locks,     *)
(* deadlines and containers that produce its contents.  A job is submitted *)
(* once, starts once, finishes once with a result that never changes, is   *)
(* failed when the process that ran it died, and may vanish with the       *)
(* environment it belongs to.  DeployEngine (for deployments) and          *)
(* TimedHooks (for hook_runs) are shown to implement this specification.   *)
(***************************************************************************)
CONSTANT Jobs

VARIABLE job      \* the state of every job there is or will be

States == {"unborn", "queued", "running", "success", "failed", "gone"}

Pending == {"queued", "running"}

Exists(j) == job[j] \notin {"unborn", "gone"}

Init == job = [j \in Jobs |-> "unborn"]

(* A row is inserted.                                                      *)
Submit(j) == /\ job[j] = "unborn"
             /\ job' = [job EXCEPT ![j] = "queued"]

Start(j) == /\ job[j] = "queued"
            /\ job' = [job EXCEPT ![j] = "running"]

Finish(j) == /\ job[j] = "running"
             /\ \E result \in {"success", "failed"} :
                    job' = [job EXCEPT ![j] = result]

(* The process restarted: nothing that was pending is running any more.    *)
Interrupt == job' = [j \in Jobs |-> IF job[j] \in Pending THEN "failed"
                                                          ELSE job[j]]

(* Rows go when their environment goes, whatever they were doing.          *)
Cascade(S) == /\ \A j \in S : Exists(j)
              /\ job' = [j \in Jobs |-> IF j \in S THEN "gone" ELSE job[j]]

Next == \/ \E j \in Jobs : Submit(j) \/ Start(j) \/ Finish(j)
        \/ Interrupt
        \/ \E S \in SUBSET Jobs : Cascade(S)

Spec == Init /\ [][Next]_job
=============================================================================
