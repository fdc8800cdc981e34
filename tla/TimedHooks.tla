----------------------------- MODULE TimedHooks -----------------------------
(***************************************************************************)
(* Timed hooks of edp: the scheduler's loop over them (internal/scheduler),*)
(* the runner that works their runs (internal/hooks), the API that edits   *)
(* and runs them, and the process's death and restart.  The loop treats    *)
(* environments with a redeploy schedule as it treats hooks.               *)
(*                                                                         *)
(* Time is counted in the scheduler's 30-second ticks.  The scheduler and  *)
(* every run are goroutines; an action is one statement on the store or    *)
(* the script.  Time passes between any two of them.                       *)
(***************************************************************************)
EXTENDS Naturals

CONSTANTS HookIds,       \* ids hooks may get; ids are never reused
          Schedules,     \* the schedules a hook may be given
          MaxRuns,       \* bound: runs triggered in a behaviour
          MaxTime,       \* bound: the clock stops there
          MaxRestarts    \* bound: times the process dies

(* A Go duration, a cron expression by the times it names, or a text that  *)
(* is neither.                                                             *)
ASSUME TimedHooksAssumption ==
    /\ HookIds \subseteq Nat \ {0} /\ HookIds # {} /\ Schedules # {}
    /\ MaxRuns \in Nat /\ MaxTime \in Nat \ {0} /\ MaxRestarts \in Nat
    /\ Schedules \subseteq [every : Nat] \cup [cron : SUBSET Nat] \cup [text : {"bad"}]

RunIds == 1 .. MaxRuns
Nobody == 0                  \* a free lock; no hook being fired
Never == 0                   \* NULL, or no entry: the clock starts at 1

Finished == {"success", "failed"}
HookStatuses == {"idle", "running"} \cup Finished
Hooks == [enabled : BOOLEAN, schedule : Schedules, status : HookStatuses,
          updated : 1 .. MaxTime]

NoHook == [enabled |-> FALSE, schedule |-> CHOOSE s \in Schedules : TRUE,
           status |-> "idle", updated |-> 1]

VARIABLES
    now, boot, restarts,
    created,     \* hooks ever inserted
    live,        \* hooks with a row
    hook,        \* the rows of timed_hooks
    nextRun,     \* AUTOINCREMENT of hook_runs
    run,         \* hook_runs.status
    hookOf,      \* hook_runs.hook_id
    started,     \* hook_runs.started_at
    pc,          \* where each run's goroutine is
    result,      \* the outcome it will record
    expired,     \* runs whose 30-minute context ended before they did
    lock,        \* Runner.locks
    scan,        \* rows the loop has listed and not yet considered
    tickAt,      \* the time the loop took at the tick
    firing,      \* the hook it is about to trigger
    fire,        \* Scheduler.hookFire
    claimed,     \* history: hooks whose status is a client's word, not the runner's
    lastFired    \* history: when the loop last triggered each hook

process == <<boot, restarts>>
table   == <<created, live, hook>>
runs    == <<nextRun, run, hookOf, started>>
workers == <<pc, result, expired, lock>>
loop    == <<scan, tickAt, firing, fire, lastFired>>
vars    == <<now, process, table, runs, workers, loop, claimed>>

Holding == {"mark_run", "mark_hook", "script", "finish_run", "finish_hook", "release"}

Runs(h) == {r \in RunIds : run[r] # "absent" /\ hookOf[r] = h}

TypeOK == /\ now \in 1 .. MaxTime
          /\ boot \in {"runs", "hooks", "up"}
          /\ restarts \in 0 .. MaxRestarts
          /\ live \subseteq created /\ created \subseteq HookIds
          /\ hook \in [HookIds -> Hooks]
          /\ nextRun \in 1 .. (MaxRuns + 1)
          /\ run \in [RunIds -> {"absent", "queued", "running"} \cup Finished]
          /\ hookOf \in [RunIds -> HookIds]
          /\ started \in [RunIds -> 0 .. MaxTime]
          /\ pc \in [RunIds -> {"none", "lock", "done"} \cup Holding]
          /\ result \in [RunIds -> Finished \cup {"none"}]
          /\ expired \subseteq RunIds
          /\ lock \in [HookIds -> RunIds \cup {Nobody}]
          /\ scan \subseteq [id : HookIds, row : Hooks]
          /\ tickAt \in 0 .. now
          /\ firing \in HookIds \cup {Nobody}
          /\ fire \in [HookIds -> 0 .. MaxTime]
          /\ claimed \subseteq HookIds
          /\ lastFired \in [HookIds -> 0 .. MaxTime]

Init == /\ now = 1 /\ boot = "up" /\ restarts = 0
        /\ created = {} /\ live = {}
        /\ hook = [h \in HookIds |-> NoHook]
        /\ nextRun = 1
        /\ run = [r \in RunIds |-> "absent"]
        /\ hookOf = [r \in RunIds |-> CHOOSE h \in HookIds : TRUE]
        /\ started = [r \in RunIds |-> Never]
        /\ pc = [r \in RunIds |-> "none"]
        /\ result = [r \in RunIds |-> "none"]
        /\ expired = {}
        /\ lock = [h \in HookIds |-> Nobody]
        /\ scan = {} /\ tickAt = 0 /\ firing = Nobody
        /\ fire = [h \in HookIds |-> Never]
        /\ claimed = {}
        /\ lastFired = [h \in HookIds |-> Never]

Up == boot = "up"

Advance == /\ now < MaxTime
           /\ now' = now + 1
           /\ UNCHANGED <<process, table, runs, workers, loop, claimed>>

-----------------------------------------------------------------------------
(* The API.                                                                *)

(* apiCreateHook stores the body, its status included (left out, it is     *)
(* idle).                                                                  *)
CreateHook(h, b, s, st) ==
    /\ Up /\ h \notin created
    /\ created' = created \cup {h}
    /\ live' = live \cup {h}
    /\ hook' = [hook EXCEPT ![h] = [enabled |-> b, schedule |-> s, status |-> st,
                                    updated |-> now]]
    /\ claimed' = IF st = "idle" THEN claimed ELSE claimed \cup {h}
    /\ UNCHANGED <<now, process, runs, workers, loop>>

(* ON DELETE CASCADE takes the runs with the hook.                         *)
DeleteHook(h) ==
    /\ Up /\ h \in live
    /\ live' = live \ {h}
    /\ hook' = [hook EXCEPT ![h] = NoHook]
    /\ run' = [r \in RunIds |-> IF r \in Runs(h) THEN "absent" ELSE run[r]]
    /\ started' = [r \in RunIds |-> IF r \in Runs(h) THEN Never ELSE started[r]]
    /\ claimed' = claimed \ {h}
    /\ UNCHANGED <<now, process, created, nextRun, hookOf, workers, loop>>

(* apiUpdateHook reads a row, lays the body over it (id and status are     *)
(* fields of a JSON body like any other), and later writes the whole row.  *)
(* So any row may be given any status, be it the client's word or the one  *)
(* that was read before the runner wrote another; the read restricts       *)
(* nothing, and is left out.                                               *)
UpdateHook(h, b, s, st) ==
    /\ Up /\ h \in live
    /\ hook' = [hook EXCEPT ![h] = [enabled |-> b, schedule |-> s, status |-> st,
                                    updated |-> now]]
    /\ claimed' = IF st = hook[h].status THEN claimed ELSE claimed \cup {h}
    /\ UNCHANGED <<now, process, created, live, runs, workers, loop>>

(* TriggerHook: the insert, and the goroutine.                             *)
Insert(h) ==
    /\ nextRun \in RunIds
    /\ nextRun' = nextRun + 1
    /\ run' = [run EXCEPT ![nextRun] = "queued"]
    /\ hookOf' = [hookOf EXCEPT ![nextRun] = h]
    /\ pc' = [pc EXCEPT ![nextRun] = "lock"]
    /\ UNCHANGED <<started, result, expired, lock>>

RunHook(h) ==
    /\ Up /\ h \in live
    /\ Insert(h)
    /\ UNCHANGED <<now, process, table, loop, claimed>>

-----------------------------------------------------------------------------
(* The scheduler's loop.                                                   *)

(* evaluateHooks lists every hook and drops the debounce entries of those  *)
(* that are gone.                                                          *)
Tick ==
    /\ Up /\ scan = {} /\ firing = Nobody
    /\ scan' = {[id |-> h, row |-> hook[h]] : h \in live}
    /\ tickAt' = now
    /\ fire' = [h \in HookIds |-> IF h \in live THEN fire[h] ELSE Never]
    /\ UNCHANGED <<now, process, table, runs, workers, firing, claimed,
                   lastFired>>

Later(s, t) == IF s > t THEN s ELSE t

ScheduleDue(schedule, last, t) ==
    \/ "every" \in DOMAIN schedule /\ last + schedule.every <= t
    \/ "cron" \in DOMAIN schedule /\ \E f \in schedule.cron : last < f /\ f <= t

(* The newest run's start or, if it has not started, the row's updated_at. *)
HookLastRun(s) ==
    LET newest == {r \in Runs(s.id) : \A q \in Runs(s.id) : q <= r} IN
    IF \E r \in newest : started[r] # Never
    THEN started[CHOOSE r \in newest : TRUE]
    ELSE s.row.updated

Due(s) == ScheduleDue(s.row.schedule, Later(fire[s.id], HookLastRun(s)), tickAt)

(* Mutant: the hook is triggered and not marked as fired.                  *)
ConsiderWithoutMark(s) ==
    /\ Up /\ firing = Nobody /\ s \in scan
    /\ scan' = scan \ {s}
    /\ IF s.row.enabled /\ s.row.status # "running" /\ Due(s)
       THEN firing' = s.id /\ lastFired' = [lastFired EXCEPT ![s.id] = tickAt]
       ELSE UNCHANGED <<firing, lastFired>>
    /\ UNCHANGED <<now, process, table, runs, workers, tickAt, fire, claimed>>

Consider(s) ==
    /\ Up /\ firing = Nobody /\ s \in scan
    /\ scan' = scan \ {s}
    /\ IF s.row.enabled /\ s.row.status # "running" /\ Due(s)
       THEN /\ firing' = s.id
            /\ fire' = [fire EXCEPT ![s.id] = tickAt]
            /\ lastFired' = [lastFired EXCEPT ![s.id] = tickAt]
       ELSE UNCHANGED <<firing, fire, lastFired>>
    /\ UNCHANGED <<now, process, table, runs, workers, tickAt, claimed>>

(* The insert is refused when the hook is gone by now; at the bound on     *)
(* runs it is dropped, as after an error of the store.                     *)
Fire ==
    /\ Up /\ firing # Nobody
    /\ IF firing \in live /\ nextRun \in RunIds THEN Insert(firing)
       ELSE UNCHANGED <<runs, workers>>
    /\ firing' = Nobody
    /\ UNCHANGED <<now, process, table, scan, tickAt, fire, claimed,
                   lastFired>>

-----------------------------------------------------------------------------
(* Runner.work, statement by statement.                                    *)

Step(r, from, to) == pc[r] = from /\ pc' = [pc EXCEPT ![r] = to]

UpdateRun(r, s) == run' = IF r \in expired \/ run[r] = "absent" THEN run
                          ELSE [run EXCEPT ![r] = s]

SetHookStatus(r, s) ==
    LET h == hookOf[r] IN
    IF r \in expired \/ h \notin live THEN UNCHANGED <<hook, claimed>>
    ELSE /\ hook' = [hook EXCEPT ![h].status = s, ![h].updated = now]
         /\ claimed' = claimed \ {h}

(* Mutant: the goroutine does not wait for the mutex.                      *)
AcquireWithoutWaiting(r) ==
    /\ Step(r, "lock", "mark_run")
    /\ lock' = [lock EXCEPT ![hookOf[r]] = r]
    /\ UNCHANGED <<now, process, table, runs, result, expired, loop, claimed>>

Acquire(r) ==
    /\ Step(r, "lock", "mark_run")
    /\ lock[hookOf[r]] = Nobody
    /\ lock' = [lock EXCEPT ![hookOf[r]] = r]
    /\ UNCHANGED <<now, process, table, runs, result, expired, loop, claimed>>

Expire(r) ==
    /\ pc[r] \in Holding \ {"release"} /\ r \notin expired
    /\ expired' = expired \cup {r}
    /\ UNCHANGED <<now, process, table, runs, pc, result, lock, loop, claimed>>

MarkRunRunning(r) ==
    /\ Step(r, "mark_run", "mark_hook")
    /\ UpdateRun(r, "running")
    /\ started' = IF run' = run THEN started ELSE [started EXCEPT ![r] = now]
    /\ UNCHANGED <<now, process, table, nextRun, hookOf, result, expired, lock, loop,
                   claimed>>

MarkHookRunning(r) ==
    /\ Step(r, "mark_hook", "script")
    /\ SetHookStatus(r, "running")
    /\ UNCHANGED <<now, process, created, live, runs, result, expired, lock, loop>>

(* Mutant: a failing script leaves no outcome.                             *)
ScriptWithoutOutcome(r) ==
    /\ Step(r, "script", "finish_run")
    /\ \/ UNCHANGED result
       \/ result' = [result EXCEPT ![r] = "success"]
    /\ UNCHANGED <<now, process, table, runs, expired, lock, loop, claimed>>

(* run: a hook that is gone, or a context that has ended, fails it.        *)
Script(r) ==
    /\ Step(r, "script", "finish_run")
    /\ result' \in {[result EXCEPT ![r] = s] :
                      s \in IF r \in expired \/ hookOf[r] \notin live THEN {"failed"}
                            ELSE Finished}
    /\ UNCHANGED <<now, process, table, runs, expired, lock, loop, claimed>>

FinishRun(r) ==
    /\ Step(r, "finish_run", "finish_hook")
    /\ UpdateRun(r, result[r])
    /\ UNCHANGED <<now, process, table, nextRun, hookOf, started, result, expired, lock,
                   loop, claimed>>

(* Mutant: a run that failed leaves the hook's row as it is.               *)
FinishHookUnlessFailed(r) ==
    /\ Step(r, "finish_hook", "release")
    /\ IF result[r] = "failed" THEN UNCHANGED <<hook, claimed>>
       ELSE SetHookStatus(r, result[r])
    /\ UNCHANGED <<now, process, created, live, runs, result, expired, lock, loop>>

FinishHook(r) ==
    /\ Step(r, "finish_hook", "release")
    /\ SetHookStatus(r, result[r])
    /\ UNCHANGED <<now, process, created, live, runs, result, expired, lock, loop>>

Release(r) ==
    /\ Step(r, "release", "done")
    /\ lock' = [lock EXCEPT ![hookOf[r]] = Nobody]
    /\ result' = [result EXCEPT ![r] = "none"]
    /\ UNCHANGED <<now, process, table, runs, expired, loop, claimed>>

-----------------------------------------------------------------------------
(* Death and restart.                                                      *)

Crash ==
    /\ restarts < MaxRestarts
    /\ restarts' = restarts + 1
    /\ boot' = "runs"
    /\ pc' = [r \in RunIds |-> "none"]
    /\ result' = [r \in RunIds |-> "none"]
    /\ expired' = {}
    /\ lock' = [h \in HookIds |-> Nobody]
    /\ scan' = {} /\ tickAt' = 0 /\ firing' = Nobody
    /\ fire' = [h \in HookIds |-> Never]
    /\ lastFired' = [h \in HookIds |-> Never]
    /\ UNCHANGED <<now, table, runs, claimed>>

(* Mutant: the statement has lost its WHERE.                               *)
ResetEveryRun ==
    /\ boot = "runs"
    /\ run' = [r \in RunIds |-> IF run[r] # "absent" THEN "failed" ELSE run[r]]
    /\ boot' = "hooks"
    /\ UNCHANGED <<now, restarts, table, nextRun, hookOf, started, workers, loop,
                   claimed>>

ResetRuns ==
    /\ boot = "runs"
    /\ run' = [r \in RunIds |-> IF run[r] \in {"queued", "running"} THEN "failed"
                                ELSE run[r]]
    /\ boot' = "hooks"
    /\ UNCHANGED <<now, restarts, table, nextRun, hookOf, started, workers, loop,
                   claimed>>

(* Mutant: the rows of the hooks are left as they were.                    *)
ResetNoHooks ==
    /\ boot = "hooks"
    /\ boot' = "up"
    /\ UNCHANGED <<now, restarts, table, runs, workers, loop, claimed>>

ResetHooks ==
    /\ boot = "hooks"
    /\ hook' = [h \in HookIds |-> IF h \in live /\ hook[h].status = "running"
                                  THEN [hook[h] EXCEPT !.status = "idle"] ELSE hook[h]]
    /\ claimed' = {h \in claimed : hook[h].status # "running"}
    /\ boot' = "up"
    /\ UNCHANGED <<now, restarts, created, live, runs, workers, loop>>

-----------------------------------------------------------------------------
Work(r) == \/ Acquire(r) \/ MarkRunRunning(r) \/ MarkHookRunning(r) \/ Script(r)
           \/ FinishRun(r) \/ FinishHook(r) \/ Release(r)

Schedule == Tick \/ Fire \/ \E s \in scan : Consider(s)

Start == ResetRuns \/ ResetHooks

Next == \/ Advance
        \/ \E h \in HookIds :
            \/ \E b \in BOOLEAN, s \in Schedules, st \in HookStatuses :
                    CreateHook(h, b, s, st) \/ UpdateHook(h, b, s, st)
            \/ DeleteHook(h) \/ RunHook(h)
        \/ Schedule
        \/ \E r \in RunIds : Work(r) \/ Expire(r)
        \/ Crash \/ Start

Spec == Init /\ [][Next]_vars

Statement(r) == pc[r] # "script" /\ Work(r)

(* Goroutines run, a mutex waiter is not overtaken forever, the ticker     *)
(* ticks, the process that is started boots.  Nothing makes a client, a    *)
(* deadline or a crash occur, nor the script's Stream return: the deadline *)
(* ends the script, but not what it may leave behind (see CommandLog).     *)
Fairness == /\ \A r \in RunIds : WF_vars(Statement(r)) /\ SF_vars(Acquire(r))
            /\ WF_vars(Schedule) /\ WF_vars(Start)

FairSpec == Spec /\ Fairness

-----------------------------------------------------------------------------
(* Properties.                                                             *)

Showing == {"script", "finish_run", "finish_hook"}

(* The scheduler leaves a hook alone because its row reads running: while  *)
(* a script runs it does, unless the row is gone, a client has written the *)
(* status, or the deadline kept it from being set.                         *)
ScriptShowsRunning ==
    \A r \in RunIds : pc[r] \in Showing =>
        \/ hookOf[r] \notin live
        \/ hook[hookOf[r]].status = "running"
        \/ hookOf[r] \in claimed
        \/ r \in expired

(* A hook whose row reads running is never scheduled.  It is stuck there   *)
(* only by a run that outlived its context, or by a client that wrote it.  *)
NoStuckHook ==
    Up => \A h \in live \ claimed :
            hook[h].status = "running" =>
                \E r \in RunIds : hookOf[r] = h /\ (pc[r] \in Showing \/ r \in expired)

(* Scheduler.due, markFired, pruneFire: between two firings of a hook by   *)
(* one process its schedule comes due anew, however slowly the runs start, *)
(* and whatever was deleted, edited or run by hand in between.             *)
SpacedFirings ==
    [][\A s \in scan : s \notin scan' /\ firing' = s.id /\ lastFired[s.id] # Never =>
            ScheduleDue(s.row.schedule, lastFired[s.id], tickAt)]_vars

(* The rows of hook_runs are a job table: see JobLifecycle.                *)
JobState == [r \in RunIds |-> IF run[r] # "absent" THEN run[r]
                              ELSE IF r < nextRun THEN "gone" ELSE "unborn"]

Jobs == INSTANCE JobLifecycle WITH Jobs <- RunIds, job <- JobState

RunsAreJobs == Jobs!Spec

(* A hook that is enabled, due by the clock and not running.               *)
Waiting(h) ==
    /\ h \in live
    /\ hook[h].enabled
    /\ ScheduleDue(hook[h].schedule,
                   Later(fire[h], HookLastRun([id |-> h, row |-> hook[h]])), now)

(* The loop serves a hook that is due, unless its row is stuck: a run      *)
(* outlived its context, a client wrote running there, or the output of a  *)
(* script never comes to its end.                                          *)
DueHooksAreServed ==
    \A h \in HookIds :
        \/ \E r \in RunIds : <>[](hookOf[r] = h /\ pc[r] = "script")
        \/ Waiting(h) ~> \/ ~Waiting(h)
                         \/ h \in claimed /\ hook[h].status = "running"
                         \/ \E r \in RunIds : hookOf[r] = h /\ r \in expired
=============================================================================
