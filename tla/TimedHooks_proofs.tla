------------------------- MODULE TimedHooks_proofs -------------------------
(***************************************************************************)
(* Proofs about TimedHooks, for every set of hooks, schedules and clients  *)
(* and every bound on runs, time and restarts.                             *)
(***************************************************************************)
EXTENDS TimedHooks, TLAPS

-----------------------------------------------------------------------------
(* The inductive invariant, part by part.                                  *)

(* A run that has not been triggered has left no trace.                    *)
FreshRuns ==
    \A r \in RunIds : r >= nextRun =>
        run[r] = "absent" /\ pc[r] = "none" /\ r \notin expired

(* What refers to a hook refers to one that was created.                   *)
HooksWereCreated ==
    /\ \A r \in RunIds : r < nextRun => hookOf[r] \in created
    /\ \A s \in scan : s.id \in created
    /\ firing # Nobody => firing \in created

(* Inside the critical section the mutex names its holder.                 *)
LockNamesHolder ==
    \A r \in RunIds : pc[r] \in Holding => lock[hookOf[r]] = r

(* While the process boots no goroutine of it exists.                      *)
BootIsQuiet == ~Up => \A r \in RunIds : pc[r] = "none"

(* What the row of a run says follows from where its goroutine is, and     *)
(* past the script the goroutine has an outcome to record.                 *)
RunFollowsWorker ==
    \A r \in RunIds :
        /\ pc[r] \in {"lock", "mark_run"} => run[r] \in {"queued", "absent"}
        /\ pc[r] \in {"mark_hook", "script", "finish_run"} =>
                \/ run[r] \in {"running", "absent"}
                \/ run[r] = "queued" /\ r \in expired
        /\ pc[r] \in {"finish_run", "finish_hook"} => result[r] \in Finished

(* Of a hook that may come up in the loop the scheduler remembers the last *)
(* firing; one that was never created was never fired.                     *)
FiringsRemembered ==
    /\ \A h \in HookIds \ created : lastFired[h] = Never
    /\ \A h \in live : lastFired[h] \in {Never, fire[h]}
    /\ \A s \in scan : lastFired[s.id] \in {Never, fire[s.id]}

Books == FreshRuns /\ HooksWereCreated /\ LockNamesHolder /\ BootIsQuiet
            /\ RunFollowsWorker /\ FiringsRemembered

IInv == TypeOK /\ Books /\ ScriptShowsRunning /\ NoStuckHook

-----------------------------------------------------------------------------
(* Rows of hooks and runs keep their types.                                *)
LEMMA NoHookTyped == NoHook \in Hooks
BY TimedHooksAssumption DEF NoHook, Hooks, HookStatuses

LEMMA InsertTyped ==
  ASSUME TypeOK, NEW h \in HookIds, Insert(h)
  PROVE  /\ nextRun' \in 1 .. (MaxRuns + 1)
         /\ run' \in [RunIds -> {"absent", "queued", "running"} \cup Finished]
         /\ hookOf' \in [RunIds -> HookIds]
         /\ pc' \in [RunIds -> {"none", "lock", "done"} \cup Holding]
         /\ UNCHANGED <<started, result, expired, lock>>
BY TimedHooksAssumption DEF TypeOK, Insert, RunIds

LEMMA StatusTyped ==
  ASSUME TypeOK, NEW r \in RunIds, NEW s \in HookStatuses, SetHookStatus(r, s)
  PROVE  hook' \in [HookIds -> Hooks] /\ claimed' \subseteq HookIds
<1>1. hookOf[r] \in HookIds /\ now \in 1 .. MaxTime
  BY DEF TypeOK
<1>2. [hook[hookOf[r]] EXCEPT !.status = s, !.updated = now] \in Hooks
  BY <1>1 DEF TypeOK, Hooks
<1> QED
  BY <1>1, <1>2 DEF TypeOK, SetHookStatus

(* SetHookStatus on the row of a hook, and on all others.                  *)
LEMMA SetStatusShows ==
  ASSUME TypeOK, NEW r \in RunIds, NEW s, SetHookStatus(r, s),
         hookOf[r] \in live, r \notin expired
  PROVE  hook'[hookOf[r]].status = s
<1>1. hookOf[r] \in HookIds /\ hook[hookOf[r]] \in Hooks
  BY DEF TypeOK
<1> QED
  BY <1>1 DEF TypeOK, SetHookStatus, Hooks

LEMMA SetStatusElsewhere ==
  ASSUME TypeOK, NEW r \in RunIds, NEW s, SetHookStatus(r, s),
         NEW h \in HookIds, h # hookOf[r] \/ r \in expired
  PROVE  hook'[h] = hook[h] /\ (h \in claimed' <=> h \in claimed)
BY DEF TypeOK, SetHookStatus

(* TriggerHook: the new run is the only one that changes, and it is at its *)
(* beginning.                                                              *)
LEMMA InsertedRun ==
  ASSUME TypeOK, Books, NEW h \in HookIds, Insert(h)
  PROVE  /\ nextRun \in RunIds /\ nextRun' = nextRun + 1
         /\ run'[nextRun] = "queued" /\ hookOf'[nextRun] = h /\ pc'[nextRun] = "lock"
         /\ pc[nextRun] = "none" /\ nextRun \notin expired
         /\ \A r \in RunIds \ {nextRun} :
                run'[r] = run[r] /\ hookOf'[r] = hookOf[r] /\ pc'[r] = pc[r]
         /\ UNCHANGED <<started, result, expired, lock>>
BY DEF TypeOK, Books, FreshRuns, Insert

LEMMA InsertKeepsBooks ==
  ASSUME TypeOK, Books, Up, NEW h \in HookIds \cap created, Insert(h),
         created' = created, boot' = boot
  PROVE  /\ FreshRuns' /\ LockNamesHolder' /\ BootIsQuiet' /\ RunFollowsWorker'
         /\ \A r \in RunIds : r < nextRun' => hookOf'[r] \in created'
<1>1. \A r \in RunIds : r \in Nat
  BY DEF RunIds
<1> QED
  BY <1>1, InsertedRun DEF Books, FreshRuns, LockNamesHolder, BootIsQuiet,
      RunFollowsWorker, HooksWereCreated, Holding, Up

LEMMA InsertShowsNothing ==
  ASSUME IInv, Up, NEW h \in HookIds, Insert(h), UNCHANGED <<live, hook, boot, claimed>>
  PROVE  ScriptShowsRunning' /\ NoStuckHook'
<1>1. ScriptShowsRunning'
  BY InsertedRun DEF IInv, ScriptShowsRunning, Showing
<1>2. NoStuckHook'
  <2>1. \A r \in RunIds : pc[r] \in Showing \/ r \in expired => r # nextRun
    BY InsertedRun DEF IInv, Showing
  <2> QED
    BY <2>1, InsertedRun DEF IInv, NoStuckHook
<1> QED
  BY <1>1, <1>2


-----------------------------------------------------------------------------
LEMMA AdvanceStep ==
  ASSUME IInv, Advance
  PROVE  IInv'
<1>1. TypeOK'
  BY TimedHooksAssumption DEF IInv, TypeOK, Nobody, Holding, Advance, process,
      table, runs, workers, loop
<1>2. Books'
  <2>1. FreshRuns'
    BY DEF IInv, Books, FreshRuns, Advance, runs, workers
  <2>2. HooksWereCreated'
    BY DEF IInv, Books, HooksWereCreated, Advance, table, runs, loop
  <2>3. LockNamesHolder'
    BY DEF IInv, Books, LockNamesHolder, Advance, runs, workers
  <2>4. BootIsQuiet'
    BY DEF IInv, Books, BootIsQuiet, Advance, Up, process, workers
  <2>5. RunFollowsWorker'
    BY DEF IInv, Books, RunFollowsWorker, Advance, runs, workers
  <2>6. FiringsRemembered'
    BY DEF IInv, Books, FiringsRemembered, Advance, table, loop
  <2> QED
    BY <2>1, <2>2, <2>3, <2>4, <2>5, <2>6 DEF Books
<1>3. ScriptShowsRunning'
  BY DEF IInv, ScriptShowsRunning, Advance, table, runs, workers
<1>4. NoStuckHook'
  BY DEF IInv, NoStuckHook, Advance, Up, process, table, runs, workers, loop
<1> QED
  BY <1>1, <1>2, <1>3, <1>4 DEF IInv

LEMMA CreateHookStep ==
  ASSUME NEW h \in HookIds, NEW b \in BOOLEAN, NEW s \in Schedules,
         NEW st \in HookStatuses, IInv, CreateHook(h, b, s, st)
  PROVE  IInv'
<1>1. TypeOK'
  <2>1. [enabled |-> b, schedule |-> s, status |-> st, updated |-> now] \in Hooks
    BY DEF IInv, TypeOK, Hooks
  <2>2. hook' \in [HookIds -> Hooks] /\ claimed' \subseteq HookIds
    BY <2>1 DEF IInv, TypeOK, CreateHook
  <2> QED
    BY <2>2 DEF IInv, TypeOK, CreateHook, process, runs, workers, loop
<1>2. Books'
  <2>1. FreshRuns'
    BY DEF IInv, Books, FreshRuns, CreateHook, runs, workers
  <2>2. HooksWereCreated'
    BY DEF IInv, Books, HooksWereCreated, CreateHook, runs, loop
  <2>3. LockNamesHolder'
    BY DEF IInv, Books, LockNamesHolder, CreateHook, runs, workers
  <2>4. BootIsQuiet'
    BY DEF BootIsQuiet, CreateHook, Up, process
  <2>5. RunFollowsWorker'
    BY DEF IInv, Books, RunFollowsWorker, CreateHook, runs, workers
  <2>6. FiringsRemembered'
    BY DEF IInv, Books, FiringsRemembered, CreateHook, loop
  <2> QED
    BY <2>1, <2>2, <2>3, <2>4, <2>5, <2>6 DEF Books
<1>3. ScriptShowsRunning'
  BY DEF IInv, TypeOK, RunIds, Books, ScriptShowsRunning, Showing, FreshRuns,
      HooksWereCreated, CreateHook, runs, workers
<1>4. NoStuckHook'
  BY DEF IInv, TypeOK, NoStuckHook, CreateHook, runs, workers
<1> QED
  BY <1>1, <1>2, <1>3, <1>4 DEF IInv

LEMMA DeleteHookStep ==
  ASSUME NEW h \in HookIds, IInv, DeleteHook(h)
  PROVE  IInv'
<1>1. TypeOK'
  <2>1. hook' \in [HookIds -> Hooks]
    BY NoHookTyped DEF IInv, TypeOK, DeleteHook
  <2>2. /\ run' \in [RunIds -> {"absent", "queued", "running"} \cup Finished]
        /\ started' \in [RunIds -> 0 .. MaxTime]
    BY TimedHooksAssumption DEF IInv, TypeOK, DeleteHook, Never
  <2> QED
    BY <2>1, <2>2 DEF IInv, TypeOK, DeleteHook, process, workers, loop
<1>2. Books'
  <2>1. FreshRuns'
    BY DEF IInv, Books, FreshRuns, DeleteHook, workers
  <2>2. HooksWereCreated'
    BY DEF IInv, Books, HooksWereCreated, DeleteHook, loop
  <2>3. LockNamesHolder'
    BY DEF IInv, Books, LockNamesHolder, DeleteHook, workers
  <2>4. BootIsQuiet'
    BY DEF BootIsQuiet, DeleteHook, Up, process
  <2>5. RunFollowsWorker'
    BY DEF IInv, Books, RunFollowsWorker, DeleteHook, workers
  <2>6. FiringsRemembered'
    BY DEF IInv, Books, FiringsRemembered, DeleteHook, loop
  <2> QED
    BY <2>1, <2>2, <2>3, <2>4, <2>5, <2>6 DEF Books
<1>3. ScriptShowsRunning'
  BY DEF IInv, ScriptShowsRunning, DeleteHook, workers
<1>4. NoStuckHook'
  BY DEF IInv, NoStuckHook, DeleteHook, workers, loop
<1> QED
  BY <1>1, <1>2, <1>3, <1>4 DEF IInv

LEMMA UpdateHookStep ==
  ASSUME NEW h \in HookIds, NEW b \in BOOLEAN, NEW s \in Schedules,
         NEW st \in HookStatuses, IInv, UpdateHook(h, b, s, st)
  PROVE  IInv'
<1>1. TypeOK'
  <2>1. [enabled |-> b, schedule |-> s, status |-> st, updated |-> now] \in Hooks
    BY DEF IInv, TypeOK, Hooks
  <2>2. hook' \in [HookIds -> Hooks] /\ claimed' \subseteq HookIds
    BY <2>1 DEF IInv, TypeOK, UpdateHook
  <2> QED
    BY <2>2 DEF IInv, TypeOK, UpdateHook, process, runs, workers, loop
<1>2. Books'
  <2>1. FreshRuns'
    BY DEF IInv, Books, FreshRuns, UpdateHook, runs, workers
  <2>2. HooksWereCreated'
    BY DEF IInv, Books, HooksWereCreated, UpdateHook, runs, loop
  <2>3. LockNamesHolder'
    BY DEF IInv, Books, LockNamesHolder, UpdateHook, runs, workers
  <2>4. BootIsQuiet'
    BY DEF BootIsQuiet, UpdateHook, Up, process
  <2>5. RunFollowsWorker'
    BY DEF IInv, Books, RunFollowsWorker, UpdateHook, runs, workers
  <2>6. FiringsRemembered'
    BY DEF IInv, Books, FiringsRemembered, UpdateHook, loop
  <2> QED
    BY <2>1, <2>2, <2>3, <2>4, <2>5, <2>6 DEF Books
<1> DEFINE word == [enabled |-> b, schedule |-> s, status |-> st, updated |-> now]
<1>3. /\ hook' = [hook EXCEPT ![h] = word] /\ word.status = st
      /\ hook \in [HookIds -> Hooks]
  BY DEF UpdateHook, IInv, TypeOK
<1>4. /\ claimed \subseteq claimed'
      /\ \A g \in HookIds : g \in claimed' \/ hook'[g].status = hook[g].status
  BY <1>3 DEF UpdateHook
<1>5. ScriptShowsRunning'
  BY <1>4 DEF IInv, TypeOK, UpdateHook, ScriptShowsRunning, runs, workers
<1>6. NoStuckHook'
  BY <1>4 DEF IInv, TypeOK, NoStuckHook, UpdateHook, runs, workers
<1> QED
  BY <1>1, <1>2, <1>5, <1>6 DEF IInv

LEMMA RunHookStep ==
  ASSUME NEW h \in HookIds, IInv, RunHook(h)
  PROVE  IInv'
<1>1. TypeOK'
  BY InsertTyped DEF IInv, TypeOK, RunHook, process, table, loop
<1>2. Books'
  <2>1. h \in created /\ created' = created /\ boot' = boot
    BY DEF IInv, TypeOK, RunHook, process, table
  <2>2. /\ FreshRuns' /\ LockNamesHolder' /\ BootIsQuiet' /\ RunFollowsWorker'
        /\ \A r \in RunIds : r < nextRun' => hookOf'[r] \in created'
    BY <2>1, InsertKeepsBooks DEF IInv, RunHook
  <2>3. HooksWereCreated' /\ FiringsRemembered'
    BY <2>1, <2>2 DEF IInv, RunHook, table, loop, Books, HooksWereCreated,
        FiringsRemembered
  <2> QED
    BY <2>2, <2>3 DEF Books
<1>3. ScriptShowsRunning' /\ NoStuckHook'
  BY InsertShowsNothing DEF RunHook, table, process
<1> QED
  BY <1>1, <1>2, <1>3 DEF IInv

LEMMA TickStep ==
  ASSUME IInv, Tick
  PROVE  IInv'
<1>1. TypeOK'
  BY TimedHooksAssumption DEF IInv, TypeOK, Never, Tick, process, table, runs,
      workers
<1>2. Books'
  <2>1. FreshRuns'
    BY DEF IInv, Books, FreshRuns, Tick, runs, workers
  <2>2. HooksWereCreated'
    BY TimedHooksAssumption DEF IInv, TypeOK, Books, HooksWereCreated, Nobody,
        Tick, table, runs
  <2>3. LockNamesHolder'
    BY DEF IInv, Books, LockNamesHolder, Tick, runs, workers
  <2>4. BootIsQuiet'
    BY DEF BootIsQuiet, Tick, Up, process
  <2>5. RunFollowsWorker'
    BY DEF IInv, Books, RunFollowsWorker, Tick, runs, workers
  <2>6. FiringsRemembered'
    BY DEF IInv, TypeOK, Books, FiringsRemembered, Tick, table
  <2> QED
    BY <2>1, <2>2, <2>3, <2>4, <2>5, <2>6 DEF Books
<1>3. ScriptShowsRunning'
  BY DEF IInv, ScriptShowsRunning, Tick, table, runs, workers
<1>4. NoStuckHook'
  BY DEF IInv, NoStuckHook, Tick, table, runs, workers
<1> QED
  BY <1>1, <1>2, <1>3, <1>4 DEF IInv

LEMMA ConsiderStep ==
  ASSUME NEW s \in scan, IInv, Consider(s)
  PROVE  IInv'
<1>1. TypeOK'
  <2>1. s.id \in HookIds /\ tickAt \in 0 .. MaxTime
    BY TimedHooksAssumption DEF IInv, TypeOK
  <2>2. /\ firing' \in HookIds \cup {Nobody}
        /\ fire' \in [HookIds -> 0 .. MaxTime]
        /\ lastFired' \in [HookIds -> 0 .. MaxTime]
    BY <2>1 DEF IInv, TypeOK, Consider
  <2>3. scan' \subseteq [id : HookIds, row : Hooks]
    BY DEF IInv, TypeOK, Consider
  <2> QED
    BY <2>2, <2>3 DEF IInv, TypeOK, Consider, process, table, runs, workers
<1>2. Books'
  <2>1. FreshRuns'
    BY DEF IInv, Books, FreshRuns, Consider, runs, workers
  <2>2. HooksWereCreated'
    BY DEF IInv, Books, HooksWereCreated, Consider, table, runs
  <2>3. LockNamesHolder'
    BY DEF IInv, Books, LockNamesHolder, Consider, runs, workers
  <2>4. BootIsQuiet'
    BY DEF BootIsQuiet, Consider, Up, process
  <2>5. RunFollowsWorker'
    BY DEF IInv, Books, RunFollowsWorker, Consider, runs, workers
  <2>6. FiringsRemembered'
    <3>1. s.id \in HookIds /\ s.id \in created
      BY DEF IInv, TypeOK, Books, HooksWereCreated
    <3>2. \/ UNCHANGED <<fire, lastFired>>
          \/ /\ fire' = [fire EXCEPT ![s.id] = tickAt]
             /\ lastFired' = [lastFired EXCEPT ![s.id] = tickAt]
      BY DEF Consider
    <3>3. \A h \in HookIds :
              \/ fire'[h] = fire[h] /\ lastFired'[h] = lastFired[h]
              \/ h = s.id /\ lastFired'[h] = fire'[h]
      BY <3>1, <3>2 DEF IInv, TypeOK
    <3>4. scan' \subseteq scan /\ \A t \in scan : t.id \in HookIds
      BY DEF IInv, TypeOK, Consider
    <3> QED
      BY <3>1, <3>3, <3>4 DEF IInv, TypeOK, Books, FiringsRemembered, Consider,
          table
  <2> QED
    BY <2>1, <2>2, <2>3, <2>4, <2>5, <2>6 DEF Books
<1>3. ScriptShowsRunning'
  BY DEF IInv, ScriptShowsRunning, Consider, table, runs, workers
<1>4. NoStuckHook'
  BY DEF IInv, NoStuckHook, Consider, table, runs, workers
<1> QED
  BY <1>1, <1>2, <1>3, <1>4 DEF IInv

LEMMA FireStep ==
  ASSUME IInv, Fire
  PROVE  IInv'
<1>1. CASE firing \in live /\ nextRun \in RunIds
  <2>1. /\ firing \in HookIds /\ firing \in created /\ Insert(firing) /\ Up
        /\ created' = created /\ boot' = boot /\ firing' = Nobody
    BY <1>1 DEF IInv, TypeOK, Fire, table, process
  <2>2. TypeOK'
    BY <2>1, InsertTyped DEF IInv, TypeOK, Fire, process, table
  <2>3. Books'
    <3>1. /\ FreshRuns' /\ LockNamesHolder' /\ BootIsQuiet' /\ RunFollowsWorker'
          /\ \A r \in RunIds : r < nextRun' => hookOf'[r] \in created'
      BY <2>1, InsertKeepsBooks DEF IInv
    <3>2. HooksWereCreated' /\ FiringsRemembered'
      BY <2>1, <3>1 DEF IInv, Fire, table, Books, HooksWereCreated,
          FiringsRemembered
    <3> QED
      BY <3>1, <3>2 DEF Books
  <2>4. ScriptShowsRunning' /\ NoStuckHook'
    BY <2>1, InsertShowsNothing DEF Fire, table
  <2> QED
    BY <2>2, <2>3, <2>4 DEF IInv
<1>2. CASE ~(firing \in live /\ nextRun \in RunIds)
  <2>1. UNCHANGED <<runs, workers>> /\ firing' = Nobody
    BY <1>2 DEF Fire
  <2>2. TypeOK'
    BY <2>1 DEF IInv, TypeOK, Fire, process, table, runs, workers
  <2>3. Books'
    BY <2>1 DEF IInv, Fire, process, table, runs, workers, Books, FreshRuns,
        HooksWereCreated, LockNamesHolder, BootIsQuiet, RunFollowsWorker,
        FiringsRemembered, Up
  <2>4. ScriptShowsRunning' /\ NoStuckHook'
    BY <2>1 DEF IInv, Fire, table, runs, workers, ScriptShowsRunning, NoStuckHook
  <2> QED
    BY <2>2, <2>3, <2>4 DEF IInv
<1> QED
  BY <1>1, <1>2

LEMMA AcquireStep ==
  ASSUME NEW r \in RunIds, IInv, Acquire(r)
  PROVE  IInv'
<1>1. TypeOK'
  BY DEF IInv, TypeOK, Holding, Acquire, Step, process, table, runs, loop
<1>2. Books'
  <2>1. FreshRuns'
    BY DEF IInv, Books, FreshRuns, Acquire, Step, runs
  <2>2. HooksWereCreated'
    BY DEF IInv, Books, HooksWereCreated, Acquire, table, runs, loop
  <2>3. LockNamesHolder'
    BY TimedHooksAssumption DEF IInv, TypeOK, RunIds, Books, LockNamesHolder,
        Nobody, Acquire, Step, runs, loop
  <2>4. BootIsQuiet'
    BY DEF IInv, Books, BootIsQuiet, Acquire, Step, Up, process
  <2>5. RunFollowsWorker'
    BY DEF IInv, Books, RunFollowsWorker, Acquire, Step, runs
  <2>6. FiringsRemembered'
    BY DEF IInv, Books, FiringsRemembered, Acquire, table, loop
  <2> QED
    BY <2>1, <2>2, <2>3, <2>4, <2>5, <2>6 DEF Books
<1>3. ScriptShowsRunning'
  BY DEF IInv, ScriptShowsRunning, Showing, Acquire, Step, table, runs
<1>4. NoStuckHook'
  BY DEF IInv, Books, NoStuckHook, Showing, FreshRuns, HooksWereCreated,
      LockNamesHolder, BootIsQuiet, RunFollowsWorker, Holding, Finished, Acquire,
      Step, table, runs, loop
<1> QED
  BY <1>1, <1>2, <1>3, <1>4 DEF IInv

LEMMA ExpireStep ==
  ASSUME NEW r \in RunIds, IInv, Expire(r)
  PROVE  IInv'
<1>1. TypeOK'
  BY DEF IInv, TypeOK, Expire, process, table, runs, loop
<1>2. Books'
  <2>1. FreshRuns'
    BY DEF IInv, Books, FreshRuns, Expire, runs, Holding
  <2>2. HooksWereCreated'
    BY DEF IInv, Books, HooksWereCreated, Expire, table, runs, loop
  <2>3. LockNamesHolder'
    BY DEF IInv, Books, LockNamesHolder, Expire, runs
  <2>4. BootIsQuiet'
    BY DEF IInv, Books, BootIsQuiet, Expire, Up, process
  <2>5. RunFollowsWorker'
    BY DEF IInv, Books, RunFollowsWorker, Expire, runs
  <2>6. FiringsRemembered'
    BY DEF IInv, Books, FiringsRemembered, Expire, table, loop
  <2> QED
    BY <2>1, <2>2, <2>3, <2>4, <2>5, <2>6 DEF Books
<1>3. ScriptShowsRunning'
  BY DEF IInv, ScriptShowsRunning, Expire, table, runs
<1>4. NoStuckHook'
  BY DEF IInv, Books, NoStuckHook, BootIsQuiet, Holding, Expire, table, runs, loop
<1> QED
  BY <1>1, <1>2, <1>3, <1>4 DEF IInv

LEMMA MarkRunRunningStep ==
  ASSUME NEW r \in RunIds, IInv, MarkRunRunning(r)
  PROVE  IInv'
<1>1. TypeOK'
  <2>1. "running" \in {"running"} \cup Finished
    OBVIOUS
  <2>2. run' \in [RunIds -> {"absent", "queued", "running"} \cup Finished]
    BY <2>1 DEF IInv, TypeOK, MarkRunRunning, UpdateRun
  <2>3. pc' \in [RunIds -> {"none", "lock", "done"} \cup Holding]
    BY DEF IInv, TypeOK, MarkRunRunning, Step, Holding
  <2>4. started' \in [RunIds -> 0 .. MaxTime]
    BY DEF IInv, TypeOK, MarkRunRunning
  <2> QED
    BY <2>2, <2>3, <2>4 DEF IInv, TypeOK, MarkRunRunning, process, table, loop
<1>2. Books'
  <2>1. FreshRuns'
    BY DEF IInv, Books, FreshRuns, MarkRunRunning, Step, UpdateRun
  <2>2. HooksWereCreated'
    BY DEF IInv, Books, HooksWereCreated, MarkRunRunning, table, loop
  <2>3. LockNamesHolder'
    BY DEF IInv, TypeOK, Books, LockNamesHolder, MarkRunRunning, Step
  <2>4. BootIsQuiet'
    BY DEF IInv, Books, BootIsQuiet, MarkRunRunning, Step, Up, process
  <2>5. RunFollowsWorker'
    BY DEF IInv, TypeOK, Books, RunFollowsWorker, MarkRunRunning, Step, UpdateRun
  <2>6. FiringsRemembered'
    BY DEF IInv, Books, FiringsRemembered, MarkRunRunning, table, loop
  <2> QED
    BY <2>1, <2>2, <2>3, <2>4, <2>5, <2>6 DEF Books
<1>3. ScriptShowsRunning'
  BY DEF IInv, ScriptShowsRunning, Showing, MarkRunRunning, Step, table
<1>4. NoStuckHook'
  BY DEF IInv, Books, NoStuckHook, Showing, LockNamesHolder, BootIsQuiet,
      RunFollowsWorker, Finished, MarkRunRunning, Step, UpdateRun, table, loop
<1> QED
  BY <1>1, <1>2, <1>3, <1>4 DEF IInv

LEMMA MarkHookRunningStep ==
  ASSUME NEW r \in RunIds, IInv, MarkHookRunning(r)
  PROVE  IInv'
<1>1. TypeOK'
  <2>1. "running" \in HookStatuses
    BY DEF HookStatuses
  <2>2. hook' \in [HookIds -> Hooks] /\ claimed' \subseteq HookIds
    BY <2>1, StatusTyped DEF IInv, MarkHookRunning
  <2>3. pc' \in [RunIds -> {"none", "lock", "done"} \cup Holding]
    BY DEF IInv, TypeOK, MarkHookRunning, Step, Holding
  <2> QED
    BY <2>2, <2>3 DEF IInv, TypeOK, MarkHookRunning, process, runs, loop
<1>2. Books'
  <2>1. FreshRuns'
    BY DEF IInv, Books, FreshRuns, MarkHookRunning, Step, runs
  <2>2. HooksWereCreated'
    BY DEF IInv, Books, HooksWereCreated, MarkHookRunning, runs, loop
  <2>3. LockNamesHolder'
    BY DEF IInv, TypeOK, Books, LockNamesHolder, MarkHookRunning, Step, runs
  <2>4. BootIsQuiet'
    BY DEF IInv, Books, BootIsQuiet, MarkHookRunning, Step, Up, process
  <2>5. RunFollowsWorker'
    BY DEF IInv, Books, RunFollowsWorker, MarkHookRunning, Step, runs
  <2>6. FiringsRemembered'
    BY DEF IInv, Books, FiringsRemembered, MarkHookRunning, loop
  <2> QED
    BY <2>1, <2>2, <2>3, <2>4, <2>5, <2>6 DEF Books
<1>3. ScriptShowsRunning'
  <2> SUFFICES ASSUME NEW q \in RunIds, pc'[q] \in Showing, hookOf[q] \in live,
                      q \notin expired
               PROVE  hook'[hookOf[q]].status = "running" \/ hookOf[q] \in claimed'
    BY DEF ScriptShowsRunning, MarkHookRunning, runs
  <2>1. hookOf[q] \in HookIds /\ hookOf[r] \in HookIds
    BY DEF IInv, TypeOK
  <2>2. CASE hookOf[q] = hookOf[r] /\ r \notin expired
    BY <2>1, <2>2, SetStatusShows DEF IInv, MarkHookRunning
  <2>3. CASE q # r /\ (hookOf[q] # hookOf[r] \/ r \in expired)
    <3>1. pc[q] \in Showing
      BY <2>3 DEF MarkHookRunning, Step
    <3>2. hook[hookOf[q]].status = "running" \/ hookOf[q] \in claimed
      BY <3>1 DEF IInv, ScriptShowsRunning
    <3>3. /\ hook'[hookOf[q]] = hook[hookOf[q]]
          /\ hookOf[q] \in claimed => hookOf[q] \in claimed'
      BY <2>1, <2>3, SetStatusElsewhere DEF IInv, MarkHookRunning
    <3> QED
      BY <3>2, <3>3
  <2> QED
    BY <2>2, <2>3
<1>4. NoStuckHook'
  BY DEF IInv, TypeOK, Books, NoStuckHook, Showing, FreshRuns, HooksWereCreated,
      LockNamesHolder, RunFollowsWorker, Holding, Finished, MarkHookRunning, Step,
      SetHookStatus, Up, process, runs, loop
<1> QED
  BY <1>1, <1>2, <1>3, <1>4 DEF IInv

LEMMA ScriptStep ==
  ASSUME NEW r \in RunIds, IInv, Script(r)
  PROVE  IInv'
<1>1. TypeOK'
  BY DEF IInv, TypeOK, Holding, Finished, Script, Step, process, table, runs, loop
<1>2. Books'
  <2>1. FreshRuns'
    BY DEF IInv, Books, FreshRuns, Script, Step, runs
  <2>2. HooksWereCreated'
    BY DEF IInv, Books, HooksWereCreated, Script, table, runs, loop
  <2>3. LockNamesHolder'
    BY DEF IInv, TypeOK, Books, LockNamesHolder, Script, Step, runs
  <2>4. BootIsQuiet'
    BY DEF IInv, Books, BootIsQuiet, Script, Step, Up, process
  <2>5. RunFollowsWorker'
    BY DEF IInv, TypeOK, Books, RunFollowsWorker, Finished, Script, Step, runs
  <2>6. FiringsRemembered'
    BY DEF IInv, Books, FiringsRemembered, Script, table, loop
  <2> QED
    BY <2>1, <2>2, <2>3, <2>4, <2>5, <2>6 DEF Books
<1>3. ScriptShowsRunning'
  BY DEF IInv, ScriptShowsRunning, Showing, Script, Step, table, runs
<1>4. NoStuckHook'
  BY DEF IInv, Books, NoStuckHook, Showing, BootIsQuiet, Script, Step, table,
      runs, loop
<1> QED
  BY <1>1, <1>2, <1>3, <1>4 DEF IInv

LEMMA FinishRunStep ==
  ASSUME NEW r \in RunIds, IInv, FinishRun(r)
  PROVE  IInv'
<1>1. TypeOK'
  <2>1. result[r] \in {"running"} \cup Finished
    BY DEF IInv, Books, RunFollowsWorker, FinishRun, Step
  <2>2. run' \in [RunIds -> {"absent", "queued", "running"} \cup Finished]
    BY <2>1 DEF IInv, TypeOK, FinishRun, UpdateRun
  <2>3. pc' \in [RunIds -> {"none", "lock", "done"} \cup Holding]
    BY DEF IInv, TypeOK, FinishRun, Step, Holding
  <2>4. started' \in [RunIds -> 0 .. MaxTime]
    BY DEF IInv, TypeOK, FinishRun
  <2> QED
    BY <2>2, <2>3, <2>4 DEF IInv, TypeOK, FinishRun, process, table, loop
<1>2. Books'
  <2>1. FreshRuns'
    BY DEF IInv, Books, FreshRuns, FinishRun, Step, UpdateRun
  <2>2. HooksWereCreated'
    BY DEF IInv, Books, HooksWereCreated, FinishRun, table, loop
  <2>3. LockNamesHolder'
    BY DEF IInv, TypeOK, Books, LockNamesHolder, FinishRun, Step
  <2>4. BootIsQuiet'
    BY DEF IInv, Books, BootIsQuiet, FinishRun, Step, Up, process
  <2>5. RunFollowsWorker'
    BY DEF IInv, TypeOK, Books, RunFollowsWorker, FinishRun, Step, UpdateRun
  <2>6. FiringsRemembered'
    BY DEF IInv, Books, FiringsRemembered, FinishRun, table, loop
  <2> QED
    BY <2>1, <2>2, <2>3, <2>4, <2>5, <2>6 DEF Books
<1>3. ScriptShowsRunning'
  BY DEF IInv, ScriptShowsRunning, Showing, FinishRun, Step, table
<1>4. NoStuckHook'
  BY DEF IInv, Books, NoStuckHook, Showing, BootIsQuiet, FinishRun, Step, table,
      loop
<1> QED
  BY <1>1, <1>2, <1>3, <1>4 DEF IInv

LEMMA FinishHookStep ==
  ASSUME NEW r \in RunIds, IInv, FinishHook(r)
  PROVE  IInv'
<1>1. TypeOK'
  <2>1. result[r] \in HookStatuses
    BY DEF IInv, Books, RunFollowsWorker, FinishHook, Step, HookStatuses
  <2>2. hook' \in [HookIds -> Hooks] /\ claimed' \subseteq HookIds
    BY <2>1, StatusTyped DEF IInv, FinishHook
  <2>3. pc' \in [RunIds -> {"none", "lock", "done"} \cup Holding]
    BY DEF IInv, TypeOK, FinishHook, Step, Holding
  <2> QED
    BY <2>2, <2>3 DEF IInv, TypeOK, FinishHook, process, runs, loop
<1>2. Books'
  <2>1. FreshRuns'
    BY DEF IInv, Books, FreshRuns, FinishHook, Step, runs
  <2>2. HooksWereCreated'
    BY DEF IInv, Books, HooksWereCreated, FinishHook, runs, loop
  <2>3. LockNamesHolder'
    BY DEF IInv, TypeOK, Books, LockNamesHolder, FinishHook, Step, runs
  <2>4. BootIsQuiet'
    BY DEF IInv, Books, BootIsQuiet, FinishHook, Step, Up, process
  <2>5. RunFollowsWorker'
    BY DEF IInv, Books, RunFollowsWorker, FinishHook, Step, runs
  <2>6. FiringsRemembered'
    BY DEF IInv, Books, FiringsRemembered, FinishHook, loop
  <2> QED
    BY <2>1, <2>2, <2>3, <2>4, <2>5, <2>6 DEF Books
<1>3. ScriptShowsRunning'
  <2> SUFFICES ASSUME NEW q \in RunIds, pc'[q] \in Showing, hookOf[q] \in live,
                      q \notin expired
               PROVE  hook'[hookOf[q]].status = "running" \/ hookOf[q] \in claimed'
    BY DEF ScriptShowsRunning, FinishHook, runs
  <2>1. hookOf[q] \in HookIds /\ hookOf[r] \in HookIds
    BY DEF IInv, TypeOK
  <2>2. q # r /\ pc[q] \in Showing
    BY DEF IInv, TypeOK, FinishHook, Step, Showing
  <2>3. hookOf[q] # hookOf[r]
    BY <2>2 DEF IInv, Books, LockNamesHolder, FinishHook, Step, Showing, Holding
  <2>4. hook[hookOf[q]].status = "running" \/ hookOf[q] \in claimed
    BY <2>2 DEF IInv, ScriptShowsRunning
  <2>5. /\ hook'[hookOf[q]] = hook[hookOf[q]]
        /\ hookOf[q] \in claimed => hookOf[q] \in claimed'
    BY <2>1, <2>3, SetStatusElsewhere DEF IInv, FinishHook
  <2> QED
    BY <2>4, <2>5
<1>4. NoStuckHook'
  <2> SUFFICES ASSUME Up, NEW h \in live \ claimed', hook'[h].status = "running"
               PROVE  \E q \in RunIds : hookOf[q] = h /\ (pc'[q] \in Showing \/ q \in expired)
    BY DEF NoStuckHook, FinishHook, Up, process, runs
  <2>1. h \in HookIds /\ hookOf[r] \in HookIds /\ result[r] \in Finished
    BY DEF IInv, TypeOK, Books, RunFollowsWorker, FinishHook, Step
  <2>2. h # hookOf[r] \/ r \in expired
    BY <2>1, SetStatusShows DEF IInv, FinishHook, Finished
  <2>3. hook'[h] = hook[h] /\ h \notin claimed
    BY <2>1, <2>2, SetStatusElsewhere DEF IInv, FinishHook
  <2>4. PICK q \in RunIds : hookOf[q] = h /\ (pc[q] \in Showing \/ q \in expired)
    BY <2>3 DEF IInv, NoStuckHook
  <2> QED
    BY <2>2, <2>4 DEF FinishHook, Step
<1> QED
  BY <1>1, <1>2, <1>3, <1>4 DEF IInv

LEMMA ReleaseStep ==
  ASSUME NEW r \in RunIds, IInv, Release(r)
  PROVE  IInv'
<1>1. TypeOK'
  BY DEF IInv, TypeOK, Release, Step, process, table, runs, loop
<1>2. Books'
  <2>1. FreshRuns'
    BY DEF IInv, Books, FreshRuns, Release, Step, runs
  <2>2. HooksWereCreated'
    BY DEF IInv, Books, HooksWereCreated, Release, table, runs, loop
  <2>3. LockNamesHolder'
    BY DEF IInv, TypeOK, Books, LockNamesHolder, Holding, Release, Step, runs
  <2>4. BootIsQuiet'
    BY DEF IInv, Books, BootIsQuiet, Release, Step, Up, process
  <2>5. RunFollowsWorker'
    BY DEF IInv, Books, RunFollowsWorker, Release, Step, runs
  <2>6. FiringsRemembered'
    BY DEF IInv, Books, FiringsRemembered, Release, table, loop
  <2> QED
    BY <2>1, <2>2, <2>3, <2>4, <2>5, <2>6 DEF Books
<1>3. ScriptShowsRunning'
  BY DEF IInv, ScriptShowsRunning, Showing, Release, Step, table, runs
<1>4. NoStuckHook'
  <2>1. \A q \in RunIds : pc[q] \in Showing => pc'[q] = pc[q]
    BY DEF Release, Step, Showing
  <2> QED
    BY <2>1 DEF IInv, NoStuckHook, Release, Up, process, table, runs
<1> QED
  BY <1>1, <1>2, <1>3, <1>4 DEF IInv

LEMMA CrashStep ==
  ASSUME IInv, Crash
  PROVE  IInv'
<1>1. TypeOK'
  BY TimedHooksAssumption DEF IInv, TypeOK, Never, Crash, table, runs
<1>2. Books'
  <2>1. FreshRuns'
    BY DEF IInv, Books, FreshRuns, Crash, runs
  <2>2. HooksWereCreated'
    BY DEF IInv, Books, HooksWereCreated, Crash, table, runs
  <2>3. LockNamesHolder'
    BY DEF LockNamesHolder, Holding, Crash
  <2>4. BootIsQuiet'
    BY DEF BootIsQuiet, Crash
  <2>5. RunFollowsWorker'
    BY DEF RunFollowsWorker, Crash
  <2>6. FiringsRemembered'
    BY DEF FiringsRemembered, Crash
  <2> QED
    BY <2>1, <2>2, <2>3, <2>4, <2>5, <2>6 DEF Books
<1>3. ScriptShowsRunning'
  BY DEF ScriptShowsRunning, Showing, Crash
<1>4. NoStuckHook'
  BY DEF NoStuckHook, Crash, Up
<1> QED
  BY <1>1, <1>2, <1>3, <1>4 DEF IInv

LEMMA ResetRunsStep ==
  ASSUME IInv, ResetRuns
  PROVE  IInv'
<1>1. TypeOK'
  <2>1. run' \in [RunIds -> {"absent", "queued", "running"} \cup Finished]
    BY DEF IInv, TypeOK, ResetRuns, Finished
  <2> QED
    BY <2>1 DEF IInv, TypeOK, ResetRuns, table, workers, loop
<1>2. Books'
  <2>1. FreshRuns'
    BY DEF IInv, Books, FreshRuns, ResetRuns, workers
  <2>2. HooksWereCreated'
    BY DEF IInv, Books, HooksWereCreated, ResetRuns, table, loop
  <2>3. LockNamesHolder'
    BY DEF IInv, Books, LockNamesHolder, ResetRuns, workers
  <2>4. BootIsQuiet'
    BY DEF IInv, Books, BootIsQuiet, ResetRuns, Up, workers
  <2>5. RunFollowsWorker'
    BY DEF IInv, Books, RunFollowsWorker, BootIsQuiet, ResetRuns, Up, workers
  <2>6. FiringsRemembered'
    BY DEF IInv, Books, FiringsRemembered, ResetRuns, table, loop
  <2> QED
    BY <2>1, <2>2, <2>3, <2>4, <2>5, <2>6 DEF Books
<1>3. ScriptShowsRunning'
  BY DEF IInv, Books, ScriptShowsRunning, Showing, BootIsQuiet, ResetRuns, Up,
      workers
<1>4. NoStuckHook'
  BY DEF NoStuckHook, ResetRuns, Up
<1> QED
  BY <1>1, <1>2, <1>3, <1>4 DEF IInv

LEMMA ResetHooksStep ==
  ASSUME IInv, ResetHooks
  PROVE  IInv'
<1>1. TypeOK'
  <2>1. \A h \in HookIds : [hook[h] EXCEPT !.status = "idle"] \in Hooks
    BY DEF IInv, TypeOK, Hooks, HookStatuses
  <2>2. hook' \in [HookIds -> Hooks]
    BY <2>1 DEF IInv, TypeOK, ResetHooks
  <2> QED
    BY <2>2 DEF IInv, TypeOK, ResetHooks, runs, workers, loop
<1>2. Books'
  <2>1. FreshRuns'
    BY DEF IInv, Books, FreshRuns, ResetHooks, runs, workers
  <2>2. HooksWereCreated'
    BY DEF IInv, Books, HooksWereCreated, ResetHooks, runs, loop
  <2>3. LockNamesHolder'
    BY DEF IInv, Books, LockNamesHolder, ResetHooks, runs, workers
  <2>4. BootIsQuiet'
    BY DEF BootIsQuiet, ResetHooks, Up
  <2>5. RunFollowsWorker'
    BY DEF IInv, Books, RunFollowsWorker, BootIsQuiet, ResetHooks, Up, workers
  <2>6. FiringsRemembered'
    BY DEF IInv, Books, FiringsRemembered, ResetHooks, loop
  <2> QED
    BY <2>1, <2>2, <2>3, <2>4, <2>5, <2>6 DEF Books
<1>3. ScriptShowsRunning'
  BY DEF IInv, Books, ScriptShowsRunning, Showing, BootIsQuiet, ResetHooks, Up,
      workers
<1>4. NoStuckHook'
  BY DEF IInv, TypeOK, NoStuckHook, ResetHooks
<1> QED
  BY <1>1, <1>2, <1>3, <1>4 DEF IInv

-----------------------------------------------------------------------------
(* The invariant holds in every reachable state.                           *)
LEMMA InitEstablishes == Init => IInv
<1> SUFFICES ASSUME Init
             PROVE  IInv
  OBVIOUS
<1>1. TypeOK
  <2>1. (CHOOSE h \in HookIds : TRUE) \in HookIds
    BY TimedHooksAssumption
  <2>2. /\ now \in 1 .. MaxTime /\ restarts \in 0 .. MaxRestarts
        /\ nextRun \in 1 .. (MaxRuns + 1)
        /\ 0 \in 0 .. MaxTime /\ tickAt \in 0 .. now
    BY TimedHooksAssumption DEF Init
  <2>3. /\ hook \in [HookIds -> Hooks]
        /\ hookOf \in [RunIds -> HookIds]
    BY <2>1, NoHookTyped DEF Init
  <2> QED
    BY <2>2, <2>3 DEF Init, TypeOK, Never
<1>2. Books
  BY DEF Init, Books, FreshRuns, HooksWereCreated, LockNamesHolder, BootIsQuiet,
      RunFollowsWorker, FiringsRemembered, Holding, RunIds
<1>3. ScriptShowsRunning /\ NoStuckHook
  BY DEF Init, ScriptShowsRunning, NoStuckHook
<1> QED
  BY <1>1, <1>2, <1>3 DEF IInv

LEMMA StutterPreserves ==
  ASSUME IInv, UNCHANGED vars
  PROVE  IInv'
<1> USE DEF vars, process, table, runs, workers, loop
<1>1. TypeOK'
  BY DEF IInv, TypeOK
<1>2. Books'
  BY DEF IInv, Books, FreshRuns, HooksWereCreated, LockNamesHolder, BootIsQuiet,
      RunFollowsWorker, FiringsRemembered, Up
<1>3. ScriptShowsRunning' /\ NoStuckHook'
  BY DEF IInv, ScriptShowsRunning, NoStuckHook, Up
<1> QED
  BY <1>1, <1>2, <1>3 DEF IInv

LEMMA StepPreserves ==
  ASSUME IInv, [Next]_vars
  PROVE  IInv'
<1>1. CASE Advance
  BY <1>1, AdvanceStep
<1>2. ASSUME NEW h \in HookIds,
             \/ \E b \in BOOLEAN, s \in Schedules, st \in HookStatuses :
                    CreateHook(h, b, s, st) \/ UpdateHook(h, b, s, st)
             \/ DeleteHook(h) \/ RunHook(h)
      PROVE  IInv'
  BY <1>2, CreateHookStep, UpdateHookStep, DeleteHookStep, RunHookStep
<1>3. CASE Schedule
  BY <1>3, TickStep, FireStep, ConsiderStep DEF Schedule
<1>4. ASSUME NEW r \in RunIds, Work(r) \/ Expire(r)
      PROVE  IInv'
  BY <1>4, AcquireStep, MarkRunRunningStep, MarkHookRunningStep, ScriptStep,
      FinishRunStep, FinishHookStep, ReleaseStep, ExpireStep DEF Work
<1>5. CASE Crash
  BY <1>5, CrashStep
<1>6. CASE Start
  BY <1>6, ResetRunsStep, ResetHooksStep DEF Start
<1>7. CASE UNCHANGED vars
  BY <1>7, StutterPreserves
<1> QED
  BY <1>1, <1>2, <1>3, <1>4, <1>5, <1>6, <1>7 DEF Next

LEMMA Invariance == Spec => []IInv
BY InitEstablishes, StepPreserves, PTL DEF Spec

(* Every variable of the hooks' world keeps its type.                      *)
THEOREM TypeCorrectness == Spec => []TypeOK
<1>1. IInv => TypeOK
  BY DEF IInv
<1> QED
  BY <1>1, Invariance, PTL

(* Two runs of one hook are never both between the mutex's lock and its    *)
(* release in Runner.work: a timed and a manual run do not overlap.        *)
THEOREM OneRunAtATime ==
  Spec => [](\A r, q \in RunIds :
                /\ pc[r] \in Holding /\ pc[q] \in Holding
                /\ hookOf[r] = hookOf[q]
                => r = q)
<1>1. IInv => \A r, q \in RunIds :
                 /\ pc[r] \in Holding /\ pc[q] \in Holding
                 /\ hookOf[r] = hookOf[q]
                 => r = q
  BY DEF IInv, Books, LockNamesHolder
<1> QED
  BY <1>1, Invariance, PTL

(* While a script runs its hook's row reads running, unless the row is     *)
(* gone, a client overwrote it or the deadline kept it from being set.     *)
THEOREM ScriptsShowRunning == Spec => []ScriptShowsRunning
<1>1. IInv => ScriptShowsRunning
  BY DEF IInv
<1> QED
  BY <1>1, Invariance, PTL

(* In a process that has booted, a row that reads running has a run behind *)
(* it, unless a client's stale write put it there.                         *)
THEOREM HooksAreNotStuck == Spec => []NoStuckHook
<1>1. IInv => NoStuckHook
  BY DEF IInv
<1> QED
  BY <1>1, Invariance, PTL

-----------------------------------------------------------------------------
(* Firings.                                                                *)

(* What is due after a later moment is due after an earlier one.           *)
LEMMA DueAfterEarlier ==
  ASSUME NEW schedule \in Schedules, NEW last \in Nat, NEW earlier \in Nat,
         NEW t \in Nat, earlier <= last, ScheduleDue(schedule, last, t)
  PROVE  ScheduleDue(schedule, earlier, t)
<1>1. CASE "every" \in DOMAIN schedule /\ last + schedule.every <= t
  <2>1. schedule.every \in Nat
    BY <1>1, TimedHooksAssumption
  <2>2. earlier + schedule.every <= t
    BY <1>1, <2>1
  <2> QED
    BY <1>1, <2>2 DEF ScheduleDue
<1>2. CASE "cron" \in DOMAIN schedule /\ \E f \in schedule.cron : last < f /\ f <= t
  <2>1. schedule.cron \subseteq Nat
    BY <1>2, TimedHooksAssumption
  <2>2. PICK f \in schedule.cron : last < f /\ f <= t
    BY <1>2
  <2>3. earlier < f
    BY <2>1, <2>2
  <2> QED
    BY <1>2, <2>2, <2>3 DEF ScheduleDue
<1> QED
  BY <1>1, <1>2 DEF ScheduleDue

LEMMA LastRunIsATime ==
  ASSUME IInv, NEW s \in scan
  PROVE  HookLastRun(s) \in Nat
<1>1. s.row.updated \in Nat
  BY DEF IInv, TypeOK, Hooks
<1>2. \A r \in RunIds : started[r] \in Nat
  BY DEF IInv, TypeOK
<1> DEFINE newest == {r \in Runs(s.id) : \A q \in Runs(s.id) : q <= r}
<1>3. CASE \E r \in newest : started[r] # Never
  <2>1. (CHOOSE r \in newest : TRUE) \in newest
    BY <1>3
  <2>2. (CHOOSE r \in newest : TRUE) \in RunIds
    BY <2>1 DEF Runs
  <2> QED
    BY <1>2, <1>3, <2>2 DEF HookLastRun
<1>4. CASE ~\E r \in newest : started[r] # Never
  BY <1>1, <1>4 DEF HookLastRun
<1> QED
  BY <1>3, <1>4

(* The firing remembered in hookFire is never later than what due counts   *)
(* from.                                                                   *)
LEMMA FiringIsSpaced ==
  ASSUME IInv, NEW s \in scan, Consider(s), firing' = s.id, lastFired[s.id] # Never
  PROVE  ScheduleDue(s.row.schedule, lastFired[s.id], tickAt)
<1>1. s.id \in HookIds /\ s.row.schedule \in Schedules
  BY DEF IInv, TypeOK, Hooks
<1>2. firing # firing' /\ Due(s)
  BY <1>1, TimedHooksAssumption DEF Consider, Nobody
<1>3. lastFired[s.id] = fire[s.id] /\ fire[s.id] \in Nat /\ tickAt \in Nat
  <2>1. fire[s.id] \in 0 .. MaxTime /\ tickAt \in 0 .. now /\ now \in 1 .. MaxTime
    BY <1>1 DEF IInv, TypeOK
  <2>2. lastFired[s.id] = fire[s.id]
    BY DEF IInv, Books, FiringsRemembered
  <2> QED
    BY <2>1, <2>2
<1>4. HookLastRun(s) \in Nat
  BY LastRunIsATime
<1>5. /\ Later(fire[s.id], HookLastRun(s)) \in Nat
      /\ fire[s.id] <= Later(fire[s.id], HookLastRun(s))
  BY <1>3, <1>4 DEF Later
<1>6. ScheduleDue(s.row.schedule, Later(fire[s.id], HookLastRun(s)), tickAt)
  BY <1>2 DEF Due
<1> QED
  BY <1>1, <1>3, <1>5, <1>6, DueAfterEarlier

(* Between two firings of a hook by one process its schedule comes due     *)
(* anew: Scheduler.due, markFired and pruneFire lose no firing.            *)
THEOREM FiringsAreSpaced == Spec => SpacedFirings
<1>1. ASSUME IInv, [Next]_vars, NEW s \in scan, s \notin scan', firing' = s.id,
             lastFired[s.id] # Never
      PROVE  ScheduleDue(s.row.schedule, lastFired[s.id], tickAt)
  <2>1. s.id \in HookIds /\ s.id # Nobody
    BY <1>1, TimedHooksAssumption DEF IInv, TypeOK, Nobody
  <2>2. ~(UNCHANGED scan)
    BY <1>1
  <2>3. ~Tick /\ ~Crash
    BY <1>1, <2>1 DEF Tick, Crash
  <2>4. \E t \in scan : Consider(t)
    BY <1>1, <2>2, <2>3 DEF Next, Schedule, Work, Start, Advance, CreateHook,
        DeleteHook, RunHook, UpdateHook, Fire, Acquire, MarkRunRunning,
        MarkHookRunning, Script, FinishRun, FinishHook, Release, Expire,
        ResetRuns, ResetHooks, loop, vars
  <2>5. Consider(s)
    BY <1>1, <2>4 DEF Consider
  <2> QED
    BY <1>1, <2>5, FiringIsSpaced
<1>2. IInv /\ [Next]_vars =>
          [\A s \in scan : s \notin scan' /\ firing' = s.id /\ lastFired[s.id] # Never =>
              ScheduleDue(s.row.schedule, lastFired[s.id], tickAt)]_vars
  BY <1>1
<1> QED
  BY <1>2, Invariance, PTL DEF Spec, SpacedFirings

-----------------------------------------------------------------------------
(* The rows of hook_runs as a job table.                                   *)
LEMMA JobStateOf ==
  ASSUME IInv
  PROVE  \A r \in RunIds :
             /\ run[r] # "absent" => JobState[r] = run[r] /\ r < nextRun
             /\ run[r] = "absent" /\ r < nextRun => JobState[r] = "gone"
             /\ run[r] = "absent" /\ ~(r < nextRun) => JobState[r] = "unborn"
<1>1. \A r \in RunIds : run[r] # "absent" => r < nextRun
  BY DEF IInv, TypeOK, Books, FreshRuns, RunIds
<1> QED
  BY <1>1 DEF JobState

(* A step that changes neither rows nor the id counter is a stutter.       *)
LEMMA SameJobs ==
  ASSUME run' = run, nextRun' = nextRun
  PROVE  JobState' = JobState
BY DEF JobState

LEMMA SubmitStep ==
  ASSUME IInv, NEW h \in HookIds, Insert(h)
  PROVE  Jobs!Submit(nextRun) /\ nextRun \in RunIds
<1>1. /\ nextRun \in RunIds /\ nextRun \in Nat /\ nextRun' = nextRun + 1
      /\ run'[nextRun] = "queued"
      /\ \A r \in RunIds \ {nextRun} : run'[r] = run[r]
  BY InsertedRun DEF IInv, RunIds
<1>2. JobState[nextRun] = "unborn"
  BY <1>1 DEF IInv, Books, FreshRuns, JobState
<1>3. ASSUME NEW r \in RunIds
      PROVE  JobState'[r] = IF r = nextRun THEN "queued" ELSE JobState[r]
  <2>1. r \in Nat
    BY DEF RunIds
  <2> QED
    BY <1>1, <2>1 DEF JobState
<1>4. JobState' = [JobState EXCEPT ![nextRun] = "queued"]
  BY <1>3 DEF JobState
<1> QED
  BY <1>1, <1>2, <1>4 DEF Jobs!Submit

LEMMA RowStepIsJobStep ==
  ASSUME IInv, NEW r \in RunIds, NEW s \in {"running", "success", "failed"},
         UpdateRun(r, s), nextRun' = nextRun, run[r] # "absent" /\ r \notin expired
  PROVE  JobState[r] = run[r] /\ JobState' = [JobState EXCEPT ![r] = s]
<1>1. run' = [run EXCEPT ![r] = s]
  BY DEF UpdateRun
<1>2. ASSUME NEW q \in RunIds
      PROVE  JobState'[q] = IF q = r THEN s ELSE JobState[q]
  BY <1>1 DEF IInv, TypeOK, JobState
<1> QED
  BY <1>2 DEF JobState

LEMMA InterruptStep ==
  ASSUME IInv, ResetRuns
  PROVE  Jobs!Interrupt
<1>1. ASSUME NEW r \in RunIds
      PROVE  JobState'[r] = IF JobState[r] \in Jobs!Pending THEN "failed"
                                                            ELSE JobState[r]
  BY DEF ResetRuns, JobState, Jobs!Pending
<1> QED
  BY <1>1 DEF Jobs!Interrupt, JobState

LEMMA CascadeStep ==
  ASSUME IInv, NEW h \in HookIds, DeleteHook(h)
  PROVE  Jobs!Cascade(Runs(h))
<1>1. \A r \in Runs(h) : Jobs!Exists(r)
  BY JobStateOf DEF IInv, TypeOK, Finished, Runs, Jobs!Exists
<1>2. ASSUME NEW r \in RunIds
      PROVE  JobState'[r] = IF r \in Runs(h) THEN "gone" ELSE JobState[r]
  <2>1. CASE r \in Runs(h)
    <3>1. r < nextRun /\ nextRun' = nextRun /\ run'[r] = "absent"
      BY <2>1, JobStateOf DEF Runs, DeleteHook
    <3> QED
      BY <2>1, <3>1 DEF JobState
  <2>2. CASE r \notin Runs(h)
    BY <2>2 DEF JobState, DeleteHook
  <2> QED
    BY <2>1, <2>2
<1> QED
  BY <1>1, <1>2 DEF Jobs!Cascade, JobState

(* The rows of hook_runs are submitted, started and finished once each,    *)
(* interrupted only by a restart, and lost only with their hook.           *)
THEOREM RunsImplementJobs == Spec => RunsAreJobs
<1>1. Init => Jobs!Init
  BY DEF Init, Jobs!Init, JobState, RunIds
<1>2. ASSUME IInv, [Next]_vars
      PROVE  [Jobs!Next]_JobState
  <2>1. CASE run' = run /\ nextRun' = nextRun
    BY <2>1, SameJobs
  <2>2. ASSUME NEW h \in HookIds, Insert(h)
        PROVE  [Jobs!Next]_JobState
    BY <1>2, <2>2, SubmitStep DEF Jobs!Next
  <2>3. ASSUME NEW h \in HookIds, DeleteHook(h)
        PROVE  [Jobs!Next]_JobState
    <3>1. Runs(h) \in SUBSET RunIds
      BY DEF Runs
    <3> QED
      BY <1>2, <2>3, <3>1, CascadeStep DEF Jobs!Next
  <2>4. ASSUME NEW r \in RunIds, MarkRunRunning(r)
        PROVE  [Jobs!Next]_JobState
    <3>1. CASE run[r] # "absent" /\ r \notin expired
      <4>1. run[r] = "queued"
        BY <1>2, <2>4, <3>1 DEF IInv, Books, RunFollowsWorker, MarkRunRunning,
            Step
      <4>2. JobState[r] = "queued" /\ JobState' = [JobState EXCEPT ![r] = "running"]
        BY <1>2, <2>4, <3>1, <4>1, RowStepIsJobStep DEF MarkRunRunning
      <4> QED
        BY <4>2 DEF Jobs!Next, Jobs!Start
    <3>2. CASE ~(run[r] # "absent" /\ r \notin expired)
      BY <2>4, <3>2, SameJobs DEF MarkRunRunning, UpdateRun
    <3> QED
      BY <3>1, <3>2
  <2>5. ASSUME NEW r \in RunIds, FinishRun(r)
        PROVE  [Jobs!Next]_JobState
    <3>1. CASE run[r] # "absent" /\ r \notin expired
      <4>1. run[r] = "running" /\ result[r] \in {"success", "failed"}
        BY <1>2, <2>5, <3>1 DEF IInv, Books, RunFollowsWorker, FinishRun, Step,
            Finished
      <4>2. JobState[r] = "running" /\ JobState' = [JobState EXCEPT ![r] = result[r]]
        BY <1>2, <2>5, <3>1, <4>1, RowStepIsJobStep DEF FinishRun
      <4> QED
        BY <4>1, <4>2 DEF Jobs!Next, Jobs!Finish
    <3>2. CASE ~(run[r] # "absent" /\ r \notin expired)
      BY <2>5, <3>2, SameJobs DEF FinishRun, UpdateRun
    <3> QED
      BY <3>1, <3>2
  <2>6. CASE ResetRuns
    BY <1>2, <2>6, InterruptStep DEF Jobs!Next
  <2>7. CASE Fire
    <3>1. CASE firing \in live /\ nextRun \in RunIds
      <4>1. firing \in HookIds /\ Insert(firing)
        BY <1>2, <2>7, <3>1 DEF IInv, TypeOK, Fire
      <4> QED
        BY <4>1, <2>2
    <3>2. CASE ~(firing \in live /\ nextRun \in RunIds)
      BY <2>7, <3>2, <2>1 DEF Fire, runs
    <3> QED
      BY <3>1, <3>2
  <2>8. \/ run' = run /\ nextRun' = nextRun
        \/ \E h \in HookIds : Insert(h) \/ DeleteHook(h)
        \/ \E r \in RunIds : MarkRunRunning(r) \/ FinishRun(r)
        \/ ResetRuns \/ Fire
    BY <1>2 DEF Next, Schedule, Work, Start, Advance, CreateHook, RunHook,
        UpdateHook, Tick, Consider, Acquire, MarkHookRunning, Script,
        FinishHook, Release, Expire, Crash, ResetHooks, runs, vars
  <2> QED
    BY <2>1, <2>2, <2>3, <2>4, <2>5, <2>6, <2>7, <2>8
<1> QED
  BY <1>1, <1>2, Invariance, PTL DEF Spec, RunsAreJobs, Jobs!Spec
=============================================================================
