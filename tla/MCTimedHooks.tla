---------------------------- MODULE MCTimedHooks ----------------------------
(***************************************************************************)
(* TimedHooks on a small instance.  What clients, crashes and the clock do *)
(* is divided: a hook with a duration meets an edit and a restart within   *)
(* two ticks, a hook with a cron expression is left alone for four.        *)
(***************************************************************************)
EXTENDS TimedHooks

MCSchedules == {[every |-> 1], [cron |-> {2, 4}]}
Short       == 2                \* the time a hook with a duration is given

Cron(s)    == "cron" \in DOMAIN s
CronHooks  == {h \in live : Cron(hook[h].schedule)}

(* What a client writes as a status: to whoever reads it, any other is as  *)
(* good as idle.                                                           *)
Words == {"idle", "running"}

(* The scheduler, the runs and the start of the process take every step.   *)
MCNext ==
    \/ /\ now < Short \/ created = {} \/ CronHooks # {}
       /\ Advance
    \/ \E h \in HookIds, b \in BOOLEAN, s \in Schedules, st \in Words :
        /\ Cron(s) => b /\ restarts = 0
        /\ ~Cron(s) => now <= Short
        /\ CreateHook(h, b, s, st)
    \/ \E h \in HookIds : RunHook(h)
    \/ \E h \in HookIds \ CronHooks : DeleteHook(h)
    \/ \E h \in HookIds \ CronHooks, b \in BOOLEAN, s \in Schedules, st \in Words :
        ~Cron(s) /\ UpdateHook(h, b, s, st)
    \/ CronHooks = {} /\ now <= Short /\ Crash
    \/ Schedule
    \/ \E r \in RunIds : Work(r)
    \/ \E r \in RunIds : hookOf[r] \notin CronHooks /\ Expire(r)
    \/ Start

MCSpec == Init /\ [][MCNext]_vars /\ Fairness
=============================================================================
