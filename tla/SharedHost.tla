----------------------------- MODULE SharedHost -----------------------------
(***************************************************************************)
(* What edp instances do to the Docker host they share: the workloads a    *)
(* deployment puts there (reduced to the commands that change the host;    *)
(* DeployEngine has the pipeline), the forwarder sidecars that             *)
(* portproxy.Manager reconciles, and the teardown of an instance, on exit  *)
(* (EDP_REAP_ON_EXIT) or by `edp reap`.                                    *)
(*                                                                         *)
(* Every instance numbers its environments from 1.  Containers carry their *)
(* environment's id and their instance in labels.  The name of a single    *)
(* container comes from the environment's name, that of a forwarder and of *)
(* a compose project from its id alone, and a name is given once.  An      *)
(* action is one statement on the store or one Docker command; any command *)
(* may fail.                                                               *)
(***************************************************************************)
EXTENDS Naturals, FiniteSets

CONSTANTS Instances,     \* edp instances sharing the host
          MaxEnvs,       \* bound: environments an instance ever has
          Names,         \* of environments
          Ports,         \* listen ports
          ContainerName, \* naming.ContainerName, which makes some names alike
          ForwarderName, \* edp-fwd-<id>
          Rows,          \* environments users may write: type, name, and the
                         \* port to forward to them, or None
          None,          \* no environment, no port, no container, no owner
          MaxEdits,      \* bound: creations, changes and deletions
          MaxStarts      \* bound: times an instance is started again

EnvIds == 1 .. MaxEnvs
Kinds  == {"container", "compose"}

ContainerNames == {ContainerName[n] : n \in Names} \cup {ForwarderName[e] : e \in EnvIds}

(* LabelFwdSpec: where a forwarder listens and what it forwards to.        *)
Specs == {<<port, ContainerName[n]>> : port \in Ports, n \in Names}

Forwarders == [kind : {"forwarder"}, inst : Instances, env : EnvIds, spec : Specs,
               running : BOOLEAN]
Boxes == [kind : {"box"}, inst : Instances, env : EnvIds]

ASSUME SharedHostAssumption ==
    /\ MaxEnvs \in Nat /\ MaxEdits \in Nat /\ MaxStarts \in Nat
    /\ Rows \subseteq [type : Kinds, name : Names, port : Ports \cup {None}]
    /\ None \notin Instances /\ None \notin EnvIds /\ None \notin Rows
    /\ None \notin Ports /\ None \notin Specs
    /\ None \notin Forwarders /\ None \notin Boxes
    /\ DOMAIN ContainerName = Names /\ DOMAIN ForwarderName = EnvIds
    /\ \A e, f \in EnvIds : ForwarderName[e] = ForwarderName[f] => e = f

VARIABLES
    env,        \* per instance, the environments in its store
    nextId,     \* its AUTOINCREMENT
    edits,      \* edits made
    starts,     \* restarts made
    mode,       \* "up", "draining" (Shutdown waits for requests), "exiting"
                \* (tearing down before it exits), "down"
    open,       \* a request is open that does not end by itself: a stream of
                \* events or logs
    deploy,     \* per environment, the row its deployment has read, if it is
                \* between making room and bringing up
    loop,       \* where reconcile is, what it wants, has seen, is starting
    reaper,     \* where Reap is and the stacks it has still to tear down
    container,  \* per name, the container that has it
    stack,      \* per project, the instance that brought it up
    reaped,     \* history: instances whose last teardown met no error
    excused,    \* history: instances that were killed, kept from tearing down
                \* by an open request, or met an error in doing so
    spared,     \* history: environments whose containers were not all removed
    late        \* history: workloads brought up behind the last teardown

store   == <<env, nextId, edits>>
process == <<starts, mode, open>>
host    == <<container, stack>>
history == <<reaped, excused, spared, late>>
vars    == <<store, process, deploy, loop, reaper, host, history>>

Idle == [at |-> "idle", want |-> [e \in EnvIds |-> None],
         have |-> [e \in EnvIds |-> None], id |-> None]

NoReap == [at |-> "idle", todo |-> {}, ok |-> TRUE]

TypeOK ==
    /\ env \in [Instances -> [EnvIds -> Rows \cup {None}]]
    /\ nextId \in [Instances -> 1 .. MaxEnvs + 1]
    /\ edits \in 0 .. MaxEdits
    /\ starts \in 0 .. MaxStarts
    /\ mode \in [Instances -> {"up", "draining", "exiting", "down"}]
    /\ open \in [Instances -> BOOLEAN]
    /\ deploy \in [Instances -> [EnvIds -> Rows \cup {None}]]
    /\ loop \in [Instances -> [at : {"idle", "list", "apply", "start"},
                               want : [EnvIds -> Specs \cup {None}],
                               have : [EnvIds -> Forwarders \cup {None}],
                               id : EnvIds \cup {None}]]
    /\ reaper \in [Instances -> [at : {"idle", "stacks"}, todo : SUBSET EnvIds,
                                 ok : BOOLEAN]]
    /\ container \in [ContainerNames -> Boxes \cup Forwarders \cup {None}]
    /\ stack \in [EnvIds -> Instances \cup {None}]
    /\ reaped \subseteq Instances
    /\ excused \subseteq Instances
    /\ spared \subseteq Instances \X EnvIds
    /\ late \subseteq Instances \X EnvIds \X Kinds

Init == /\ env = [i \in Instances |-> [e \in EnvIds |-> None]]
        /\ nextId = [i \in Instances |-> 1]
        /\ edits = 0 /\ starts = 0
        /\ mode = [i \in Instances |-> "up"]
        /\ open = [i \in Instances |-> FALSE]
        /\ deploy = [i \in Instances |-> [e \in EnvIds |-> None]]
        /\ loop = [i \in Instances |-> Idle]
        /\ reaper = [i \in Instances |-> NoReap]
        /\ container = [n \in ContainerNames |-> None]
        /\ stack = [e \in EnvIds |-> None]
        /\ reaped = {} /\ excused = {} /\ spared = {} /\ late = {}

-----------------------------------------------------------------------------
(* Environments are created, changed and deleted, in requests; nothing     *)
(* else happens then, on the host in particular.                           *)
Serving(i) == mode[i] \in {"up", "draining"}

(* environments.name is UNIQUE.                                            *)
Free(i, e, name) ==
    \A f \in EnvIds \ {e} : env[i][f] # None => env[i][f].name # name

Write(i, e, row) ==
    /\ Serving(i)
    /\ edits < MaxEdits
    /\ edits' = edits + 1
    /\ env' = [env EXCEPT ![i][e] = row]
    /\ UNCHANGED <<process, deploy, loop, reaper, host, history>>

CreateEnv(i, row) ==
    /\ nextId[i] \in EnvIds
    /\ Free(i, nextId[i], row.name)
    /\ nextId' = [nextId EXCEPT ![i] = @ + 1]
    /\ Write(i, nextId[i], row)

UpdateEnv(i, e, row) ==
    /\ env[i][e] \notin {None, row}
    /\ Free(i, e, row.name)
    /\ Write(i, e, row)
    /\ UNCHANGED nextId

DeleteEnv(i, e) ==
    /\ env[i][e] # None
    /\ Write(i, e, None)
    /\ UNCHANGED nextId

(* A client follows events or a log, and leaves.                           *)
OpenStream(i) ==
    /\ mode[i] = "up" /\ ~open[i]
    /\ open' = [open EXCEPT ![i] = TRUE]
    /\ UNCHANGED <<store, starts, mode, deploy, loop, reaper, host, history>>

CloseStream(i) ==
    /\ open[i]
    /\ open' = [open EXCEPT ![i] = FALSE]
    /\ UNCHANGED <<store, starts, mode, deploy, loop, reaper, host, history>>

-----------------------------------------------------------------------------
(* Deployments.  They run in goroutines that only the end of the process   *)
(* stops, and the scheduler starts new ones until then.                    *)

Forget(i, kinds) == late \ ({i} \X EnvIds \X kinds)

(* A teardown of the instance is under way, or was the last thing to       *)
(* happen to it: what is brought up now comes behind it.                   *)
Behind(i, e, kind) ==
    IF i \in reaped \/ (reaper[i].at = "stacks" /\ reaper[i].ok)
    THEN late \cup {<<i, e, kind>>} ELSE late

IsBox(n, i, e) == /\ container[n] # None /\ container[n].kind = "box"
                  /\ container[n].inst = i /\ container[n].env = e

(* Mutant: the container to remove is looked up by its name, too.          *)
LabelledAndNamed(i, e) == {n \in ContainerNames : /\ IsBox(n, i, e)
                                                  /\ n = ContainerName[env[i][e].name]}

(* The containers with an environment's edp.env label: of any instance.    *)
Labelled(i, e) == {n \in ContainerNames : \E j \in Instances : IsBox(n, j, e)}

Without(names) == [n \in ContainerNames |-> IF n \in names THEN None ELSE container[n]]

(* RemoveContainersByEnv, which may fail and leave some; or compose down   *)
(* by project name, when the environment sweeps volumes.                   *)
MakeRoom(i, e) ==
    /\ mode[i] # "down"
    /\ env[i][e] # None
    /\ deploy[i][e] = None
    /\ deploy' = [deploy EXCEPT ![i][e] = env[i][e]]
    /\ \/ /\ env[i][e].type = "container"
          /\ \E gone \in SUBSET Labelled(i, e) :
                /\ container' = Without(gone)
                /\ spared' = IF gone = Labelled(i, e) THEN spared \ {<<i, e>>}
                             ELSE spared \cup {<<i, e>>}
          /\ UNCHANGED stack
       \/ /\ env[i][e].type = "compose"
          /\ stack' \in {stack, [stack EXCEPT ![e] = None]}
          /\ UNCHANGED <<container, spared>>
    /\ UNCHANGED <<store, process, loop, reaper, reaped, excused, late>>

(* The command fails.                                                      *)
BringNothingUp(i, e) ==
    /\ deploy[i][e] # None
    /\ deploy' = [deploy EXCEPT ![i][e] = None]
    /\ UNCHANGED <<store, process, loop, reaper, host, history>>

(* docker run --name: refused while any container has the name.            *)
RunContainer(i, e) ==
    /\ deploy[i][e] # None /\ deploy[i][e].type = "container"
    /\ LET n == ContainerName[deploy[i][e].name] IN
         /\ container[n] = None
         /\ container' = [container EXCEPT ![n] = [kind |-> "box", inst |-> i, env |-> e]]
    /\ deploy' = [deploy EXCEPT ![i][e] = None]
    /\ late' = Behind(i, e, "container")
    /\ UNCHANGED <<store, process, loop, reaper, stack, reaped, excused, spared>>

ComposeUp(i, e) ==
    /\ deploy[i][e] # None /\ deploy[i][e].type = "compose"
    /\ deploy' = [deploy EXCEPT ![i][e] = None]
    /\ stack' = [stack EXCEPT ![e] = i]
    /\ late' = Behind(i, e, "compose")
    /\ UNCHANGED <<store, process, loop, reaper, container, reaped, excused, spared>>

BringUp(i, e) == BringNothingUp(i, e) \/ RunContainer(i, e) \/ ComposeUp(i, e)

-----------------------------------------------------------------------------
(* Manager.reconcile, every five seconds while the instance is up.         *)

Listen(spec) == spec[1]

SpecOf(row) == IF row = None \/ row.port = None THEN None
               ELSE <<row.port, ContainerName[row.name]>>

(* The container named edp-fwd-<id>, if a forwarder has the name.          *)
Fwd(e) == LET c == container[ForwarderName[e]]
          IN IF c # None /\ c.kind = "forwarder" THEN c ELSE None

(* Mutant: the loop goes on until the process ends.                        *)
LoopingUntilExit(i) == mode[i] # "down"

(* Run, until stopWatch cancels its context, behind Shutdown.              *)
Looping(i) == Serving(i)

ReadEnvs(i) ==
    /\ Looping(i)
    /\ loop[i].at = "idle"
    /\ loop' = [loop EXCEPT ![i].at = "list",
                            ![i].want = [e \in EnvIds |-> SpecOf(env[i][e])]]
    /\ UNCHANGED <<store, process, deploy, reaper, host, history>>

(* ListForwarders, of every instance; an error ends the round.             *)
ListForwarders(i) ==
    /\ Looping(i)
    /\ loop[i].at = "list"
    /\ loop' \in {[loop EXCEPT ![i].at = "apply", ![i].have = [e \in EnvIds |-> Fwd(e)]],
                  [loop EXCEPT ![i] = Idle]}
    /\ UNCHANGED <<store, process, deploy, reaper, host, history>>

Stale(i) == {e \in EnvIds : /\ loop[i].have[e] # None
                            /\ loop[i].have[e].spec # loop[i].want[e]}

(* Mutant: a sidecar that exists is taken to be running.                   *)
MissingIfAbsent(i) == {e \in EnvIds : /\ loop[i].want[e] # None
                                      /\ loop[i].have[e] = None}

Missing(i) == {e \in EnvIds : /\ loop[i].want[e] # None
                              /\ \/ loop[i].have[e] = None
                                 \/ ~loop[i].have[e].running}

(* docker rm -f edp-fwd-<id>, whatever has that name; the round goes on    *)
(* when it fails.                                                          *)
RemoveForwarder(i, e) ==
    /\ container' \in {container, Without({ForwarderName[e]})}
    /\ UNCHANGED <<store, process, deploy, reaper, stack, history>>

RemoveStale(i, e) ==
    /\ Looping(i)
    /\ loop[i].at = "apply"
    /\ e \in Stale(i)
    /\ RemoveForwarder(i, e)
    /\ loop' = [loop EXCEPT ![i].have[e] = None]

ClearLeftover(i, e) ==
    /\ Looping(i)
    /\ loop[i].at = "apply"
    /\ Stale(i) = {}
    /\ e \in Missing(i)
    /\ RemoveForwarder(i, e)
    /\ loop' = [loop EXCEPT ![i].at = "start", ![i].id = e, ![i].have[e] = None]

PortTaken(spec) == \E e \in EnvIds : /\ Fwd(e) # None /\ Fwd(e).running
                                     /\ Listen(Fwd(e).spec) = Listen(spec)

NewSidecar(i, inst) ==
    LET e == loop[i].id
        spec == loop[i].want[e]
    IN /\ container[ForwarderName[e]] = None
       /\ container' = [container EXCEPT ![ForwarderName[e]] =
                            [kind |-> "forwarder", inst |-> inst, env |-> e,
                             spec |-> spec, running |-> ~PortTaken(spec)]]

(* Mutant: the instance label carries the environment's id.                *)
SidecarLabelledByEnv(i) == NewSidecar(i, loop[i].id)

(* docker run: refused while the name is taken, and of no use while the    *)
(* port is; the container then stays, not running.                         *)
Sidecar(i) == NewSidecar(i, i)

NextForwarder(i) ==
    loop' = [loop EXCEPT ![i].at = "apply", ![i].want[loop[i].id] = None, ![i].id = None]

StartForwarder(i) ==
    /\ Looping(i)
    /\ loop[i].at = "start"
    /\ Sidecar(i)
    /\ NextForwarder(i)
    /\ UNCHANGED <<store, process, deploy, reaper, stack, history>>

StartFails(i) ==
    /\ Looping(i)
    /\ loop[i].at = "start"
    /\ NextForwarder(i)
    /\ UNCHANGED <<store, process, deploy, reaper, host, history>>

EndRound(i) ==
    /\ Looping(i)
    /\ loop[i].at = "apply"
    /\ Stale(i) = {} /\ Missing(i) = {}
    /\ loop' = [loop EXCEPT ![i] = Idle]
    /\ UNCHANGED <<store, process, deploy, reaper, host, history>>

(* stopWatch: the loop ends, with or without the effect of the command it  *)
(* was running.                                                            *)
StopLoop(i) == /\ loop' = [loop EXCEPT ![i] = Idle]
               /\ \/ loop[i].at = "start" /\ Sidecar(i)
                  \/ UNCHANGED container

-----------------------------------------------------------------------------
(* Teardown.                                                               *)

ComposeEnvs(i) == {e \in EnvIds : env[i][e] # None /\ env[i][e].type = "compose"}

(* ListEnvironments; one teardown of an instance at a time.  It is clean if *)
(* nothing goes wrong from here on and the instance is not up and changing *)
(* its environments meanwhile.                                             *)
Look(i) == /\ reaper[i].at = "idle"
           /\ reaper' = [reaper EXCEPT ![i] = [at |-> "stacks", todo |-> ComposeEnvs(i),
                                               ok |-> ~Serving(i)']]
           /\ reaped' = reaped \ {i}

(* SIGTERM with EDP_REAP_ON_EXIT: Shutdown waits for open requests.        *)
Terminate(i) ==
    /\ mode[i] = "up"
    /\ mode' = [mode EXCEPT ![i] = "draining"]
    /\ excused' = excused \ {i}
    /\ UNCHANGED <<store, starts, open, deploy, loop, reaper, host, reaped, spared, late>>

(* They have ended in time: the loop is cancelled, and Reap begins.        *)
ReapOnExit(i) ==
    /\ mode[i] = "draining"
    /\ ~open[i]
    /\ mode' = [mode EXCEPT ![i] = "exiting"]
    /\ StopLoop(i)
    /\ Look(i)
    /\ late' = Forget(i, Kinds)
    /\ UNCHANGED <<store, starts, open, deploy, stack, excused, spared>>

(* Nothing of a process is left but what it did to the host.               *)
Down(i) ==
    /\ mode' = [mode EXCEPT ![i] = "down"]
    /\ open' = [open EXCEPT ![i] = FALSE]
    /\ deploy' = [deploy EXCEPT ![i] = [e \in EnvIds |-> None]]
    /\ UNCHANGED <<store, starts, stack, reaped, spared, late>>

(* A request is open when the 60 seconds are over: Reap begins with a      *)
(* context that has ended, its first statement is refused, and the process *)
(* ends.                                                                   *)
ReapTooLate(i) ==
    /\ mode[i] = "draining"
    /\ open[i]
    /\ StopLoop(i)
    /\ Down(i)
    /\ excused' = excused \cup {i}
    /\ UNCHANGED reaper

(* `edp reap`, a process of its own, whether the instance is up or not.    *)
(* What came behind an earlier teardown stays until this one gets to it.   *)
ReapCommand(i) ==
    /\ mode[i] \in {"up", "down"}
    /\ UNCHANGED <<store, process, deploy, loop, host, excused, spared, late>>
    /\ Look(i)

(* compose -p edp-<id> down; a failure is a warning.                       *)
TearDownStack(i) ==
    /\ reaper[i].at = "stacks"
    /\ \E e \in reaper[i].todo :
        \/ /\ stack' = [stack EXCEPT ![e] = None]
           /\ reaper' = [reaper EXCEPT ![i].todo = @ \ {e}]
           /\ late' = late \ {<<i, e, "compose">>}
           /\ UNCHANGED excused
        \/ /\ reaper' = [reaper EXCEPT ![i].todo = @ \ {e}, ![i].ok = FALSE]
           /\ excused' = excused \cup {i}
           /\ late' = Forget(i, Kinds)
           /\ UNCHANGED stack
    /\ UNCHANGED <<store, process, deploy, loop, container, reaped, spared>>

(* docker rm -f of all that was listed; what fails leaves some of it.      *)
Sweep(i, names) ==
    /\ reaper[i].at = "stacks"
    /\ reaper[i].todo = {}
    /\ \E gone \in SUBSET names :
        /\ container' = Without(gone)
        /\ \/ /\ reaper[i].ok
              /\ gone = names
              /\ late' = Forget(i, {"container"})
              /\ reaped' = reaped \cup {i}
              /\ excused' = excused \ {i}
           \/ /\ late' = Forget(i, Kinds)
              /\ excused' = excused \cup {i}
              /\ UNCHANGED reaped
    /\ reaper' = [reaper EXCEPT ![i] = NoReap]
    /\ UNCHANGED <<store, process, deploy, loop, stack, spared>>

Of(i) == {n \in ContainerNames : container[n] # None /\ container[n].inst = i}

(* ReapInstance: every container with the instance's label goes.           *)
ReapContainers(i) == Sweep(i, Of(i))

(* The process ends behind Reap, ...                                       *)
Exit(i) ==
    /\ mode[i] = "exiting"
    /\ reaper[i].at = "idle"
    /\ Down(i)
    /\ UNCHANGED <<loop, container, reaper, excused>>

(* ... or at any time: a crash, or SIGTERM without EDP_REAP_ON_EXIT.       *)
Kill(i) ==
    /\ mode[i] # "down"
    /\ Down(i)
    /\ loop' = [loop EXCEPT ![i] = Idle]
    /\ excused' = excused \cup {i}
    /\ reaper' = IF mode[i] = "exiting" THEN [reaper EXCEPT ![i] = NoReap] ELSE reaper
    /\ UNCHANGED container

Restart(i) ==
    /\ mode[i] = "down"
    /\ starts < MaxStarts
    /\ starts' = starts + 1
    /\ mode' = [mode EXCEPT ![i] = "up"]
    /\ reaped' = reaped \ {i}
    /\ reaper' = [reaper EXCEPT ![i].ok = FALSE]
    /\ late' = Forget(i, Kinds)
    /\ UNCHANGED <<store, open, deploy, loop, host, excused, spared>>

-----------------------------------------------------------------------------
Edit(i) == \/ \E row \in Rows : \/ CreateEnv(i, row)
                               \/ \E e \in EnvIds : UpdateEnv(i, e, row)
           \/ \E e \in EnvIds : DeleteEnv(i, e)

Stream(i) == OpenStream(i) \/ CloseStream(i)

Reconcile(i) == \/ ReadEnvs(i) \/ ListForwarders(i) \/ StartForwarder(i)
                \/ StartFails(i) \/ EndRound(i)
                \/ \E e \in EnvIds : RemoveStale(i, e) \/ ClearLeftover(i, e)

Teardown(i) == \/ ReapOnExit(i) \/ ReapTooLate(i) \/ TearDownStack(i)
               \/ ReapContainers(i) \/ Exit(i)

Next == \E i \in Instances :
            \/ Edit(i) \/ Stream(i) \/ Reconcile(i)
            \/ \E e \in EnvIds : MakeRoom(i, e) \/ BringUp(i, e)
            \/ Terminate(i) \/ ReapCommand(i) \/ Teardown(i)
            \/ Kill(i) \/ Restart(i)

Spec == Init /\ [][Next]_vars

(* The loop of an instance that is up goes round, and commands end.        *)
Fairness == \A i \in Instances :
                /\ WF_vars(Reconcile(i))
                /\ \A e \in EnvIds : WF_vars(BringUp(i, e))

FairSpec == Spec /\ Fairness

-----------------------------------------------------------------------------
(* Properties.                                                             *)

Alone(i) == /\ mode[i] = "up" /\ reaper[i].at = "idle"
            /\ \A j \in Instances \ {i} : mode[j] = "down" /\ reaper[j].at = "idle"

Wants(i, e) == SpecOf(env[i][e])

Serves(i, e) == Fwd(e) # None /\ Fwd(e).spec = Wants(i, e) /\ Fwd(e).running

(* An environment without a listen port has no forwarder, and a port that  *)
(* environments ask for is forwarded to one of them.                       *)
Settled(i) ==
    \A e \in EnvIds :
        IF Wants(i, e) = None THEN Fwd(e) = None
        ELSE \E f \in EnvIds : /\ Wants(i, f) # None
                               /\ Listen(Wants(i, f)) = Listen(Wants(i, e))
                               /\ Serves(i, f)

(* A Docker command of the loop fails.                                     *)
CommandFails(i) ==
    \/ ListForwarders(i) /\ loop'[i].at = "idle"
    \/ \E e \in EnvIds : /\ RemoveStale(i, e) \/ ClearLeftover(i, e)
                         /\ container'[ForwarderName[e]] # None
    \/ StartFails(i) /\ container[ForwarderName[loop[i].id]] = None

(* A deployment uses the name of a forwarder, from an environment called   *)
(* fwd-1, say.                                                             *)
TakesForwardersName(i) ==
    \E e, f \in EnvIds : /\ RunContainer(i, e)
                         /\ ContainerName[deploy[i][e].name] = ForwarderName[f]

(* Manager.reconcile: whatever was edited, failed, was contended for or    *)
(* was left by an earlier process, an instance that stays up alone on the  *)
(* host, its commands failing no more and the names of its forwarders left *)
(* alone, ends with the forwarders its environments ask for.               *)
ForwardersConverge ==
    \A i \in Instances :
        /\ <>[]Alone(i)
        /\ <>[][~CommandFails(i) /\ ~TakesForwardersName(i)]_vars
        => <>[]Settled(i)

(* Reap, behind stopWatch: an instance that was told to stop, was not kept *)
(* from tearing down by an open request, met no error and was not killed,  *)
(* leaves no forwarder, and no workload but those that a deployment still  *)
(* running brought up behind the teardown and the stacks of environments   *)
(* that are no longer compose environments.                                *)
ReapIsThorough ==
    \A i \in Instances \ excused : mode[i] = "down" =>
        /\ \A n \in Of(i) : LET c == container[n]
                           IN c.kind = "box" /\ <<i, c.env, "container">> \in late
        /\ \A e \in EnvIds :
              stack[e] = i => <<i, e, "compose">> \in late \/ e \notin ComposeEnvs(i)

(* RemoveContainersByEnv goes by the label: an environment that was        *)
(* renamed, before or during its deployments, never has two containers,    *)
(* unless one could not be removed.                                        *)
OneContainerEach ==
    \A i \in Instances, e \in EnvIds : <<i, e>> \notin spared =>
        Cardinality({n \in ContainerNames : IsBox(n, i, e)}) <= 1

Boxed(i, e) == env[i][e] # None /\ env[i][e].type = "container"

NameOf(i, e) == ContainerName[env[i][e].name]

(* The name an environment's container is to have is not to be had: it is  *)
(* another environment's too or a forwarder's, or a container has it that  *)
(* no deployment removes any more, its environment being deleted, of       *)
(* another type now, or of another instance.                               *)
Withheld(i, e) ==
    LET n == NameOf(i, e)
        c == container[n]
    IN \/ \E f \in EnvIds \ {e} : Boxed(i, f) /\ NameOf(i, f) = n
       \/ \E f \in EnvIds : n = ForwarderName[f]
       \/ c # None /\ ~(c.inst = i /\ Boxed(i, c.env))

(* A Docker command of a deployment fails.                                 *)
DeployFails(i) ==
    \E e \in EnvIds :
        \/ MakeRoom(i, e) /\ <<i, e>> \in spared'
        \/ /\ BringNothingUp(i, e)
           /\ container[ContainerName[deploy[i][e].name]] = None

(* deployContainer: whatever was renamed, in whatever order environments   *)
(* are deployed, whoever finds its name taken meanwhile: an instance alone *)
(* on the host, that goes on deploying its environments, its commands      *)
(* failing no more, brings up a container for each whose name is to be     *)
(* had.                                                                    *)
ContainersConverge ==
    \A i \in Instances, e \in EnvIds :
        /\ <>[]Alone(i)
        /\ <>[][~DeployFails(i)]_vars
        /\ \A f \in EnvIds : <>[]~Boxed(i, f) \/ []<><<MakeRoom(i, f)>>_vars
        => \/ <>[](~Boxed(i, e) \/ Withheld(i, e))
           \/ []<>(Boxed(i, e) /\ IsBox(NameOf(i, e), i, e))

-----------------------------------------------------------------------------
(* What the documentation says and the code does not do.                   *)

(* edp/README.md:291 "running several edp instances on one host, reaping   *)
(* one leaves the others untouched".                                       *)
ReapLeavesTheOthers ==
    [][\A i, j \in Instances, e \in EnvIds :
            i # j /\ TearDownStack(i) /\ stack[e] = j => stack'[e] = j]_vars
=============================================================================
