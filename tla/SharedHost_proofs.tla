-------------------------- MODULE SharedHost_proofs --------------------------
(***************************************************************************)
(* Proofs about SharedHost: of its types, of what a teardown leaves, and   *)
(* of the containers an environment has.                                   *)
(***************************************************************************)
EXTENDS SharedHost, FiniteSetTheorems, TLAPS

(* The loop of the forwarders runs only while the instance serves, and a   *)
(* sidecar it is about to start is one it wants.                           *)
LoopEnds(i) ==
    /\ loop[i].at # "idle" => Serving(i)
    /\ loop[i].at = "start" => /\ loop[i].id # None
                               /\ loop[i].want[loop[i].id] # None

(* Deployments end with the process.                                       *)
DeploysEnd(i) == mode[i] = "down" => \A e \in EnvIds : deploy[i][e] = None

(* What ReapIsThorough says of one instance.                               *)
NoContainer(i) ==
    \A n \in Of(i) : LET c == container[n]
                     IN c.kind = "box" /\ <<i, c.env, "container">> \in late

NoStack(i) ==
    \A e \in EnvIds : stack[e] = i => <<i, e, "compose">> \in late \/ e \notin ComposeEnvs(i)

Thorough(i) == NoContainer(i) /\ NoStack(i)

(* A teardown that is clean so far has only the stacks it lists before it. *)
StacksAhead(i) ==
    \A e \in EnvIds : stack[e] = i =>
        \/ <<i, e, "compose">> \in late
        \/ e \notin ComposeEnvs(i)
        \/ e \in reaper[i].todo

(* A clean teardown was begun when the instance served no more and has     *)
(* been thorough; any other excuses the instance.                          *)
TornDown(i) ==
    /\ i \in reaped => ~Serving(i) /\ reaper[i].at = "idle" /\ Thorough(i)
    /\ reaper[i].at = "stacks" /\ reaper[i].ok => ~Serving(i) /\ StacksAhead(i)
    /\ reaper[i].at = "stacks" /\ ~reaper[i].ok /\ ~Serving(i) => i \in excused
    /\ mode[i] = "exiting" /\ reaper[i].at = "idle" => i \in reaped \cup excused
    /\ mode[i] = "down" /\ i \notin excused => Thorough(i)

(* Room was made for the container that is to be run.                      *)
RoomIsMade(i, e) ==
    /\ <<i, e>> \notin spared
    /\ deploy[i][e] # None /\ deploy[i][e].type = "container"
    => \A n \in ContainerNames : ~IsBox(n, i, e)

OneBox(i, e) ==
    <<i, e>> \notin spared =>
        \A m, n \in ContainerNames : IsBox(m, i, e) /\ IsBox(n, i, e) => m = n

IInv == /\ TypeOK
        /\ \A i \in Instances : /\ LoopEnds(i) /\ DeploysEnd(i) /\ TornDown(i)
                                /\ \A e \in EnvIds : RoomIsMade(i, e) /\ OneBox(i, e)

-----------------------------------------------------------------------------
(* Docker commands.                                                        *)

Things == Boxes \cup Forwarders \cup {None}

(* What the loop's commands do to the containers: what is there goes, a    *)
(* forwarder of the instance comes, nothing else.                          *)
OnlyForwarders(i) ==
    /\ container' \in [ContainerNames -> Things]
    /\ \A n \in ContainerNames :
          \/ container'[n] \in {container[n], None}
          \/ container'[n] \in Forwarders /\ container'[n].inst = i

(* What is removed is gone, the rest stays: Docker and every teardown.     *)
LEMMA WithoutRemoves ==
    ASSUME TypeOK, NEW names
    PROVE  /\ Without(names) \in [ContainerNames -> Things]
           /\ \A n \in ContainerNames :
                 Without(names)[n] = IF n \in names THEN None ELSE container[n]
  BY DEF TypeOK, Without, Things

(* A forwarder's sidecar is of the instance that starts it, and its name   *)
(* was free.                                                               *)
LEMMA SidecarIsOwn ==
    ASSUME TypeOK, NEW i \in Instances, LoopEnds(i), loop[i].at = "start", Sidecar(i)
    PROVE  OnlyForwarders(i)
<1> DEFINE e == loop[i].id
           box == [kind |-> "forwarder", inst |-> i, env |-> e,
                   spec |-> loop[i].want[e],
                   running |-> ~PortTaken(loop[i].want[e])]
<1>1. e \in EnvIds /\ loop[i].want[e] \in Specs
  BY DEF TypeOK, LoopEnds
<1>2. ForwarderName[e] \in ContainerNames
  BY <1>1 DEF ContainerNames
<1>3. PortTaken(loop[i].want[e]) \in BOOLEAN
  BY DEF PortTaken
<1>4. box \in Forwarders /\ box.inst = i
  BY <1>1, <1>3 DEF Forwarders
<1>5. container' = [container EXCEPT ![ForwarderName[e]] = box]
  BY DEF Sidecar, NewSidecar
<1> QED
  BY <1>2, <1>4, <1>5 DEF TypeOK, OnlyForwarders, Things

LEMMA RemovingForwarders ==
    ASSUME TypeOK, NEW i \in Instances, NEW e \in EnvIds,
           container' \in {container, Without({ForwarderName[e]})}
    PROVE  OnlyForwarders(i)
  BY WithoutRemoves DEF TypeOK, OnlyForwarders, Things

(* stopWatch: the loop is over.                                            *)
LEMMA StoppingTheLoop ==
    ASSUME TypeOK, NEW i \in Instances, LoopEnds(i), StopLoop(i)
    PROVE  OnlyForwarders(i) /\ loop' = [loop EXCEPT ![i] = Idle]
<1>1. CASE loop[i].at = "start" /\ Sidecar(i)
  BY <1>1, SidecarIsOwn DEF StopLoop
<1>2. CASE UNCHANGED container
  BY <1>2 DEF TypeOK, OnlyForwarders, Things, StopLoop
<1> QED
  BY <1>1, <1>2 DEF StopLoop

-----------------------------------------------------------------------------
(* The loop of an instance.                                                *)

Rounds == [at : {"idle", "list", "apply", "start"}, want : [EnvIds -> Specs \cup {None}],
           have : [EnvIds -> Forwarders \cup {None}], id : EnvIds \cup {None}]

LEMMA IdleIsARound == Idle \in Rounds
  BY DEF Idle, Rounds

(* A round that moves on with what it has read.                            *)
LEMMA MovingOn ==
    ASSUME NEW A, NEW W, NEW H, NEW D, NEW r \in [at : A, want : W, have : H, id : D],
           NEW a \in A, NEW w \in W, NEW h \in H
    PROVE  /\ [r EXCEPT !.at = a, !.want = w] \in [at : A, want : W, have : H, id : D]
           /\ [r EXCEPT !.at = a, !.have = h] \in [at : A, want : W, have : H, id : D]
           /\ [r EXCEPT !.at = a, !.want = w].at = a
           /\ [r EXCEPT !.at = a, !.have = h].at = a
  OBVIOUS

LEMMA WantsAreSpecs ==
    ASSUME SharedHostAssumption, NEW row \in Rows \cup {None}
    PROVE  SpecOf(row) \in Specs \cup {None}
  BY DEF SpecOf, Specs

LEMMA FwdIsAForwarder ==
    ASSUME TypeOK, NEW e \in EnvIds
    PROVE  Fwd(e) \in Forwarders \cup {None}
<1>1. ForwarderName[e] \in ContainerNames
  BY DEF ContainerNames
<1> QED
  BY <1>1 DEF TypeOK, Fwd, Boxes

RoundStep(i) ==
    /\ Serving(i)
    /\ OnlyForwarders(i)
    /\ loop' \in [Instances -> Rounds]
    /\ \A j \in Instances \ {i} : loop'[j] = loop[j]
    /\ loop'[i].at = "start" => /\ loop'[i].id # None
                                /\ loop'[i].want[loop'[i].id] # None
    /\ UNCHANGED <<store, process, deploy, reaper, stack, history>>

(* A round of the loop changes nothing but where it is and the sidecars.   *)
LEMMA RoundsAreRounds ==
    ASSUME SharedHostAssumption, TypeOK, NEW i \in Instances, LoopEnds(i), Reconcile(i)
    PROVE  RoundStep(i)
<1>0. loop \in [Instances -> Rounds]
  BY DEF TypeOK, Rounds
<1>9. loop[i] \in Rounds
  BY <1>0
<1>1. UNCHANGED container => OnlyForwarders(i)
  BY DEF TypeOK, OnlyForwarders, Things
<1>2. CASE ReadEnvs(i)
  <2> DEFINE want == [e \in EnvIds |-> SpecOf(env[i][e])]
  <2>1. want \in [EnvIds -> Specs \cup {None}]
    BY WantsAreSpecs DEF TypeOK
  <2>2. loop' = [loop EXCEPT ![i] = [loop[i] EXCEPT !.at = "list", !.want = want]]
    BY <1>0, <1>2 DEF ReadEnvs
  <2> HIDE DEF want
  <2>3. [loop[i] EXCEPT !.at = "list", !.want = want] \in Rounds
    BY <1>9, <2>1 DEF Rounds
  <2>4. loop'[i].at = "list"
    BY <1>0, <2>2
  <2> QED
    BY <1>0, <1>1, <1>2, <2>2, <2>3, <2>4 DEF RoundStep, ReadEnvs, Looping, host
<1>3. CASE ListForwarders(i)
  <2> DEFINE have == [e \in EnvIds |-> Fwd(e)]
           seen == [loop[i] EXCEPT !.at = "apply", !.have = have]
  <2>1. have \in [EnvIds -> Forwarders \cup {None}]
    BY FwdIsAForwarder
  <2>2. loop' \in {[loop EXCEPT ![i] = seen], [loop EXCEPT ![i] = Idle]}
    BY <1>0, <1>3 DEF ListForwarders
  <2> HIDE DEF have
  <2>3. seen \in Rounds /\ seen.at = "apply"
    BY <1>9, <2>1 DEF Rounds
  <2>4. Idle.at = "idle"
    BY DEF Idle
  <2> HIDE DEF seen
  <2> QED
    BY <1>0, <1>1, <1>3, <2>2, <2>3, <2>4, IdleIsARound DEF RoundStep,
        ListForwarders, Looping, host
<1>4. CASE StartForwarder(i)
  BY <1>0, <1>4 DEF StartForwarder, NextForwarder, Rounds, LoopEnds
<1>5. CASE StartFails(i)
  BY <1>0, <1>1, <1>5 DEF StartFails, NextForwarder, Rounds, LoopEnds
<1>6. CASE EndRound(i)
  <2>1. Idle.at = "idle"
    BY DEF Idle
  <2> QED
    BY <1>0, <1>1, <1>6, <2>1, IdleIsARound DEF RoundStep, EndRound, Looping, host
<1>7. ASSUME NEW e \in EnvIds, RemoveStale(i, e) PROVE RoundStep(i)
  <2> DEFINE less == [loop[i] EXCEPT !.have = [loop[i].have EXCEPT ![e] = None]]
  <2>1. loop' = [loop EXCEPT ![i] = less]
    BY <1>0, <1>7 DEF RemoveStale
  <2>2. less \in Rounds /\ less.at = "apply"
    BY <1>0, <1>7 DEF RemoveStale, Rounds
  <2> HIDE DEF less
  <2> QED
    BY <1>0, <1>7, <2>1, <2>2, RemovingForwarders DEF RoundStep, RemoveStale,
        RemoveForwarder, Looping
<1>8. ASSUME NEW e \in EnvIds, ClearLeftover(i, e) PROVE RoundStep(i)
  <2> DEFINE next == [loop[i] EXCEPT !.at = "start", !.id = e,
                                     !.have = [loop[i].have EXCEPT ![e] = None]]
  <2>1. loop' = [loop EXCEPT ![i] = next]
    BY <1>0, <1>8 DEF ClearLeftover, Rounds
  <2>2. next \in Rounds /\ next.id = e /\ next.want = loop[i].want
    BY <1>0, <1>8 DEF Rounds
  <2>3. e # None /\ next.want[e] # None
    BY <1>8, <2>2 DEF ClearLeftover, Missing
  <2> HIDE DEF next
  <2>4. loop'[i] = next /\ loop' \in [Instances -> Rounds]
    BY <1>0, <2>1, <2>2
  <2>5. OnlyForwarders(i)
    BY <1>8, RemovingForwarders DEF ClearLeftover, RemoveForwarder
  <2> QED
    BY <1>8, <2>1, <2>2, <2>3, <2>4, <2>5 DEF RoundStep, ClearLeftover,
        RemoveForwarder, Looping
<1> QED
  BY <1>2, <1>3, <1>4, <1>5, <1>6, <1>7, <1>8 DEF Reconcile

-----------------------------------------------------------------------------
(* Types.                                                                  *)

EditStep(i) ==
    /\ Serving(i)
    /\ env' \in [Instances -> [EnvIds -> Rows \cup {None}]]
    /\ \A j \in Instances \ {i} : env'[j] = env[j]
    /\ nextId' \in [Instances -> 1 .. MaxEnvs + 1]
    /\ edits' \in 0 .. MaxEdits
    /\ UNCHANGED <<process, deploy, loop, reaper, host, history>>

(* An edit is made while the instance serves, and is to its store alone.   *)
LEMMA EditsAreEdits ==
    ASSUME SharedHostAssumption, TypeOK, NEW i \in Instances, Edit(i)
    PROVE  EditStep(i)
<1>1. ASSUME NEW row \in Rows, CreateEnv(i, row) PROVE EditStep(i)
  BY <1>1 DEF CreateEnv, Write, TypeOK, EnvIds, EditStep
<1>2. ASSUME NEW row \in Rows, NEW e \in EnvIds, UpdateEnv(i, e, row) PROVE EditStep(i)
  BY <1>2 DEF UpdateEnv, Write, TypeOK, EditStep
<1>3. ASSUME NEW e \in EnvIds, DeleteEnv(i, e) PROVE EditStep(i)
  BY <1>3 DEF DeleteEnv, Write, TypeOK, EditStep
<1> QED
  BY <1>1, <1>2, <1>3 DEF Edit

(* A step, as far as the proofs tell them apart.                           *)
Step(i) ==
    \/ EditStep(i) \/ Stream(i) \/ RoundStep(i)
    \/ \E e \in EnvIds : \/ MakeRoom(i, e) \/ BringNothingUp(i, e)
                         \/ RunContainer(i, e) \/ ComposeUp(i, e)
    \/ Terminate(i) \/ ReapCommand(i) \/ ReapOnExit(i) \/ ReapTooLate(i)
    \/ TearDownStack(i) \/ ReapContainers(i) \/ Exit(i) \/ Kill(i) \/ Restart(i)

LEMMA NextIsAStep ==
    ASSUME SharedHostAssumption, IInv, Next
    PROVE  \E i \in Instances : Step(i)
<1>1. PICK i \in Instances :
            \/ Edit(i) \/ Stream(i) \/ Reconcile(i)
            \/ \E e \in EnvIds : MakeRoom(i, e) \/ BringUp(i, e)
            \/ Terminate(i) \/ ReapCommand(i) \/ Teardown(i)
            \/ Kill(i) \/ Restart(i)
  BY DEF Next
<1>2. TypeOK /\ LoopEnds(i)
  BY DEF IInv
<1>3. Edit(i) => EditStep(i)
  BY <1>2, EditsAreEdits
<1>4. Reconcile(i) => RoundStep(i)
  BY <1>2, RoundsAreRounds
<1> QED
  BY <1>1, <1>3, <1>4 DEF Step, BringUp, Teardown

(* The initial state.                                                      *)
LEMMA Inits ==
    ASSUME SharedHostAssumption, Init
    PROVE  IInv
<1>1. TypeOK
  BY IdleIsARound DEF Init, TypeOK, Rounds, NoReap
<1>2. \A i \in Instances : /\ mode[i] = "up" /\ loop[i].at = "idle"
                           /\ reaper[i].at = "idle" /\ i \notin reaped
                           /\ \A e \in EnvIds : deploy[i][e] = None
  BY DEF Init, Idle, NoReap
<1>3. \A n \in ContainerNames : container[n] = None
  BY DEF Init
<1> QED
  BY <1>1, <1>2, <1>3 DEF IInv, LoopEnds, DeploysEnd, TornDown, RoomIsMade,
      OneBox, IsBox

LEMMA ThingsHaveTypes ==
    ASSUME NEW i \in Instances, NEW e \in EnvIds
    PROVE  [kind |-> "box", inst |-> i, env |-> e] \in Things
  BY DEF Things, Boxes

(* What is noted of a workload is an instance, an environment and a kind.  *)
LEMMA LateHasATriple ==
    ASSUME TypeOK, NEW i \in Instances, NEW e \in EnvIds, NEW kind \in Kinds
    PROVE  Behind(i, e, kind) \subseteq Instances \X EnvIds \X Kinds
  BY DEF TypeOK, Behind

Reaps == [at : {"idle", "stacks"}, todo : SUBSET EnvIds, ok : BOOLEAN]

(* A teardown is marked for an error, and comes to the next stack.         *)
LEMMA ReapsAreReaps ==
    ASSUME NEW r \in Reaps, NEW e
    PROVE  /\ [r EXCEPT !.ok = FALSE] \in Reaps
           /\ [r EXCEPT !.todo = @ \ {e}] \in Reaps
           /\ [r EXCEPT !.todo = @ \ {e}, !.ok = FALSE] \in Reaps
<1>1. [r EXCEPT !.ok = FALSE] \in Reaps
  BY DEF Reaps
<1>2. [r EXCEPT !.todo = @ \ {e}] \in Reaps
  BY DEF Reaps
<1>3. [r EXCEPT !.todo = @ \ {e}, !.ok = FALSE] \in Reaps
  BY DEF Reaps
<1> QED
  BY <1>1, <1>2, <1>3

LEMMA TypesStay ==
    ASSUME SharedHostAssumption, IInv, NEW i \in Instances, Step(i)
    PROVE  TypeOK'
<1>1. TypeOK /\ LoopEnds(i)
  BY DEF IInv
<1>2. loop \in [Instances -> Rounds] /\ Idle \in Rounds
  BY <1>1, IdleIsARound DEF TypeOK, Rounds
<1>3. reaper \in [Instances -> Reaps] /\ reaper[i] \in Reaps
  BY <1>1 DEF TypeOK, Reaps
<1>a. CASE EditStep(i)
  BY <1>1, <1>a DEF EditStep, TypeOK, process, host, history
<1>b. CASE Stream(i)
  BY <1>1, <1>b DEF Stream, OpenStream, CloseStream, TypeOK, store, host, history
<1>c. CASE RoundStep(i)
  BY <1>1, <1>c DEF RoundStep, OnlyForwarders, Rounds, TypeOK, store, process,
      history
<1>d. ASSUME NEW e \in EnvIds, MakeRoom(i, e) PROVE TypeOK'
  <2>1. container' \in [ContainerNames -> Things]
    BY <1>1, <1>d, WithoutRemoves DEF MakeRoom, TypeOK, Things
  <2>2. spared' \subseteq Instances \X EnvIds
    BY <1>1, <1>d DEF MakeRoom, TypeOK
  <2>3. stack' \in [EnvIds -> Instances \cup {None}]
    BY <1>1, <1>d DEF MakeRoom, TypeOK
  <2>4. deploy' \in [Instances -> [EnvIds -> Rows \cup {None}]]
    BY <1>1, <1>d DEF MakeRoom, TypeOK
  <2> QED
    BY <1>1, <1>d, <2>1, <2>2, <2>3, <2>4 DEF MakeRoom, Things, TypeOK, store,
        process
<1>e. ASSUME NEW e \in EnvIds, BringNothingUp(i, e) PROVE TypeOK'
  BY <1>1, <1>e DEF BringNothingUp, TypeOK, store, process, host, history
<1>f. ASSUME NEW e \in EnvIds, RunContainer(i, e) PROVE TypeOK'
  <2>1. container' \in [ContainerNames -> Things]
    BY <1>1, <1>f, ThingsHaveTypes DEF RunContainer, TypeOK, Things
  <2>2. deploy' \in [Instances -> [EnvIds -> Rows \cup {None}]]
    BY <1>1, <1>f DEF RunContainer, TypeOK
  <2>3. late' \subseteq Instances \X EnvIds \X Kinds
    BY <1>1, <1>f, LateHasATriple DEF RunContainer, Kinds
  <2> QED
    BY <1>1, <1>f, <2>1, <2>2, <2>3 DEF RunContainer, Things, TypeOK, store,
        process
<1>g. ASSUME NEW e \in EnvIds, ComposeUp(i, e) PROVE TypeOK'
  <2>1. late' \subseteq Instances \X EnvIds \X Kinds
    BY <1>1, <1>g, LateHasATriple DEF ComposeUp, Kinds
  <2> QED
    BY <1>1, <1>g, <2>1 DEF ComposeUp, TypeOK, store, process
<1>h. CASE Terminate(i)
  BY <1>1, <1>h DEF Terminate, TypeOK, store, host
<1>i. CASE ReapCommand(i)
  BY <1>1, <1>i DEF ReapCommand, Look, ComposeEnvs, TypeOK, store, process, host
<1>j. CASE ReapOnExit(i)
  <2>1. OnlyForwarders(i) /\ loop' = [loop EXCEPT ![i] = Idle]
    BY <1>1, <1>j, StoppingTheLoop DEF ReapOnExit
  <2>2. loop' \in [Instances -> Rounds]
    BY <1>2, <2>1
  <2> QED
    BY <1>1, <1>j, <2>1, <2>2 DEF ReapOnExit, Look, ComposeEnvs, Forget,
        OnlyForwarders, Rounds, TypeOK, store
<1>k. CASE ReapTooLate(i)
  <2>1. OnlyForwarders(i) /\ loop' = [loop EXCEPT ![i] = Idle]
    BY <1>1, <1>k, StoppingTheLoop DEF ReapTooLate
  <2>2. loop' \in [Instances -> Rounds]
    BY <1>2, <2>1
  <2> QED
    BY <1>1, <1>k, <2>1, <2>2 DEF ReapTooLate, Down, OnlyForwarders, Rounds,
        TypeOK, store
<1>l. CASE TearDownStack(i)
  <2>1. reaper' \in [Instances -> Reaps]
    <3>1. PICK e \in reaper[i].todo :
              reaper' \in {[reaper EXCEPT ![i].todo = @ \ {e}],
                          [reaper EXCEPT ![i].todo = @ \ {e}, ![i].ok = FALSE]}
      BY <1>l DEF TearDownStack
    <3> DEFINE done   == [reaper[i] EXCEPT !.todo = @ \ {e}]
               failed == [reaper[i] EXCEPT !.todo = @ \ {e}, !.ok = FALSE]
    <3>2. reaper' \in {[reaper EXCEPT ![i] = done], [reaper EXCEPT ![i] = failed]}
      BY <1>3, <3>1
    <3>3. done \in Reaps /\ failed \in Reaps
      BY <1>3, ReapsAreReaps
    <3> HIDE DEF done, failed
    <3> QED
      BY <1>3, <3>2, <3>3
  <2>2. stack' \in [EnvIds -> Instances \cup {None}]
    BY <1>1, <1>l DEF TearDownStack, TypeOK
  <2>3. late' \subseteq late /\ excused' \subseteq excused \cup {i}
    BY <1>l DEF TearDownStack, Forget
  <2> QED
    BY <1>1, <1>l, <2>1, <2>2, <2>3 DEF TearDownStack, Reaps, TypeOK, store,
        process
<1>m. CASE ReapContainers(i)
  BY <1>1, <1>m, WithoutRemoves DEF ReapContainers, Sweep, Forget, NoReap, TypeOK,
      store, process
<1>n. CASE Exit(i)
  BY <1>1, <1>n DEF Exit, Down, TypeOK, store
<1>o. CASE Kill(i)
  <2>1. loop' \in [Instances -> Rounds]
    BY <1>2, <1>o DEF Kill
  <2> QED
    BY <1>1, <1>o, <2>1 DEF Kill, Down, NoReap, Rounds, TypeOK, store
<1>p. CASE Restart(i)
  <2>1. reaper' \in [Instances -> Reaps]
    BY <1>1, <1>3, <1>p, ReapsAreReaps DEF Restart
  <2>2. starts' \in 0 .. MaxStarts
    BY <1>1, <1>p DEF Restart, TypeOK
  <2> QED
    BY <1>1, <1>p, <2>1, <2>2 DEF Restart, Reaps, Forget, TypeOK, store, host
<1> QED
  BY <1>a, <1>b, <1>c, <1>d, <1>e, <1>f, <1>g, <1>h, <1>i, <1>j, <1>k, <1>l, <1>m,
      <1>n, <1>o, <1>p DEF Step

-----------------------------------------------------------------------------
(* The loop and the deployments end with the process.                      *)

LEMMA LoopsStay ==
    ASSUME IInv, NEW i \in Instances, Step(i), NEW j \in Instances
    PROVE  LoopEnds(j)' /\ DeploysEnd(j)'
<1>1. TypeOK /\ LoopEnds(i) /\ LoopEnds(j) /\ DeploysEnd(j)
  BY DEF IInv
<1>2. Idle.at = "idle"
  BY DEF Idle
<1> USE DEF LoopEnds, DeploysEnd, Serving
<1>a. CASE EditStep(i)
  BY <1>1, <1>a DEF EditStep, process
<1>b. CASE Stream(i)
  BY <1>1, <1>b DEF Stream, OpenStream, CloseStream
<1>c. CASE RoundStep(i)
  BY <1>1, <1>c DEF RoundStep, process
<1>d. ASSUME NEW e \in EnvIds, \/ MakeRoom(i, e) \/ BringNothingUp(i, e)
                               \/ RunContainer(i, e) \/ ComposeUp(i, e)
      PROVE  LoopEnds(j)' /\ DeploysEnd(j)'
  BY <1>1, <1>d DEF MakeRoom, BringNothingUp, RunContainer, ComposeUp, process,
      TypeOK
<1>h. CASE Terminate(i)
  BY <1>1, <1>h DEF Terminate
<1>i. CASE ReapCommand(i) \/ TearDownStack(i) \/ ReapContainers(i)
  BY <1>1, <1>i DEF ReapCommand, TearDownStack, ReapContainers, Sweep, process
<1>j. CASE ReapOnExit(i)
  <2>1. loop' = [loop EXCEPT ![i] = Idle]
    BY <1>1, <1>j, StoppingTheLoop DEF ReapOnExit
  <2> QED
    BY <1>1, <1>2, <1>j, <2>1 DEF ReapOnExit, TypeOK
<1>k. CASE ReapTooLate(i)
  <2>1. loop' = [loop EXCEPT ![i] = Idle]
    BY <1>1, <1>k, StoppingTheLoop DEF ReapTooLate
  <2> QED
    BY <1>1, <1>2, <1>k, <2>1 DEF ReapTooLate, Down, TypeOK
<1>n. CASE Exit(i)
  BY <1>1, <1>n DEF Exit, Down, TypeOK
<1>o. CASE Kill(i)
  BY <1>1, <1>2, <1>o DEF Kill, Down, TypeOK
<1>p. CASE Restart(i)
  BY <1>1, <1>p DEF Restart
<1> QED
  BY <1>a, <1>b, <1>c, <1>d, <1>h, <1>i, <1>j, <1>k, <1>n, <1>o, <1>p DEF Step

-----------------------------------------------------------------------------
(* Teardowns.                                                              *)

(* A step leaves an instance's store, process and teardown alone and takes *)
(* from the host at most.                                                  *)
Apart(j) ==
    /\ mode'[j] = mode[j] /\ reaper'[j] = reaper[j] /\ env'[j] = env[j]
    /\ (j \in reaped') = (j \in reaped) /\ (j \in excused') = (j \in excused)
    /\ \A e \in EnvIds, kind \in Kinds : <<j, e, kind>> \in late => <<j, e, kind>> \in late'
    /\ \A n \in ContainerNames :
          container'[n] # None /\ container'[n].inst = j => container'[n] = container[n]
    /\ \A e \in EnvIds : stack'[e] = j => stack[e] = j

(* Then what its teardown came to remains so.                              *)
LEMMA TeardownsApart ==
    ASSUME TypeOK, NEW j \in Instances, Apart(j), TornDown(j)
    PROVE  TornDown(j)'
<1>1. NoContainer(j) => NoContainer(j)'
  <2> SUFFICES ASSUME NoContainer(j), NEW n \in Of(j)'
               PROVE  container'[n].kind = "box" /\ <<j, container'[n].env, "container">> \in late'
    BY DEF NoContainer
  <2>1. n \in ContainerNames /\ container'[n] = container[n] /\ n \in Of(j)
    BY DEF Apart, Of
  <2>2. container[n].kind = "box" /\ <<j, container[n].env, "container">> \in late
    BY <2>1 DEF NoContainer
  <2>3. container[n].env \in EnvIds
    BY <2>1 DEF TypeOK, Of, Boxes, Forwarders
  <2> QED
    BY <2>1, <2>2, <2>3 DEF Apart, Kinds
<1>2. ComposeEnvs(j)' = ComposeEnvs(j)
  BY DEF Apart, ComposeEnvs
<1>3. NoStack(j) => NoStack(j)'
  BY <1>2 DEF Apart, NoStack, Kinds
<1>4. StacksAhead(j) => StacksAhead(j)'
  BY <1>2 DEF Apart, StacksAhead, Kinds
<1> QED
  BY <1>1, <1>3, <1>4 DEF Apart, TornDown, Thorough, Serving

(* A step of an instance, seen from another.                               *)
LEMMA StepsAreApart ==
    ASSUME SharedHostAssumption, IInv, NEW i \in Instances, Step(i),
           NEW j \in Instances \ {i}
    PROVE  Apart(j)
<1>1. TypeOK /\ LoopEnds(i)
  BY DEF IInv
<1>2. OnlyForwarders(i) => \A n \in ContainerNames :
          container'[n] # None /\ container'[n].inst = j => container'[n] = container[n]
  BY DEF OnlyForwarders
<1>3. \A names : \A n \in ContainerNames :
          Without(names)[n] # None => Without(names)[n] = container[n]
  BY <1>1, WithoutRemoves
<1> USE DEF Apart
<1>a. CASE EditStep(i)
  BY <1>1, <1>a DEF EditStep, process, host, history
<1>b. CASE Stream(i)
  BY <1>1, <1>b DEF Stream, OpenStream, CloseStream, store, host, history
<1>c. CASE RoundStep(i)
  BY <1>1, <1>2, <1>c DEF RoundStep, store, process, history
<1>d. ASSUME NEW e \in EnvIds, MakeRoom(i, e) PROVE Apart(j)
  <2>1. container' = container \/ \E names : container' = Without(names)
    BY <1>d DEF MakeRoom
  <2>2. \A f \in EnvIds : stack'[f] = j => stack[f] = j
    BY <1>1, <1>d DEF MakeRoom, TypeOK
  <2> QED
    BY <1>1, <1>3, <1>d, <2>1, <2>2 DEF MakeRoom, store, process
<1>e. ASSUME NEW e \in EnvIds, BringNothingUp(i, e) PROVE Apart(j)
  BY <1>1, <1>e DEF BringNothingUp, store, process, host, history
<1>f. ASSUME NEW e \in EnvIds, RunContainer(i, e) PROVE Apart(j)
  BY <1>1, <1>f DEF RunContainer, Behind, store, process
<1>g. ASSUME NEW e \in EnvIds, ComposeUp(i, e) PROVE Apart(j)
  BY <1>1, <1>g DEF ComposeUp, Behind, store, process
<1>h. CASE Terminate(i)
  BY <1>1, <1>h DEF Terminate, store, host
<1>i. CASE ReapCommand(i)
  BY <1>1, <1>i DEF ReapCommand, Look, store, process, host
<1>j. CASE ReapOnExit(i)
  <2>1. OnlyForwarders(i)
    BY <1>1, <1>j, StoppingTheLoop DEF ReapOnExit
  <2> QED
    BY <1>1, <1>2, <1>j, <2>1 DEF ReapOnExit, Look, Forget, store
<1>k. CASE ReapTooLate(i)
  <2>1. OnlyForwarders(i)
    BY <1>1, <1>k, StoppingTheLoop DEF ReapTooLate
  <2> QED
    BY <1>1, <1>2, <1>k, <2>1 DEF ReapTooLate, Down, store
<1>l. CASE TearDownStack(i)
  <2>1. \A f \in EnvIds : stack'[f] = j => stack[f] = j
    BY <1>1, <1>l DEF TearDownStack, TypeOK
  <2> QED
    BY <1>1, <1>l, <2>1 DEF TearDownStack, Forget, TypeOK, store, process
<1>m. CASE ReapContainers(i)
  BY <1>1, <1>3, <1>m DEF ReapContainers, Sweep, Forget, store, process
<1>n. CASE Exit(i)
  BY <1>1, <1>n DEF Exit, Down, store
<1>o. CASE Kill(i)
  BY <1>1, <1>o DEF Kill, Down, store
<1>p. CASE Restart(i)
  BY <1>1, <1>p DEF Restart, Forget, store, host
<1> QED
  BY <1>a, <1>b, <1>c, <1>d, <1>e, <1>f, <1>g, <1>h, <1>i, <1>j, <1>k, <1>l, <1>m,
      <1>n, <1>o, <1>p DEF Step

(* While an instance serves nothing is claimed of its teardowns.           *)
LEMMA NoneWhileItServes ==
    ASSUME TypeOK, NEW i \in Instances, TornDown(i), Serving(i), Serving(i)',
           UNCHANGED <<reaper, reaped>>
    PROVE  TornDown(i)'
  BY DEF TornDown, Serving

(* A step of an instance, seen from itself: the teardown first, ...        *)
LEMMA ReapingStacks ==
    ASSUME SharedHostAssumption, TypeOK, NEW i \in Instances, TornDown(i), TearDownStack(i)
    PROVE  TornDown(i)'
<1>1. PICK e \in reaper[i].todo :
        \/ /\ stack' = [stack EXCEPT ![e] = None]
           /\ reaper' = [reaper EXCEPT ![i].todo = @ \ {e}]
           /\ late' = late \ {<<i, e, "compose">>}
           /\ UNCHANGED excused
        \/ /\ reaper' = [reaper EXCEPT ![i].todo = @ \ {e}, ![i].ok = FALSE]
           /\ excused' = excused \cup {i}
           /\ late' = Forget(i, Kinds)
           /\ UNCHANGED stack
  BY DEF TearDownStack
<1>2. /\ reaper[i].at = "stacks"
      /\ UNCHANGED <<env, mode, container, reaped>>
  BY DEF TearDownStack, store, process
<1>3. i \notin reaped
  BY <1>2 DEF TornDown
<1>4. reaper'[i].at = "stacks" /\ reaper'[i].todo = reaper[i].todo \ {e}
  BY <1>1, <1>2 DEF TypeOK
<1>5. CASE excused' = excused \cup {i} /\ reaper'[i].ok = FALSE
  BY <1>2, <1>3, <1>4, <1>5 DEF TornDown
<1>6. CASE /\ stack' = [stack EXCEPT ![e] = None]
           /\ reaper' = [reaper EXCEPT ![i].todo = @ \ {e}]
           /\ late' = late \ {<<i, e, "compose">>}
           /\ UNCHANGED excused
  <2>1. reaper'[i].ok = reaper[i].ok
    BY <1>6
  <2>2. \A f \in EnvIds : stack'[f] = i => stack[f] = i /\ f # e
    BY <1>6 DEF TypeOK
  <2>3. \A f \in EnvIds : f # e /\ <<i, f, "compose">> \in late => <<i, f, "compose">> \in late'
    BY <1>6
  <2>4. \A f : <<i, f, "container">> \in late => <<i, f, "container">> \in late'
    BY <1>6
  <2>5. StacksAhead(i) => StacksAhead(i)'
    BY <1>2, <1>4, <2>2, <2>3 DEF StacksAhead, ComposeEnvs
  <2>6. Thorough(i) => Thorough(i)'
    BY <1>2, <2>2, <2>3, <2>4 DEF Thorough, NoContainer, NoStack, Of, ComposeEnvs
  <2> QED
    BY <1>2, <1>3, <1>4, <1>6, <2>1, <2>5, <2>6 DEF TornDown, Serving
<1>7. reaper' = [reaper EXCEPT ![i].todo = @ \ {e}, ![i].ok = FALSE] => reaper'[i].ok = FALSE
  BY DEF TypeOK
<1> QED
  BY <1>1, <1>5, <1>6, <1>7

LEMMA ReapingContainers ==
    ASSUME SharedHostAssumption, TypeOK, NEW i \in Instances, TornDown(i), ReapContainers(i)
    PROVE  TornDown(i)'
<1>1. /\ reaper[i].at = "stacks" /\ reaper[i].todo = {}
      /\ reaper'[i].at = "idle"
      /\ UNCHANGED <<env, mode, stack>>
  BY DEF ReapContainers, Sweep, store, process, TypeOK, NoReap
<1>2. i \notin reaped
  BY <1>1 DEF TornDown
<1>3. CASE UNCHANGED reaped /\ i \in excused'
  BY <1>1, <1>2, <1>3 DEF TornDown
<1>4. CASE /\ reaper[i].ok
           /\ container' = Without(Of(i))
           /\ late' = Forget(i, {"container"})
           /\ reaped' = reaped \cup {i}
  <2>1. ~Serving(i) /\ StacksAhead(i)
    BY <1>1, <1>4 DEF TornDown
  <2>2. \A n \in ContainerNames : container'[n] # None => container'[n].inst # i
    BY <1>4, WithoutRemoves DEF Of
  <2>3. NoContainer(i)'
    BY <2>2 DEF NoContainer, Of
  <2>4. \A e \in EnvIds : <<i, e, "compose">> \in late => <<i, e, "compose">> \in late'
    BY <1>4 DEF Forget
  <2>5. NoStack(i)'
    BY <1>1, <2>1, <2>4 DEF NoStack, StacksAhead, ComposeEnvs
  <2> QED
    BY <1>1, <1>4, <2>1, <2>3, <2>5 DEF TornDown, Thorough, Serving
<1> QED
  BY <1>3, <1>4 DEF ReapContainers, Sweep

(* ... then a workload that is brought up, noted if that is behind a clean *)
(* teardown, ...                                                           *)
LEMMA BringingUp ==
    ASSUME TypeOK, NEW i \in Instances, TornDown(i), DeploysEnd(i), NEW e \in EnvIds,
           RunContainer(i, e) \/ ComposeUp(i, e)
    PROVE  TornDown(i)'
<1>1. /\ mode[i] # "down"
      /\ UNCHANGED <<env, mode, reaper, reaped, excused>>
  BY DEF RunContainer, ComposeUp, DeploysEnd, store, process
<1>2. late \subseteq late'
  BY DEF RunContainer, ComposeUp, Behind
<1>3. CASE RunContainer(i, e)
  <2>1. i \in reaped => <<i, e, "container">> \in late'
    BY <1>3 DEF RunContainer, Behind
  <2>2. \A n \in ContainerNames :
            \/ container'[n] = container[n]
            \/ container'[n] = [kind |-> "box", inst |-> i, env |-> e]
    BY <1>3 DEF RunContainer
  <2>3. i \in reaped /\ NoContainer(i) => NoContainer(i)'
    BY <1>2, <2>1, <2>2 DEF NoContainer, Of
  <2>4. UNCHANGED stack
    BY <1>3 DEF RunContainer
  <2> QED
    BY <1>1, <1>2, <2>3, <2>4 DEF TornDown, Thorough, NoStack, StacksAhead,
        ComposeEnvs, Serving
<1>4. CASE ComposeUp(i, e)
  <2>1. \/ i \in reaped
        \/ reaper[i].at = "stacks" /\ reaper[i].ok
        => <<i, e, "compose">> \in late'
    BY <1>4 DEF ComposeUp, Behind
  <2>2. \A f \in EnvIds : f # e => stack'[f] = stack[f]
    BY <1>4 DEF ComposeUp
  <2>3. i \in reaped /\ NoStack(i) => NoStack(i)'
    BY <1>1, <1>2, <2>1, <2>2 DEF NoStack, ComposeEnvs
  <2>4. reaper[i].at = "stacks" /\ reaper[i].ok /\ StacksAhead(i) => StacksAhead(i)'
    BY <1>1, <1>2, <2>1, <2>2 DEF StacksAhead, ComposeEnvs
  <2>5. NoContainer(i) => NoContainer(i)'
    BY <1>2, <1>4 DEF ComposeUp, NoContainer, Of
  <2> QED
    BY <1>1, <2>3, <2>4, <2>5 DEF TornDown, Thorough, Serving
<1> QED
  BY <1>3, <1>4

(* ... and the rest.                                                       *)
LEMMA TeardownsStay ==
    ASSUME SharedHostAssumption, IInv, NEW i \in Instances, Step(i)
    PROVE  TornDown(i)'
<1>1. TypeOK /\ LoopEnds(i) /\ DeploysEnd(i) /\ TornDown(i)
  BY DEF IInv
<1>2. Apart(i) => TornDown(i)'
  BY <1>1, TeardownsApart
<1>a. CASE EditStep(i)
  BY <1>1, <1>a, NoneWhileItServes DEF EditStep, process, history, Serving
<1>b. CASE Stream(i)
  BY <1>1, <1>2, <1>b DEF Stream, OpenStream, CloseStream, Apart, store, host,
      history
<1>c. CASE RoundStep(i)
  BY <1>1, <1>c, NoneWhileItServes DEF RoundStep, process, history, Serving
<1>d. ASSUME NEW e \in EnvIds, MakeRoom(i, e) PROVE TornDown(i)'
  <2>1. container' = container \/ \E names : container' = Without(names)
    BY <1>d DEF MakeRoom
  <2>2. \A n \in ContainerNames : container'[n] # None => container'[n] = container[n]
    BY <1>1, <2>1, WithoutRemoves
  <2>3. \A f \in EnvIds : stack'[f] = i => stack[f] = i
    BY <1>1, <1>d DEF MakeRoom, TypeOK
  <2>4. Apart(i)
    BY <1>d, <2>2, <2>3 DEF MakeRoom, Apart, store, process
  <2> QED
    BY <1>2, <2>4
<1>e. ASSUME NEW e \in EnvIds, BringNothingUp(i, e) PROVE TornDown(i)'
  BY <1>2, <1>e DEF BringNothingUp, Apart, store, process, host, history
<1>f. ASSUME NEW e \in EnvIds, RunContainer(i, e) \/ ComposeUp(i, e) PROVE TornDown(i)'
  BY <1>1, <1>f, BringingUp
<1>h. CASE Terminate(i)
  <2>1. Serving(i) /\ Serving(i)' /\ UNCHANGED <<reaper, reaped>>
    BY <1>1, <1>h DEF Terminate, Serving
  <2> QED
    BY <1>1, <2>1, NoneWhileItServes
<1>i. CASE ReapCommand(i)
  <2>1. /\ reaper[i].at = "idle" /\ i \notin reaped'
        /\ reaper'[i] = [at |-> "stacks", todo |-> ComposeEnvs(i), ok |-> ~Serving(i)']
        /\ mode[i] \in {"up", "down"}
        /\ UNCHANGED <<env, mode, container, stack, late, excused>>
    BY <1>1, <1>i DEF ReapCommand, Look, TypeOK, store, process, host
  <2>2. StacksAhead(i)'
    BY <2>1 DEF StacksAhead, ComposeEnvs
  <2>3. Thorough(i) => Thorough(i)'
    BY <2>1 DEF Thorough, NoContainer, NoStack, Of, ComposeEnvs
  <2>4. reaper'[i].at = "stacks" /\ reaper'[i].ok = ~Serving(i)'
    BY <2>1
  <2> QED
    BY <1>1, <2>1, <2>2, <2>3, <2>4 DEF TornDown
<1>j. CASE ReapOnExit(i)
  <2>1. /\ i \notin reaped' /\ mode'[i] = "exiting"
        /\ reaper'[i] = [at |-> "stacks", todo |-> ComposeEnvs(i), ok |-> ~Serving(i)']
        /\ UNCHANGED env
    BY <1>1, <1>j DEF ReapOnExit, Look, TypeOK, store
  <2>2. StacksAhead(i)'
    BY <2>1 DEF StacksAhead, ComposeEnvs
  <2>3. reaper'[i].at = "stacks" /\ reaper'[i].ok = ~Serving(i)'
    BY <2>1
  <2> QED
    BY <2>1, <2>2, <2>3 DEF TornDown
<1>k. CASE ReapTooLate(i)
  <2>1. Serving(i) /\ mode'[i] = "down" /\ i \in excused' /\ UNCHANGED <<reaper, reaped>>
    BY <1>1, <1>k DEF ReapTooLate, Down, Serving, TypeOK
  <2> QED
    BY <1>1, <2>1 DEF TornDown
<1>l. CASE TearDownStack(i)
  BY <1>1, <1>l, ReapingStacks
<1>m. CASE ReapContainers(i)
  BY <1>1, <1>m, ReapingContainers
<1>n. CASE Exit(i)
  <2>1. /\ mode[i] = "exiting" /\ reaper[i].at = "idle" /\ mode'[i] = "down"
        /\ UNCHANGED <<env, container, stack, late, reaper, reaped, excused>>
    BY <1>1, <1>n DEF Exit, Down, TypeOK, store
  <2>2. Thorough(i) => Thorough(i)'
    BY <2>1 DEF Thorough, NoContainer, NoStack, Of, ComposeEnvs
  <2> QED
    BY <1>1, <2>1, <2>2 DEF TornDown, Serving
<1>o. CASE Kill(i)
  <2>1. /\ mode'[i] = "down" /\ i \in excused'
        /\ UNCHANGED <<env, container, stack, late, reaped>>
        /\ reaper'[i] = IF mode[i] = "exiting" THEN NoReap ELSE reaper[i]
    BY <1>1, <1>o DEF Kill, Down, TypeOK, store
  <2>2. Thorough(i) => Thorough(i)'
    BY <2>1 DEF Thorough, NoContainer, NoStack, Of, ComposeEnvs
  <2>3. mode[i] \in {"up", "draining", "exiting"}
    BY <1>1, <1>o DEF Kill, TypeOK
  <2>4. mode[i] # "exiting" => Serving(i) /\ reaper'[i] = reaper[i]
    BY <2>1, <2>3 DEF Serving
  <2>5. mode[i] = "exiting" => reaper'[i].at = "idle"
    BY <2>1 DEF NoReap
  <2> QED
    BY <1>1, <2>1, <2>2, <2>4, <2>5 DEF TornDown, Serving
<1>p. CASE Restart(i)
  <2>1. mode'[i] = "up" /\ i \notin reaped' /\ ~reaper'[i].ok
    BY <1>1, <1>p DEF Restart, TypeOK
  <2> QED
    BY <2>1 DEF TornDown, Serving
<1> QED
  BY <1>a, <1>b, <1>c, <1>d, <1>e, <1>f, <1>h, <1>i, <1>j, <1>k, <1>l, <1>m, <1>n,
      <1>o, <1>p DEF Step

-----------------------------------------------------------------------------
(* The containers of an environment.                                       *)

(* A step brings no container of the environment, and no deployment of it  *)
(* past making room.                                                       *)
NoNewBox(j, f) ==
    /\ spared' = spared
    /\ deploy'[j][f] \in {deploy[j][f], None}
    /\ \A n \in ContainerNames : IsBox(n, j, f)' => IsBox(n, j, f)

LEMMA BoxesApart ==
    ASSUME NEW j \in Instances, NEW f \in EnvIds, RoomIsMade(j, f), OneBox(j, f), NoNewBox(j, f)
    PROVE  RoomIsMade(j, f)' /\ OneBox(j, f)'
  BY DEF NoNewBox, RoomIsMade, OneBox

LEMMA KeepingBoxes ==
    ASSUME NEW j \in Instances, NEW f \in EnvIds,
           \A n \in ContainerNames : \/ container'[n] \in {container[n], None}
                                     \/ container'[n] \in Forwarders
    PROVE  \A n \in ContainerNames : IsBox(n, j, f)' => IsBox(n, j, f)
  BY DEF IsBox, Forwarders

LEMMA EndingDeployments ==
    ASSUME TypeOK, NEW i \in Instances, NEW e, NEW j \in Instances, NEW f \in EnvIds,
           \/ deploy' = [deploy EXCEPT ![i][e] = None]
           \/ deploy' = [deploy EXCEPT ![i] = [g \in EnvIds |-> None]]
    PROVE  deploy'[j][f] \in {deploy[j][f], None}
<1>1. CASE deploy' = [deploy EXCEPT ![i][e] = None]
  <2>1. CASE j = i /\ f = e
    BY <1>1, <2>1
  <2>2. CASE ~(j = i /\ f = e)
    BY <1>1, <2>2
  <2> QED
    BY <2>1, <2>2
<1>2. CASE deploy' = [deploy EXCEPT ![i] = [g \in EnvIds |-> None]]
  BY <1>2
<1> QED
  BY <1>1, <1>2

LEMMA BoxesStay ==
    ASSUME SharedHostAssumption, IInv, NEW i \in Instances, Step(i),
           NEW j \in Instances, NEW f \in EnvIds
    PROVE  RoomIsMade(j, f)' /\ OneBox(j, f)'
<1>1. TypeOK /\ LoopEnds(i) /\ RoomIsMade(j, f) /\ OneBox(j, f)
  BY DEF IInv
<1>2. SUFFICES NoNewBox(j, f) \/ (RoomIsMade(j, f)' /\ OneBox(j, f)')
  BY <1>1, BoxesApart
<1>3. OnlyForwarders(i) => \A n \in ContainerNames : IsBox(n, j, f)' => IsBox(n, j, f)
  BY KeepingBoxes DEF OnlyForwarders
<1>4. UNCHANGED container => \A n \in ContainerNames : IsBox(n, j, f)' => IsBox(n, j, f)
  BY DEF IsBox
<1>5. ASSUME NEW names, container' = Without(names)
      PROVE  \A n \in ContainerNames : /\ IsBox(n, j, f)' => IsBox(n, j, f)
                                       /\ n \in names => ~IsBox(n, j, f)'
  BY <1>1, <1>5, WithoutRemoves DEF IsBox
<1>a. CASE EditStep(i) \/ Stream(i)
  BY <1>4, <1>a DEF EditStep, Stream, OpenStream, CloseStream, NoNewBox, host,
      history
<1>c. CASE RoundStep(i)
  BY <1>3, <1>c DEF RoundStep, NoNewBox, history
<1>d. ASSUME NEW e \in EnvIds, MakeRoom(i, e), <<i, e>> = <<j, f>>
      PROVE  RoomIsMade(j, f)' /\ OneBox(j, f)'
  <2>1. deploy'[i][e] = env[i][e] /\ i = j /\ e = f
    BY <1>1, <1>d DEF MakeRoom, TypeOK
  <2>2. CASE /\ env[i][e].type = "compose" /\ UNCHANGED <<container, spared>>
    BY <1>1, <1>4, <2>1, <2>2 DEF RoomIsMade, OneBox
  <2>3. ASSUME NEW gone \in SUBSET Labelled(i, e), container' = Without(gone),
               spared' = IF gone = Labelled(i, e) THEN spared \ {<<i, e>>}
                         ELSE spared \cup {<<i, e>>}
        PROVE  RoomIsMade(j, f)' /\ OneBox(j, f)'
    <3>1. CASE gone # Labelled(i, e)
      BY <2>1, <2>3, <3>1 DEF RoomIsMade, OneBox
    <3>2. CASE gone = Labelled(i, e)
      <4>1. \A n \in ContainerNames : IsBox(n, j, f) => n \in gone
        BY <2>1, <3>2 DEF Labelled
      <4>2. \A n \in ContainerNames : ~IsBox(n, j, f)'
        BY <1>5, <2>3, <4>1
      <4> QED
        BY <4>2 DEF RoomIsMade, OneBox
    <3> QED
      BY <3>1, <3>2
  <2> QED
    BY <1>d, <2>2, <2>3 DEF MakeRoom
<1>e. ASSUME NEW e \in EnvIds, MakeRoom(i, e), <<i, e>> # <<j, f>>
      PROVE  RoomIsMade(j, f)' /\ OneBox(j, f)'
  <2>1. deploy'[j][f] = deploy[j][f] /\ (<<j, f>> \in spared') = (<<j, f>> \in spared)
    BY <1>1, <1>e DEF MakeRoom
  <2>2. container' = container \/ \E names : container' = Without(names)
    BY <1>e DEF MakeRoom
  <2>3. \A n \in ContainerNames : IsBox(n, j, f)' => IsBox(n, j, f)
    BY <1>4, <1>5, <2>2
  <2> QED
    BY <1>1, <2>1, <2>3 DEF RoomIsMade, OneBox
<1>f. ASSUME NEW e \in EnvIds, BringNothingUp(i, e) \/ ComposeUp(i, e)
      PROVE  NoNewBox(j, f)
  <2>1. deploy'[j][f] \in {deploy[j][f], None}
    BY <1>1, <1>f, EndingDeployments DEF BringNothingUp, ComposeUp
  <2>2. UNCHANGED container /\ spared' = spared
    BY <1>f DEF BringNothingUp, ComposeUp, host, history
  <2> QED
    BY <1>4, <2>1, <2>2 DEF NoNewBox
<1>g. ASSUME NEW e \in EnvIds, RunContainer(i, e)
      PROVE  RoomIsMade(j, f)' /\ OneBox(j, f)'
  <2> DEFINE name == ContainerName[deploy[i][e].name]
  <2>1. container' = [container EXCEPT ![name] = [kind |-> "box", inst |-> i, env |-> e]]
    BY <1>g DEF RunContainer
  <2>2. UNCHANGED spared /\ deploy'[i][e] = None
    BY <1>1, <1>g DEF RunContainer, TypeOK
  <2>3. CASE <<i, e>> # <<j, f>>
    <3>1. \A n \in ContainerNames : IsBox(n, j, f)' => IsBox(n, j, f)
      BY <1>1, <2>1, <2>3 DEF IsBox
    <3>2. deploy'[j][f] = deploy[j][f]
      BY <1>1, <1>g, <2>3 DEF RunContainer
    <3> QED
      BY <1>1, <2>2, <3>1, <3>2, BoxesApart DEF NoNewBox
  <2>4. CASE <<i, e>> = <<j, f>>
    <3>1. <<j, f>> \notin spared => \A n \in ContainerNames : ~IsBox(n, j, f)
      BY <1>1, <1>g, <2>4 DEF RoomIsMade, RunContainer
    <3>2. \A n \in ContainerNames : IsBox(n, j, f)' => n = name \/ IsBox(n, j, f)
      BY <1>1, <2>1 DEF IsBox
    <3>3. OneBox(j, f)'
      BY <2>2, <3>1, <3>2 DEF OneBox
    <3> QED
      BY <2>2, <2>4, <3>3 DEF RoomIsMade
  <2> QED
    BY <2>3, <2>4
<1>h. CASE Terminate(i) \/ ReapCommand(i) \/ TearDownStack(i) \/ Restart(i)
  BY <1>4, <1>h DEF Terminate, ReapCommand, TearDownStack, Restart, NoNewBox, host
<1>j. CASE ReapOnExit(i)
  <2>1. OnlyForwarders(i)
    BY <1>1, <1>j, StoppingTheLoop DEF ReapOnExit
  <2> QED
    BY <1>3, <1>j, <2>1 DEF ReapOnExit, NoNewBox
<1>k. CASE ReapTooLate(i)
  <2>1. OnlyForwarders(i)
    BY <1>1, <1>k, StoppingTheLoop DEF ReapTooLate
  <2> QED
    BY <1>1, <1>3, <1>k, <2>1 DEF ReapTooLate, Down, NoNewBox
<1>m. CASE ReapContainers(i)
  BY <1>5, <1>m DEF ReapContainers, Sweep, NoNewBox
<1>n. CASE Exit(i) \/ Kill(i)
  <2>1. deploy'[j][f] \in {deploy[j][f], None}
    BY <1>1, <1>n, EndingDeployments DEF Exit, Kill, Down
  <2>2. UNCHANGED container /\ spared' = spared
    BY <1>n DEF Exit, Kill, Down
  <2> QED
    BY <1>4, <2>1, <2>2 DEF NoNewBox
<1> QED
  BY <1>a, <1>c, <1>d, <1>e, <1>f, <1>g, <1>h, <1>j, <1>k, <1>m, <1>n DEF Step

-----------------------------------------------------------------------------
LEMMA Inductive ==
    SharedHostAssumption /\ IInv /\ [Next]_vars => IInv'
<1> SUFFICES ASSUME SharedHostAssumption, IInv, [Next]_vars PROVE IInv'
  OBVIOUS
<1>1. CASE Next
  <2>1. PICK i \in Instances : Step(i)
    BY <1>1, NextIsAStep
  <2>2. TypeOK'
    BY <2>1, TypesStay
  <2>3. ASSUME NEW j \in Instances PROVE LoopEnds(j)' /\ DeploysEnd(j)'
    BY <2>1, LoopsStay
  <2>4. ASSUME NEW j \in Instances PROVE TornDown(j)'
    <3>1. CASE j = i
      BY <2>1, <3>1, TeardownsStay
    <3>2. CASE j # i
      <4>1. Apart(j)
        BY <2>1, <3>2, StepsAreApart
      <4>2. TypeOK /\ TornDown(j)
        BY DEF IInv
      <4> QED
        BY <4>1, <4>2, TeardownsApart
    <3> QED
      BY <3>1, <3>2
  <2>5. ASSUME NEW j \in Instances, NEW f \in EnvIds
        PROVE  RoomIsMade(j, f)' /\ OneBox(j, f)'
    BY <2>1, BoxesStay
  <2> QED
    BY <2>2, <2>3, <2>4, <2>5 DEF IInv
<1>2. CASE UNCHANGED vars
  BY <1>2 DEF vars, store, process, host, history, IInv, TypeOK, LoopEnds,
      DeploysEnd, TornDown, Thorough, NoContainer, NoStack, StacksAhead,
      ComposeEnvs, Of, Serving, RoomIsMade, OneBox, IsBox
<1> QED
  BY <1>1, <1>2

THEOREM Invariance == Spec => []IInv
<1>1. Init => IInv
  BY Inits, SharedHostAssumption
<1>2. IInv /\ [Next]_vars => IInv'
  BY Inductive, SharedHostAssumption
<1> QED
  BY <1>1, <1>2, PTL DEF Spec

(* What is in the store, the processes and the host is what it should be:  *)
(* a container is a deployment's or a forwarder's, labelled with an        *)
(* instance, and a sidecar's label is a forwarding.                        *)
THEOREM TypeCorrectness == Spec => []TypeOK
<1>1. IInv => TypeOK
  BY DEF IInv
<1> QED
  BY <1>1, Invariance, PTL

(* Reap: however teardowns, deployments, the loops of forwarders and other *)
(* instances interleave, an instance that was told to stop and not kept    *)
(* from it leaves nothing behind but what came behind its teardown.        *)
THEOREM TeardownsAreThorough == Spec => []ReapIsThorough
<1>1. IInv => ReapIsThorough
  BY DEF IInv, TornDown, Thorough, NoContainer, NoStack, ReapIsThorough
<1> QED
  BY <1>1, Invariance, PTL

(* RemoveContainersByEnv: an environment never has two containers, unless  *)
(* one could not be removed.                                               *)
THEOREM ContainersAreReplaced == Spec => []OneContainerEach
<1>1. IInv => OneContainerEach
  <2> SUFFICES ASSUME IInv, NEW i \in Instances, NEW e \in EnvIds, <<i, e>> \notin spared
               PROVE  Cardinality({n \in ContainerNames : IsBox(n, i, e)}) <= 1
    BY DEF OneContainerEach
  <2> DEFINE S == {n \in ContainerNames : IsBox(n, i, e)}
  <2>1. \A m, n \in S : m = n
    BY DEF IInv, OneBox
  <2>2. CASE S = {}
    BY <2>2, FS_EmptySet
  <2>3. CASE S # {}
    <3>1. PICK n : S = {n}
      BY <2>1, <2>3
    <3>2. Cardinality(S) = 1
      BY <3>1, FS_Singleton
    <3> QED
      BY <3>2
  <2> QED
    BY <2>2, <2>3
<1> QED
  BY <1>1, Invariance, PTL
=============================================================================
