# A formal model of edp

edp deploys *environments* (a single container, or a compose stack) on a Docker
host, puts a reverse proxy in front of them, redeploys them on webhooks and
schedules, runs *timed hooks* (shell scripts on a schedule), forwards raw TCP
ports through sidecar containers, and can remove everything it created. A
second program, the edp manager, shows several edp instances side by side.

This directory holds TLA+ specifications of edp's server, the TLC
configurations that check them on small instances, and machine-checked proofs
(TLAPS) about every module. Each invariant that a run checks is a theorem.
`PROJECT.json` maps every definition to the source lines it models and lists the
runs, the mutants, the hazards, the findings and the theorems. Paths below are
relative to the repository.

    tlc -workers 2 -config MCDeployEngine.cfg MCDeployEngine      # a run
    tlapm DeployEngine_proofs.tla             # and so for the other *_proofs modules

## 1. Inventory: the system

| Component | Code | State | Operations |
| --- | --- | --- | --- |
| Store | `edp/internal/store` | SQLite, one connection: environments, deployments, timed_hooks, hook_runs, settings; cascades from environments and hooks to their rows | one statement at a time; `ResetInterrupted` on start |
| Deploy engine | `edp/internal/deploy/{engine,steps,health}.go` | a mutex per environment, a goroutine per deployment, each with a 30-minute context | `Trigger`, `work`, `deploy`, `finish` |
| Log stream | `deploy/logwriter.go`, `internal/logbus`, `server/sse.go` | stored log; per deployment a set of channels of 256 slots | `Write`, `Publish`, `Subscribe`, `Close`, cancel; the SSE handler |
| Command runner | `edp/internal/sh` | a child process, the pipe it prints to, a goroutine that scans it | `Stream`, `Capture` |
| Hook runner | `edp/internal/hooks` | a mutex per hook, a goroutine and a context per run | `TriggerHook`, `work`, `run` |
| Scheduler | `edp/internal/scheduler` | last firing per environment and per hook, in memory | every 30 s: list, prune, consider, fire |
| Docker client | `edp/internal/docker` | none of its own: the host's containers, networks, images, volumes | one `docker` command per call |
| Port forwarders | `edp/internal/portproxy` | none of its own: sidecars `edp-fwd-<id>` | every 5 s: `reconcile` |
| Teardown | `deploy/reap.go`, `cmd/edp/main.go` | none | `Reap`, on exit or as `edp reap` |
| API handlers | `edp/internal/server` | request-local copies of rows | create, read-modify-write, delete, trigger, import, export |
| Proxy, clear-site-data | `internal/proxy`, `internal/clearsite` | set of one-shot marks | route, splash or serve, redeploy from the splash page |
| Status hub, event watcher | `internal/statushub`, `internal/events`, `server/handlers_status.go` | channels of 64 slots; a `docker events` process that is restarted | lossy broadcast of "something changed"; the events stream and the overview; the page that reloads at every nudge |
| Import, export, bootstrap | `server/handlers_io.go` | none | bundles of environments; unique names |
| Git source | `internal/source` | a working copy per environment | clone, fetch, checkout |
| Manager | `src/manager` | a registry of instances | seeding from a file at every start; create, read-modify-write, delete; parallel fan-out to the instances, each with its own timeout; pass-through to one |
| Pure functions | `internal/{naming,secret,config}`, splitting of arguments, duration estimate | none | |
| Web interfaces | `src/ui`, `src/manager/ui`, `src/splash` | what they fetch | |

How they interact. Everything that wants a deployment (API, webhook, scheduler,
splash page, import) calls `Engine.Trigger`, which inserts a row and starts a
goroutine. The goroutine takes the environment's mutex, sets the row and the
environment to `running`, runs the pipeline, and writes the outcome twice: into
the deployment's row and into the environment's. Those two columns are what
everybody else reads: the proxy (splash or serve), the scheduler (skip what is
running), the dashboards. The API creates and updates whole rows, status included:
what the client's body says, or else what the handler read earlier. Output goes through the log writer into the
row and onto the bus. The scheduler, the reconcile loop and the engine share
nothing but the store and the Docker host, and several edp instances share the
Docker host, distinguished by labels in some places and by names in others.

What is hard here:

* goroutines that interleave on rows and containers (two pipelines of one
  environment, a run that is slow to mark its hook, a loop acting on a list it
  made earlier);
* stale copies written back (`apiUpdateEnv`, `apiRotateToken`, saving a hook), and
  statuses that a client's body sets, on a new row or an old one;
* containers that are removed by a label and addressed by a name, which a user may
  change in between;
* a deadline that ends the very context under which the outcome is written;
* a process that dies between any two statements and whose books are put right
  on start, in several statements;
* rows deleted under goroutines that go on;
* replay-then-tail over a channel that drops;
* Docker and git commands that fail, or fail having had their effect, or are killed
  and leave their locks;
* scripts that leave processes behind, which the deadline does not reach;
* a teardown beside goroutines nobody waits for, and beside other instances.

What makes each part correct:

* *engine*: one pipeline per environment; workloads replaced only by the holder
  of the mutex; no row left pending without a worker; an environment that claims
  success is served by a workload of a successful deployment; every deployment
  settles;
* *log stream*: no client loses a chunk silently or sees more than one repeated;
  channels are never closed twice or published to after closing; everyone is
  released when the deployment ends, with its outcome;
* *commands*: what they print is in the log before they count as done, and a
  deployment comes to its end whatever they print, start or wait for;
* *hooks and scheduler*: the row shows what runs; firings keep the distance the
  schedule asks for; what is due is served;
* *forwarders*: the host converges to what the environments ask for;
* *teardown*: what the instance created goes, and nothing else;
* *proxy*: nobody is let through to a container in mid-deploy, and the header that
  clears a browser's data goes to one response per redeploy, never with a page of
  the container that was replaced;
* *git source*: the commit that is built is what the environment's ref names, and a
  working copy can be used again whatever happened to it;
* *provisioning*: what is imported or declared is made completely and once;
* *dashboards*: what a page shows is what the host's containers are in, or a nudge
  for the page is on its way, although the hub drops what a full channel cannot hold;
* *manager*: an answer accounts for every instance that was asked, whoever fails; what
  is done to a row on the page is done to the edp that listed it; an update that does
  not name a token leaves it.

## 2. The modules

    JobLifecycle           what a table of asynchronous jobs promises (abstract)
      ^ implemented by
    DeployEngine           engine + store rows + workloads + API edits + crash
      ^ MCDeployEngine, DeployEngine_proofs
    TimedHooks             scheduler loop + hook runner + API edits + crash
      ^ MCTimedHooks, TimedHooks_proofs       (also implements JobLifecycle)
    LogStream              log writer + bus + SSE handlers of one deployment
    CommandLog             the commands whose output is streamed; EXTENDS LogStream
      ^ MCLogStream, LogStream_proofs
    SharedHost             reconcile loop + teardown + deployments on the host
      ^ MCSharedHost, SharedHost_proofs
    ProxyGate              requests through the proxy; EXTENDS DeployEngine
      ^ MCProxyGate; its proofs are in DeployEngine_proofs
    GitSource              one environment's working copy and its repositories
      ^ MCGitSource, GitSource_proofs
    Provision              create, import, bootstrap + API edits + crash
      ^ MCProvision, Provision_proofs
    Dashboards             event watcher + hub + events stream + overview + page
      ^ MCDashboards, Dashboards_proofs
    Fleet                  the manager: registry, seeding, fan-out, pass-through
      ^ MCFleet, Fleet_proofs

### JobLifecycle

The abstract specification: a job is submitted, starts, finishes with a result
that never changes, is failed by an interruption, or vanishes with its owner.
`DeployEngine` and `TimedHooks` implement it through the refinement mapping
`JobState`, which reads a job's state off its row and the AUTOINCREMENT counter
(a missing row is `unborn` above the counter and `gone` below it). "Once
finished, never changed", "never running twice" and "never back from the dead"
are all in that one property.

### DeployEngine

| Code | Model |
| --- | --- |
| `environments` (status, name, deploy_type) | `envs`, `status`, `name`, `kind`; `created` because ids are never reused |
| `deployments` (status, env_id) | `row`, `envOf`, `nextId` |
| `Engine.locks` | `lock` (which deployment holds it) |
| a goroutine in `work` | `pc`, `plan` and `named` (the deploy type and the container's name it read), `result` |
| its 30-minute context | `expired`: `Expire` may happen anywhere between `Lock` and the last statement |
| containers, by name | `container`: the deployment that made it, whose environment is the label |
| the stack of an environment's compose project | `stack`: the deployment that brought it up |
| `clearsite.Flags` | `mark` |
| `ResetInterrupted` | `boot`: `deployments`, then `environments`, then `up` |

One action is one store statement or one Docker command. A statement under an
expired context does nothing (database/sql refuses it, and `finish` discards the
error); a command under an expired context fails. A failing `docker run` or
`compose up` may leave its effect. A deployment removes containers by the label of its
environment (`Labelled`), any number of them if the command fails, and asks for one of
the name it has read; the name is `naming.ContainerName` of the environment's, which
several environments may share and each may change. `Crash` takes the memory
(goroutines, locks, marks) and leaves the rows and the workloads.

`CreateEnvironment` and `UpdateEnvironment` take any name, type and status:
`apiCreateEnv` and `apiUpdateEnv` decode the client's body onto the row, status and
id included, and what `apiUpdateEnv` and `apiRotateToken` take from the row they have
read may be out of date. Since a body may hold whatever a read could have given, the
read needs no step of its own. `claimed` is a history variable: environments whose
status is a client's word, by either way, and not what the engine wrote last.
`Expire` over-approximates: it does not measure 30 minutes, and it may precede a
pipeline that would have been quick.

Left out: volumes, networks, image digests, arguments of `docker run`, prune;
the estimate of durations; what a request reads before it takes the mark, which is
`ProxyGate`'s.

### LogStream

One deployment, from queueing to `Bus.Close`, and one handler per client. The log
is the number of chunks in the row; a chunk is its position. `AppendLog` and
`Publish` are the two halves of `logWriter.Write`; `Open` is the handler's read of
the row, `Subscribe` its subscription, `Replay` the sending of what it read. A
channel is a sequence (`buffer`) and a flag (`open`), and `subs` is the bus's map.
`opened`, `joined` and `dropped` record, per client, what the properties need in
order to say why a chunk is missing. `apiStreamHookLog` has the same shape.

### CommandLog

`EXTENDS LogStream` with what the deployment's goroutine does between two chunks: it
says something itself (`Say`) or is in `sh.Stream`.

| Code | Model |
| --- | --- |
| where `Stream` is | `at`: `idle` outside of it, `scan`, `wait` |
| the process it started | `child` |
| a process the child started, with the same output | `heir` |
| the pipe behind `StdoutPipe` | `pipe`: lines, some of them too long for the scanner's 1 MiB |
| the context of the deployment | `over` |

`StdoutPipe` gives the child one end of a pipe, and every process it starts inherits
it. So the scanner meets the end of the output when the child *and* its heirs have
ended (`EndOfFile`), and only then does `Stream` come to `cmd.Wait`. `CommandContext`
kills the child when the context ends (`Kill`) and does not know of heirs. A line that
is too long ends the loop (`ScanStops`): nobody reads any more, `Wait` waits for a child
that may be blocked on its output, and closes the pipe with what is in it (`Return`).

Left out: the arguments, the environment and the input of a command, the banner's
wording, and `Capture`, whose callers are modelled with its outcome.

### TimedHooks

Time is the scheduler's 30-second tick: `Advance` may happen between any two steps.
A `Tick` reads the clock and lists the hooks into `scan`, pruning the debounce map;
`Consider` decides on one listed copy, and marks; `Fire` is the insertion of the
run. Schedules are durations, cron expressions (by the set of times they name) or
texts that are neither (never due). The runner is modelled as the engine is, with
the script reduced to its outcome. `CreateHook` and `UpdateHook` take any schedule,
switch and status, as `CreateEnvironment` and `UpdateEnvironment` do in `DeployEngine`
and for the same reasons, and `claimed` is the same history. The loop over environments (`evaluateEnvs`) has the same shape and
is not modelled separately.

### SharedHost

| Code | Model |
| --- | --- |
| `environments` (name UNIQUE, deploy_type, listen_port, AUTOINCREMENT) | `env`, `nextId`, per instance |
| containers, by their names, with labels | `container`: nothing, a `box` or a `forwarder`, with its instance and environment |
| compose projects, named after the id alone | `stack`: the instance that brought it up |
| a deployment between making room and bringing up | `deploy`: the row it has read |
| the reconcile round | `loop`: where it is, what it wants, has seen, is starting |
| the end of the process | `mode`; `open`: a request that does not end by itself |
| `Reap` | `reaper`: the stacks it has still to take down, then the sweep |

Docker gives a name once, and three kinds of things share its names: a single
container's comes from the environment's name (`naming.ContainerName`, a constant here,
which makes some names alike), a forwarder's from the id, and the containers of another
instance come from its own names. `RemoveContainersByEnv` goes by the label of the
environment's id: of any instance, and never by the name. So a name may be held by the
container of an environment that is deleted, renamed, of another type now, or another
instance's, and `docker run --name` fails.

A round of `reconcile` is modelled command by command (read the environments, list,
remove stale ones, then for each missing one remove and start); two sidecars for one
port cannot both run, and the second stays, not running. `docker rm -f edp-fwd-<id>`
removes whatever has the name.

A process that is told to stop with `EDP_REAP_ON_EXIT` drains its requests
(`Terminate`), cancels the loop and begins `Reap` (`ReapOnExit`). If a request is still
open when the 60 seconds are over, `Reap` begins with a context that has ended and
is refused its first statement (`ReapTooLate`). Deployments go on until the process ends. `edp
reap` is a process of its own (`ReapCommand`); one teardown of an instance runs at a
time. `reaped` and `late` record which teardown met no error and what was
brought up behind it and is still there, `excused` who was killed, came too late or met an error, and `spared`
the environments whose containers could not all be removed.

A deployment is two steps, `MakeRoom` and `BringUp`; `DeployEngine` has the pipeline.
Left out: the shared network, an unknown own image (which disables the loop), and the
names of the containers inside a stack.

### ProxyGate

`EXTENDS DeployEngine` and adds requests, each a goroutine of its own: `Arrive` is
`resolve`, which reads the environment's row, and the status half of `ready`; `List`
is the other half, the container list, by label; `Reverse` may take the mark; `Dial`
reaches whatever container has, by then, the name in the row that `Arrive` read. A request that is answered with the splash
page is over and leaves nothing behind, so it has no step of its own where it read
nothing more. `Control` is the endpoint the splash page redeploys through, with the
row it read at the beginning. `Engine` is a step of `DeployEngine` other than
`TakeMark`, which only requests do here. `made`, `older` and `sent` are histories:
whose mark it is, what it was to replace, and how often it was sent. `spared` has the
deployments that ran on beside a container that they failed to remove. `rested` says
that a request has overlapped a time when nothing was deploying its environment in a
way the row can show.

Left out: matching hosts and paths, the external splash page, the ETA.

### GitSource

`copy` is the directory `env-<id>`: absent, files without `.git`, a `.git` that is no
repository yet or has no refs, or a clone with its refs, its objects and its HEAD; and
whether a lock (`index.lock`, `HEAD.lock`) was left in it. An action is one git command
of `Ensure`; each may fail or be killed, by the `SIGKILL` of `sh.Stream`'s
`CommandContext`, which git cannot clean up after. A killed clone leaves what it had at any
point (`KilledEarly`, `KilledLate`), with or without a lock; a killed fetch may have
brought the commits; a killed checkout leaves a lock, or has moved HEAD (`CheckoutFails`).
A locked directory refuses every checkout. Repositories move under it (`Push`,
`DeleteBranch`, `SetTag`) and users change the row (`Edit`). What git does is
external: `fetch --prune <url>` without a refspec brings the commits behind the
repository's HEAD and moves no ref, so `refs` only changes when the directory is
cloned. `named` and `atClone` record what the ref named during the attempt and at the
clone. The order in which deployments come is `DeployEngine`'s business: attempts
come one at a time.

### Provision

A worker is a request (`Import`, `Create`) or `Boot`, the loading of `EDP_IMPORT`
before edp serves. It goes through its bundle statement by statement: look a name up
(`UniqueEnvName`, or `LookUp` at boot), insert, hooks one by one, auto-deploy. A name
is a sequence, its base and the numbers appended to it, so that `web-2` may be both
somebody's own name and another's second choice. A client that leaves cancels its
statements, not its handler. `Delete`, `Rename` and `Crash` come between any two
steps. `origin`, `cut`, `loads`, `freed` and `lost` are histories.

Left out: hooks that users add or remove themselves, credentials, export.

### Dashboards

| Code | Model |
| --- | --- |
| the state of an environment's containers | `state`: how many changes they have been through |
| `StreamEvents`, `docker events` and its pipe | `watcher`: reading, deaf or away; `stream`; two seconds pass before the next `Attach` |
| `Hub.subs`, the subscribers' channels | `subs`, `queue` |
| `apiEventsStream` | `pc`: subscribe, the initial nudge, then receive and write |
| the connection | `wire`: what is written and not yet read; a write blocks when it is full |
| `apiOverview` | `loading`, `got`: the environments are read one after the other |
| the page | `page`, `shown`, `broken`; a nudge reloads, the older request is answered to nobody |

A line that the scanner gives up on ends the loop, and then `cmd.Wait` waits for a
`docker events` that has no reason to exit: the watcher is deaf until it does
(`GiveUp`, `StreamEnds`). `missed` is a history: environments whose last change no
event told of, because the watcher was away or deaf, or left it unread. A nudge carries no
state and a page reloads everything, which is why a channel that drops does no harm:
what is dropped is dropped because another nudge is still to be delivered. The run
and the theorem say so, and say where it ends: the watcher sends no nudge when it
comes back.

Left out: compose environments (their containers carry none of edp's labels, so
nothing watches them and the overview shows `none`), the other columns of the
overview, other pages that use the stream. `streamSSE` opens no second
stream when the first one ends, and neither does the model.

### Fleet

| Code | Model |
| --- | --- |
| the table `instances` (label UNIQUE, AUTOINCREMENT) | `row`, `nextId` |
| `SeedFromFile` at every start | `boot`: the entry it is at; the API is up behind the last |
| `apiUpdateInstance` between its read and its write | `edit`; the body is decoded onto the row that was read, the id too |
| `UpdateInstance`: an empty token is not written | `Stored` |
| `Fanout` | `ask`: what was listed, who has not answered, what was gathered; one `Call` per goroutine |
| `proxyToInstance` | `Destination`: the base URL that is registered when the action comes |
| the page | `page`: the last answer |

What an edp answers is a constant set of outcomes, an array of environments or a
failure of any kind; or an array that holds a `null`, a nil map to which the goroutine
writes its tags: the panic is the end of the process (`CallPanics`). `said`, `raced` and `moved` are histories: what each call came
to, whose edit was overtaken, and whose base URL was changed.

Left out: authentication (one row and one comparison per request), the encryption of
tokens, what `proxyToInstance` copies, the ten-second timer of the page.

## 3. The runs

Passing runs. Each property has a mutant (`PROJECT.json`): a plausible bug in a
modelled definition that makes TLC find the property violated under the same
configuration.

| Run | Properties | What it shows |
| --- | --- | --- |
| `deploy_engine` | `OnePipelinePerEnv`, `NoOrphanedRow`, `NoStuckEnvironment`, `SuccessIsServed`, `RowsAreJobs`, `EveryDeploySettles` | Two deployments of one environment, of either type and two names, with clients that create and change it to anything, deadlines, deletion, failures at every step, and a crash. |
| `log_stream` | `RegisteredIsOpen`, `NothingLostSilently`, `OneRepeatAtMost`, `DoneIsFinal`, `OutputIsWhole`, `PipelineEnds`, `SubscribersAreReleased` | Two clients with one-slot channels follow a log of three chunks, joining and leaving anywhere, while the row may be deleted; and one follows two commands that print lines too long to scan, leave processes behind, hang, and meet the deadline. |
| `timed_hooks` | `TypeOK`, `ScriptShowsRunning`, `NoStuckHook`, `SpacedFirings`, `RunsAreJobs`, `DueHooksAreServed` | A hook with a duration, created and edited to any status, run by hand too, deleted, with a deadline and a crash, over two ticks; and a hook with a cron expression over four. |
| `shared_host` | `TypeOK`, `ReapIsThorough`, `OneContainerEach`, `ForwardersConverge`, `ContainersConverge` | Two environments that contend for a port: edits, deployments, streams, teardown in all its forms, restart, failing commands. And two whose names are changed, given up and alike, beside another instance with an environment of the same id. |
| `proxy_gate` | `ClearedPageIsNew`, `ClearedOnce`, `ServedAtRest` | Two requests beside everything `deploy_engine` has but a second name; and one beside deployments of an environment that is renamed and changes its type, with removals that fail. |
| `git_source` | `TypeOK`, `DeployedIsTheRef`, `KeepsDeploying` | A branch, a tag, a commit, the default and an inline Dockerfile, two repositories, two edits, commands that fail or are killed and leave locks. |
| `provision` | `TypeOK`, `MadeIsComplete`, `DeclaredOnce`, `DeclaredIsThere`, `EveryRequestEnds` | Two requests and a declared bundle whose names meet; clients that leave, a deletion or renaming (`apiUpdateEnv` takes an empty name, too), a restart. |
| `dashboards` | `StaleIsExplained`, `DashboardsCatchUp` | A dashboard with a channel and a connection of one slot each, two environments that change three times, a watcher that goes, comes back or gives up, requests that fail. |
| `fleet` | `AnswerAccountsForAll`, `ActsWhereShown`, `OmittedTokenIsKept` | One instance declared and one registered, two clients that edit, a fan-out that meets failures, a panic and a changing registry, a restart. |

`WorkloadUnderLock`, `GateTypeOK`, `CommandTypeOK` and the `TypeOK` of `DeployEngine`,
`LogStream`, `Dashboards` and `Fleet` are proved (section 4) and not run: the other
properties of their runs break where they do.

Runs that end in a violation. Each states what the repository says of the program
and TLC finds the behaviour that refutes it.

| Run | The repository says | The code does |
| --- | --- | --- |
| `deploy_unrecorded` | `edp/README.md:23` every deploy records its duration | `finish` writes under the pipeline's context; past the deadline the writes fail silently, and the row and the environment read `running` until the process restarts. |
| `reap_foreign_stack` | `edp/README.md:291` reaping one instance leaves the others untouched | compose projects are named after the environment's id, and every instance counts from 1. |
| `git_stale` | `git.go:32` clones, or fetches if already present, and checks out ref | the fetch moves no ref of the working copy and `origin/<branch>` is preferred at checkout: every later deployment of a branch builds the commit of the first clone. |

The passing properties say exactly where the code's promises end, the defects above
and others of the kind:

* `NoOrphanedRow` and `EveryDeploySettles` name the expired context as what leaves a
  row of a deployment as it is until the process restarts;
* `NoStuckEnvironment`, `NoStuckHook`, `ScriptShowsRunning` and `DueHooksAreServed` name
  it too, and the status that is a client's word: a body with a `status`, for a new row
  (`handlers_api.go:43`, `handlers_hooks.go:35`) or an old one, or a copy that was read
  before the engine wrote. An environment or a hook left at `running` by either is
  skipped by the scheduler until the process restarts, or until somebody runs it or
  writes another status;
* `SuccessIsServed` is for the engine's `success`: a client may claim one with nothing
  behind it. `ServedAtRest` names expired contexts and clients' words for requests let
  through in mid-deploy;
* `PipelineEnds` and `SubscribersAreReleased` name the process that a script leaves in
  the background with its output open (`sleep infinity &` in a setup script): the
  deadline kills the script and not that process, `Stream` waits on, and the mutex is
  held until the process ends or edp restarts. `EveryDeploySettles` and
  `DueHooksAreServed` have the same exception, for who queues behind such a deployment
  or run;
* `OutputIsWhole` names the line of 1 MiB or more: nothing after it reaches the log,
  and the command, if it prints on, blocks until the deadline;
* `NothingLostSilently` names the gap between the reading of the log (`sse.go:18`) and the
  subscription, which the comment at `sse.go:32` means to close;
* `SubscribersAreReleased` names the handler that read an unfinished row and subscribes
  after `Bus.Close`: its channel is a new one that nobody closes, and it tails a
  deployment that is over until its client leaves, where `sse.go:9` says until the
  deployment finishes;
* `ReapIsThorough` names what deployments nobody waits for bring up behind the sweep,
  the stacks of environments that are gone or no longer compose, and the request that is
  open when the 60 seconds of the shutdown are over: `Shutdown` waits for it under the
  context that `Reap` is given next (`main.go:136-143`), so an open dashboard is enough
  for nothing to be torn down, where `edp/README.md:83` promises it;
* `ContainersConverge` names who withholds a container's name for good: an environment
  whose name is sanitized alike, a forwarder (`fwd-1` makes `edp-fwd-1`), and a
  container that no deployment removes any more because its environment is deleted, of
  another type now, or another instance's;
* `ForwardersConverge` and `ContainersConverge` are for an instance that is alone on its
  host in the end: two instances remove each other's sidecars, and each other's
  containers of the same environment id, for as long as both are up;
* `ClearedPageIsNew` names the container that a compose deployment leaves in place
  when the environment's type was changed, and the rename: a removal that fails is a
  warning (`steps.go:157`), `docker run` gives the new container the new name, and a
  request that holds the old row dials the old one (`proxy.go:206`). Without a rename
  the failed removal makes `docker run` fail, and no mark is made;
* `DeployedIsTheRef` says what a kept working copy gives instead of the ref, and
  `KeepsDeploying` which directories no later deployment mends: files of an inline
  Dockerfile, a `.git` that a killed clone left before it was a repository, the lock of
  a killed git under a row with a ref, and refs or commits that were not there when it
  was cloned;
* `MadeIsComplete` names the crash and the client that leaves: an environment made by
  half keeps the hooks it got, is not deployed, and `Bootstrap` leaves it so at every
  later start because its name exists;
* `StaleIsExplained` and `DashboardsCatchUp` name the change that happened while the
  watcher was not reading: nothing nudges the page when it comes back;
* `OmittedTokenIsKept` names two ways in which an update that leaves the token out
  writes one: it was overtaken between its read and its write, or its body has the id
  of another instance, which then gets this one's token. `ActsWhereShown` names the
  instance whose base URL was changed.

### Bounds, and why they are enough

* `MaxDeploys = 2`, one environment: contention for a mutex, deletion under a
  queued deployment and a failed deployment after a successful one all need two
  deployments of one environment. Environments interact with each other only
  through the deployment ids and through containers' names that two of them share,
  which is too much for TLC and what the theorems treat for any number.
* `Names = {n1, n2}`: a container under the name of before a renaming beside one under
  the new name. An environment is created under the first.
* `MCNext` of `deploy_engine` has clients rename and write statuses before the crash, which
  finds what they left, and not after it; the first request takes a mark at
  once, since marks are the subject of `proxy_gate`. A `failed` that a client writes is
  left out: nobody tells it from `idle`.
* `MCNext` of `proxy_gate` divides what it adds: two requests while everything goes by one
  name, and one beside two names, with clients that leave the statuses to the engine and
  no crash, which would end the request. The theorems about both modules have no such
  bounds.
* `MaxRestarts = 1`: a crash in every state, including during a deployment, and
  everything that can follow it. A second crash finds states of the same form (the
  theorems cover any number, a crash in mid-reset included).
* `MaxChunks = 3`, `BufferSize = 1` in `log_stream`: one chunk before, in and after the gap, and a
  channel that is full when the next chunk comes. Two clients, so that one is
  slow and the other is not.
* `MaxCommands = 2`, `PipeSize = 2`: a command that finds what the one before it left
  behind, and a pipe that is full. The second client is there only without commands
  (`MCNext`): the two meet in the log alone, and the theorems treat any number of both.
* `Words = {"idle", "running"}` in `timed_hooks`: what a client writes as a status. Nobody
  tells any other from `idle`, and the runner writes them all.
* `Short = 2` with a crash, a client and a duration, `MaxTime = 4` with a cron
  expression and neither: two firings of one duration need two ticks, two firings of
  the cron expression `{2, 4}` need four. `MCNext` divides what clients, crashes and
  the clock do between the two; the loop, the runs and the start take every step. A text
  that is neither is never due, and left to the theorems. `MaxRuns = 2`: the previous run
  is still at work when the next is due.
* `MaxEnvs = 2` in `shared_host`: two environments that ask for one port, or for one
  name. `MCNext` divides the run by what the first environment is: environments with
  ports beside teardowns and a restart (sidecars left by the previous process), with
  one instance, which is alone then, and a third edit, which frees the port, only where
  nothing was deployed; and up to four edits of names (`web`, `Web`, which
  gives the same container name, and `api`) beside an instance that is up and deploys
  an environment of the same id until it is killed. One environment of the first part
  is called so that its container has the name of its own forwarder (`edp-fwd-1`).
  `reap_foreign_stack` has two instances and no division.
* `Requests = {q1, q2}` in `proxy_gate`: two requests that race for one mark. They are
  alike, and no liveness is checked there, so symmetry is sound. The rest is as in
  `deploy_engine`.
* `MaxCommits = 4`, `MaxEdits = 2`: both repositories start with a commit, a branch
  moves twice or two branches once; an edit away from a row and one back to it.
* `MaxRequests = 2`, `MaxEdits = 1`, `MaxRestarts = 1` in `provision`: two requests
  that race, meeting declared names, with one name given up, and one load that a crash
  cut short followed by a whole one. The bundles hold a name twice, a name that is
  another's second choice, no name, and a hook twice.
* `Capacity = 1`, `WireSize = 1`, `MaxChanges = 3`, one client in `dashboards`: one
  nudge on the wire, one in the channel, and one dropped. Clients do not act on one
  another but through the broadcast, which the theorem treats for any number.
* `MaxIds = 2` in `fleet`: an instance that fails beside one that answers, and ids
  after a deletion. Two clients edit at once only while nobody reads the fleet
  (`MCSpec`): their race concerns the registry alone. The theorems have no such bound.

`CHECK_DEADLOCK FALSE` is set in every configuration: the bounds end a behaviour,
and the system may stop with nothing to do. `timed_hooks` stops its clock at the bound.

### Fairness

* `WF(Statement(d))`: the Go scheduler runs every runnable goroutine, and statements
  end. Nothing makes a command come back: the deadline kills it, but not what it may
  have left behind, so `EveryDeploySettles` and `DueHooksAreServed` say what happens
  then instead of excluding it.
* `WF(Pipeline)`, `WF(Kill)`, `WF(Expire)` in `CommandLog`: the same goroutine, a process
  that is killed is gone, and thirty minutes pass. Nothing makes a child or an heir end
  by itself.
* `SF(Acquire(d))`: `sync.Mutex` hands over to its oldest waiter once one has
  waited a millisecond, so a waiter is not overtaken for ever. Weak fairness would
  not do: the mutex is free only now and then.
* `WF(Start)`: a process that is started runs `ResetInterrupted`.
* `WF(Schedule)`: the ticker ticks and the loop, which makes no blocking calls
  other than to the store, goes round.
* `WF(Handle(c))`: a handler whose client reads is scheduled; `Receive`, `End` and
  `Cancel` follow from channel operations that do not block.
* `WF(Reconcile(i))`: the five-second ticker. `WF(BringUp(i, e))`: the commands of a
  deployment end, which the deadline sees to unless a script left a process behind (see
  `PipelineEnds`); this module has no scripts. That commands stop failing, that the
  instance stays up alone, and that its environments go on being deployed are
  hypotheses of `ForwardersConverge` and `ContainersConverge` and no fairness.
* `WF(Ensure)`: git commands end, at the deadline at the latest (git leaves nothing
  behind that has its output). That they stop
  failing, and that deployments keep coming, are hypotheses of `KeepsDeploying`.
* `WF(Proceed(w))`: handlers are goroutines, and statements end.
* `WF(Broadcast)`, `WF(Attach)`, `WF(Serve(c))`: the watcher reads its pipe and attaches
  again after two seconds, and handlers are scheduled. `WF(ReadNudge(c))`, `WF(Load(c))`: a
  page that is open runs its event handler, and a request is answered. That streams
  and requests do not fail is in the properties and no fairness.

No fairness is given to clients, crashes, deadlines, edits or teardowns.

## 4. What is proved

`DeployEngine_proofs` proves, for every number of environments, names,
deployments and restarts:

| Theorem | States |
| --- | --- |
| `Invariance` | `Spec => []IInv` |
| `TypeCorrect` | `Spec => []TypeOK` |
| `MutualExclusion` | `Spec => []OnePipelinePerEnv` |
| `NoOrphans` | `Spec => []NoOrphanedRow` |
| `NoStuckEnvironments` | `Spec => []NoStuckEnvironment` |
| `SuccessServed` | `Spec => []SuccessIsServed` |
| `WorkloadsUnderLock` | `Spec => WorkloadUnderLock` |
| `RowsImplementJobs` | `Spec => RowsAreJobs` (the refinement of `JobLifecycle`) |

The second half of `DeployEngine_proofs` is about `ProxyGate`, and proves for every
number of requests too:

| Theorem | States |
| --- | --- |
| `GateInvariance` | `GateSpec => []GInv` |
| `GateTypeCorrect` | `GateSpec => []GateTypeOK` |
| `GateRunsTheEngine` | `GateSpec => Spec`: the theorems above hold while requests are served |
| `ClearedPagesAreNew` | `GateSpec => []ClearedPageIsNew` |
| `ClearedOncePerDeploy` | `GateSpec => []ClearedOnce` |
| `ServedAtRestAlways` | `GateSpec => []ServedAtRest` |

`LogStream_proofs`, for every number of clients and chunks and channels of any size:

| Theorem | States |
| --- | --- |
| `LogStreamTypeCorrect` | `Spec => []TypeOK` |
| `RegisteredIsAlwaysOpen` | `Spec => []RegisteredIsOpen` |
| `NothingIsLostSilently` | `Spec => []NothingLostSilently` |
| `OneRepeatAtMostAlways` | `Spec => []OneRepeatAtMost` |
| `DoneIsAlwaysFinal` | `Spec => []DoneIsFinal` |

The end of `LogStream_proofs` is about `CommandLog`, for every number of commands too,
and pipes of any size:

| Theorem | States |
| --- | --- |
| `CommandInvariance` | `CommandSpec => []CommandInv` |
| `CommandTypeCorrect` | `CommandSpec => []CommandTypeOK` |
| `CommandsRunTheLog` | `CommandSpec => Spec`: the theorems above hold while commands run |
| `OutputIsAlwaysWhole` | `CommandSpec => OutputIsWhole` |

`Dashboards_proofs`, for every number of environments, clients and changes, channels
and connections of any size:

| Theorem | States |
| --- | --- |
| `DashboardsTypeCorrect` | `Spec => []TypeOK` |
| `StaleIsAlwaysExplained` | `Spec => []StaleIsExplained` |

`Fleet_proofs`, for every number of instances, clients, requests and restarts, and
whatever the edps answer:

| Theorem | States |
| --- | --- |
| `FleetInvariance` | `Spec => []FInv` |
| `FleetTypeCorrect` | `Spec => []TypeOK` |
| `AnswersAccountForAll` | `Spec => []AnswerAccountsForAll` |
| `ActsWhereShownAlways` | `Spec => []ActsWhereShown` |
| `OmittedTokensAreKept` | `Spec => OmittedTokenIsKept` |

`TimedHooks_proofs`, for every set of hooks and schedules, and every number of runs,
ticks and restarts:

| Theorem | States |
| --- | --- |
| `TypeCorrectness` | `Spec => []TypeOK` |
| `OneRunAtATime` | at most one run of a hook is past its mutex |
| `ScriptsShowRunning` | `Spec => []ScriptShowsRunning` |
| `HooksAreNotStuck` | `Spec => []NoStuckHook` |
| `FiringsAreSpaced` | `Spec => SpacedFirings` |
| `RunsImplementJobs` | `Spec => RunsAreJobs` (the refinement of `JobLifecycle`) |

`Provision_proofs`, for all bundles, names and edits, and every number of requests and
restarts:

| Theorem | States |
| --- | --- |
| `TypeCorrectness` | `Spec => []TypeOK` |
| `EnvironmentsAreComplete` | `Spec => []MadeIsComplete` |
| `BootstrapIsIdempotent` | `Spec => []DeclaredOnce` |
| `BootstrapIsThorough` | `Spec => []DeclaredIsThere` |

`GitSource_proofs`, for every number of repositories, branches, tags and commits:

| Theorem | States |
| --- | --- |
| `TypeCorrectness` | `Spec => []TypeOK` |
| `EnsureReturnsTheRef` | `Spec => []DeployedIsTheRef` |
| `AttemptsSeeTheRef` | `Spec => []AttemptSeesTheRef`, a part of the invariant |

`SharedHost_proofs`, for every number of instances, environments, names and ports, and
every way in which names are alike:

| Theorem | States |
| --- | --- |
| `TypeCorrectness` | `Spec => []TypeOK` |
| `TeardownsAreThorough` | `Spec => []ReapIsThorough` |
| `ContainersAreReplaced` | `Spec => []OneContainerEach` |

Assumed is what each module assumes of its constants (`ConstantsAssumption`,
`LogStreamAssumption`, `CommandLogAssumption`, `DashboardsAssumption`,
`FleetAssumption`, `TimedHooksAssumption`, `ProvisionAssumption`,
`GitSourceAssumption`, `SharedHostAssumption`): their types, that the values standing
for nothing are not among those for something, and that bounds are numbers. TLC
evaluates each of them in the run of that module.

The argument for the engine. None of the properties is inductive. `IInv` adds what the code
relies on without saying so:

* `FreshIds`: ids at and above the counter have no row, no goroutine, no workload
  and no expired context, which is why `Trigger` cannot meet one;
* `RowsMatchEnvs`: a deployment's environment was once created, and while it exists
  the deployment's row does (rows go with their environment only);
* `LockNamesHolder`: a deployment between `Lock` and unlock is the one the mutex
  names, which is mutual exclusion in a form that a step preserves;
* `BootIsQuiet`: while `ResetInterrupted` runs, no goroutine does, and after its
  first statement no row is pending;
* `RowFollowsWorker`: what a row may read at each program point of its goroutine;
* `WorkerKnows`, `StepMatchesPlan`: what the goroutine has loaded and decided at
  each point, and that a container is never made by a compose deployment;
* `PipelineShows`: from the second statement on, the environment reads `running`
  unless the context expired, a client wrote the status, or it is gone. This is what
  makes `SuccessIsServed` hold while an old container is being removed;
* `WorkloadOwner`: a deployment that got past `docker run` or `compose up`, until it has
  recorded success, has its container under the name it read, or its stack;
* `NoStuckEnvironment` and `SuccessIsServed` themselves.

`IInv` holds initially, every action preserves it (one step per action, under it
one per conjunct the action can disturb), and it implies the invariants. The two
step properties, `WorkloadUnderLock` and `RowsAreJobs`, follow from `IInv` and one
case per action; in the refinement a crash and `ResetEnvironments` stutter,
`ResetDeployments` is `Interrupt`, and a deletion is `Cascade` of the environment's
rows.

The argument for the proxy. `GInv` is `IInv` with `GateTypeOK` and five parts:

* `MarksStand`, `HeadersStand`: what a mark stands for, in the engine's memory and in
  a request that took it. The deployment that made it is past its pipeline, the
  earlier deployments of that environment are over, and, unless it was a compose
  deployment, none of their containers has its name, nor any name at all if nothing
  was spared. A deployment that is over stays
  so (`PastStaysPast`) and a container changes only to nothing or to one that a
  deployment at `docker run` makes (`ContainerSteps`), so this survives whatever runs
  between `Take` and the dial (`SlotStable`). That a new mark starts out so
  (`NewMarkStands`) is where the mutex and `WorkloadOwner` are needed;
* `Swept`: past its removal, a container deployment that spared nothing has no other
  container of its environment beside it, whatever name. It holds to the end of the
  pipeline because only the holder of the mutex makes containers of its environment
  (`SweptStable`);
* `SentMarksAreTaken`: a deployment whose mark was sent has no mark left and is past
  the point where it could make another;
* `LetThroughAtRest`: what `PipelineShows` says of the row that a request read.

The argument for the log stream. `LInv` says of each handler how far the log was when
it read the row (`ReadAt`), and that it subscribed later (`JoinedAt`); that what was
sent to it, with what waits in its channel, are positions after that in rising order
(`Live`); and that every position since is among them or met a full channel (`Kept`).
`NothingLostSilently` is `Kept` with the gap between `ReadAt` and `JoinedAt` named, and
`OneRepeatAtMost` is `Live` with the one chunk that `AppendLog` had stored and
`Publish` had not sent when the row was read. `Books` ties the log to the row, and
`Channels` says that only `Close` takes a channel from a handler that has not left.

The argument for the commands. `WaitsForTheRest` says that a `Stream` that waits has
read everything, with nobody left who could print more, or has stopped at a line that
is too long, which stays at the head of the pipe because nobody reads on.

The argument for the dashboards. `StaleIsExplained` is nearly inductive. It lacks
that a handler past its subscription is in the hub (`HandlersSubscribe`), without which
the broadcast would not reach it, and that no container has changed more often than
all have (`ChangesCounted`), for its type.

The argument for the manager. `EditsStand` says that what a client read is still the
row unless it was overtaken; `ListedStand`, `ItemsStand` and `PageStands` carry, from
the listing to the row that is sent and to the page that shows it, that the id is below
the next one and its base URL as listed unless it was changed (an id below the next
one never comes to name another instance); and `GatheredSoFar` says of a fan-out in
mid-flight what `AnswerAccountsForAll` says of its end.

The argument for the timed hooks has the parts of the engine's that it shares (ids that
are not used yet, `LockNamesHolder`, `BootIsQuiet`, `RunFollowsWorker`). What is new
is `FiringsRemembered`: of every hook that is in the store, and of every copy of a row
in the loop's hands, the scheduler remembers the last firing or never saw one. That is
what `SpacedFirings` needs, and it is not obvious: the loop prunes the firings of hooks
that are not listed any more, while it has copies of rows in its hands whose hooks may
be deleted before they are considered. It holds because ids are not reused and
pruning goes by the very list that is then considered.

The argument for provisioning. `MadeIsComplete` is about an environment whose maker is
through with it, so the invariant says where the others are: `OwnEnvironment`, that a
worker among its hooks is on an environment that it made itself, and no two on the same;
`HooksSoFar`, that this one has the hooks up to the worker's place. `DeclaredOnce`
and `DeclaredIsThere` come from one invariant each: by `LoadsAreUsedUp` a declared name
that is free was loaded no more often than it was given up, so that loading it once
more keeps the count; and by `LoadedSoFar` the names that the loop of this start has
passed are all taken, since no user edits before edp serves. `BootLoads` ties the loop
to the process: there is one, it goes through what is declared, and it is over once edp
serves.

The argument for the working copy. `AttemptSeesTheRef` says, at every command between
the beginning of an attempt and its end, that what the ref names now is in `named`, and
that what a clone made by this attempt has for it is there too. `CopyIsWhole` says what
a directory with a clone in it holds (refs as they were at the clone, and their commits,
killed or not),
and `HeadIsTheRef` which commit is checked out at the last command. Repositories that
move meanwhile change `named` and no copy; `RepositoriesAreWhole` has what a push keeps
(new commits have new numbers, and no branch names a commit that does not exist).

The argument for the host. `TornDown` follows a teardown of an instance from its first
statement to its last: one that is clean so far was begun when the instance served no
more (so that nobody changes its environments, and no forwarder is started: `LoopEnds`),
and has only the stacks ahead of it that it lists (`StacksAhead`); one that is not clean
excuses the instance; and what a clean one leaves stays `Thorough`, because what the
deployments that still run bring up is noted in `late` and `DeploysEnd` with the process.
Other instances only take from what an instance has on the host (`StepsAreApart`): they
remove containers by the label of an environment's id and take projects over.
`OneContainerEach` rests on `RoomIsMade`: between the removal and `docker run`,
nobody else makes a container for that environment.

Two of these proofs corrected the model they are about. A teardown forgot nothing of
what was brought up behind the one before it (`Forget` removed nested pairs from
triples), which made `ReapIsThorough` weaker than it reads; and `TypeOK` of `Provision`
claimed that no environment has an empty name, which `apiUpdateEnv` does not see to
(`handlers_api.go:88` binds the body onto the row, and only `apiCreateEnv` asks for a
name).

Only model-checked: the liveness properties (`EveryDeploySettles`, `PipelineEnds`,
`SubscribersAreReleased`, `DueHooksAreServed`, `ForwardersConverge`,
`ContainersConverge`, `KeepsDeploying`, `EveryRequestEnds`, `DashboardsCatchUp`):
fairness is beyond the prover.

## 5. Assumptions

* The store fails only under an expired context or by refusing a foreign key. A
  full disk or a locked database is not modelled.
* One process per database, as the single connection and the in-memory mutexes
  suppose. `edp reap` is the exception and only reads.
* Nobody but edp removes its containers.
* A command of a process that dies has happened or has not; a `docker` child that
  outlives its parent is not modelled.
* The manager's table is written by one process, through one connection.

## 6. What is not modelled, and hazards no property covers

The components listed as `not_modelled` in `PROJECT.json` are out of reach or hold no
state a model could say more about than their code: byte
copying (`portproxy/forward.go`), cookie and password checks (one row of settings and
one comparison per request), encryption, configuration, and the pages other than the
dashboards.

Observed in the code, and no property's subject:

* A duration schedule of `0s` is due at every tick.
* The containers of compose environments carry none of edp's labels: the overview
  shows `none` for them, and nothing nudges a dashboard when they change.
* The manager's `useLiveRefresh` passes `onMessage` only, and edp's nudges are named
  events: the manager's pages are refreshed by their ten-second timer.
* `SeedFromFile` goes by label: a seeded instance that was renamed is registered again
  at the next start, beside its renamed twin.
* `Fanout` writes its tags into each element of an answer, and one `null` in the array of
  one edp takes the manager down (`aggregate.go:62`). `Fleet` has the step (`CallPanics`);
  that a request then gets no answer is no property's subject.

## 7. Plan

Done, in this order, because everything else reads what the engine writes:
`JobLifecycle`, `DeployEngine`, `LogStream`, `TimedHooks`, `SharedHost`, `GitSource`,
`ProxyGate`, `Provision`, `Dashboards`, `Fleet`, `CommandLog`; and, for each, the
proofs of its invariants and action properties.

Next:

1. The loop over environments, in `TimedHooks`.
2. Export beside imports and deletions, in `Provision`.
3. Pure operators against reference definitions: which names are sanitized alike,
   argument splitting, the duration estimate, the encryption prefix.

Proofs: `KeepsDeploying` and its like need what a step does under fairness, which is
beyond the prover; their safety parts (a directory that no deployment mends stays so,
the measure that a round of `reconcile` decreases) are within it.
