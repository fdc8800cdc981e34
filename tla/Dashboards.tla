------------------------------ MODULE Dashboards ------------------------------
(***************************************************************************)
(* Live container states on their way to the dashboards: the watcher that  *)
(* follows `docker events` (internal/events, docker/events.go), the hub    *)
(* with its bounded channels (internal/statushub), the handlers of the     *)
(* events stream and of the overview (internal/server/handlers_status.go), *)
(* and the page that loads the overview again at every nudge               *)
(* (ui/src/pages/Dashboard.tsx, lib/useAsync.ts, lib/sse.ts).              *)
(*                                                                         *)
(* The state of an environment's containers is the number of changes they  *)
(* have been through.  Only containers with edp's labels are watched or    *)
(* listed: the environments here are those with single containers.  Which  *)
(* environment a nudge names does not matter, the page reloads them all.   *)
(***************************************************************************)
EXTENDS Naturals, Sequences, SequencesExt

CONSTANTS Envs,         \* environments with a container
          Clients,      \* browsers that may show the dashboard
          Capacity,     \* slots of a subscriber's channel (64 in the code)
          WireSize,     \* events a connection holds before a write blocks
          Unread,       \* no answer yet, nothing shown
          Unknown,      \* the state when docker ps fails
          MaxChanges    \* bound: changes of all containers

ASSUME DashboardsAssumption == /\ Capacity \in Nat \ {0}
                               /\ WireSize \in Nat \ {0}
                               /\ MaxChanges \in Nat
                               /\ Unread \notin Nat /\ Unknown \notin Nat
                               /\ Unread # Unknown

VARIABLES
    state,      \* per environment, the changes its containers went through
    changes,    \* changes so far
    stream,     \* environments named by events in the pipe of `docker events`
    watcher,    \* StreamEvents: reading `docker events`, waiting for it, or away
    missed,     \* history: environments whose last change no event told of
    subs,       \* Hub.subs
    queue,      \* the subscribers' channels
    pc,         \* where each client's apiEventsStream is
    wire,       \* events written to the connection and not yet read
    page,       \* whether the dashboard is on the screen
    loading,    \* the newest overview request has no answer yet
    got,        \* what that request has read so far
    shown,      \* what the page shows
    broken      \* the page shows an error

docker  == <<state, changes, stream, watcher, missed>>
hub     == <<subs, queue>>
handler == <<pc, wire>>
browser == <<page, loading, got, shown, broken>>
vars    == <<docker, hub, handler, browser>>

Versions == 0 .. MaxChanges
Nothing == [e \in Envs |-> Unread]
Handling == {"opened", "nudge", "loop", "write"}

TypeOK ==
    /\ state \in [Envs -> Versions]
    /\ changes \in Versions
    /\ stream \in Seq(Envs)
    /\ watcher \in {"away", "reading", "deaf"}
    /\ missed \subseteq Envs
    /\ subs \subseteq Clients
    /\ queue \in [Clients -> Seq(Envs)]
    /\ \A c \in Clients : Len(queue[c]) <= Capacity
    /\ pc \in [Clients -> {"none", "leave", "left"} \cup Handling]
    /\ wire \in [Clients -> 0 .. WireSize]
    /\ page \in [Clients -> {"closed", "open"}]
    /\ loading \in [Clients -> BOOLEAN]
    /\ got \in [Clients -> [Envs -> Versions \cup {Unread, Unknown}]]
    /\ shown \in [Clients -> [Envs -> Versions \cup {Unread, Unknown}]]
    /\ broken \in [Clients -> BOOLEAN]

Init == /\ state = [e \in Envs |-> 0]
        /\ changes = 0
        /\ stream = <<>>
        /\ watcher = "away"
        /\ missed = {}
        /\ subs = {}
        /\ queue = [c \in Clients |-> <<>>]
        /\ pc = [c \in Clients |-> "none"]
        /\ wire = [c \in Clients |-> 0]
        /\ page = [c \in Clients |-> "closed"]
        /\ loading = [c \in Clients |-> FALSE]
        /\ got = [c \in Clients |-> Nothing]
        /\ shown = [c \in Clients |-> Nothing]
        /\ broken = [c \in Clients |-> FALSE]

-----------------------------------------------------------------------------
(* Docker, and the watcher.                                                *)

(* A container starts, stops, dies, is paused or removed.                  *)
ChangeContainer(e) ==
    /\ changes < MaxChanges
    /\ changes' = changes + 1
    /\ state' = [state EXCEPT ![e] = @ + 1]
    /\ IF watcher = "reading"
       THEN stream' = Append(stream, e) /\ missed' = missed \ {e}
       ELSE missed' = missed \cup {e} /\ UNCHANGED stream
    /\ UNCHANGED <<watcher, hub, handler, browser>>

(* A line the scanner gives up on, or that is cut off: the loop is over,   *)
(* what it had not read is lost, and StreamEvents waits for the process to *)
(* exit, which may be long.                                                *)
GiveUp ==
    /\ watcher = "reading"
    /\ stream # <<>>
    /\ watcher' = "deaf"
    /\ stream' = <<>>
    /\ missed' = missed \cup ToSet(stream)
    /\ UNCHANGED <<state, changes, hub, handler, browser>>

(* `docker events` exits; what it had written is read to the end.          *)
StreamEnds ==
    /\ watcher # "away"
    /\ watcher' = "away"
    /\ UNCHANGED <<state, changes, stream, missed, hub, handler, browser>>

(* Run: two seconds later, or at the start.                                *)
Attach ==
    /\ watcher = "away"
    /\ stream = <<>>
    /\ watcher' = "reading"
    /\ UNCHANGED <<state, changes, stream, missed, hub, handler, browser>>

(* StreamEvents' handle, Broadcast: a full channel drops.                  *)
Broadcast ==
    /\ stream # <<>>
    /\ stream' = Tail(stream)
    /\ queue' = [c \in Clients |-> IF c \in subs /\ Len(queue[c]) < Capacity
                                   THEN Append(queue[c], Head(stream)) ELSE queue[c]]
    /\ UNCHANGED <<state, changes, watcher, missed, subs, handler, browser>>

-----------------------------------------------------------------------------
(* apiEventsStream.                                                        *)

Step(c, from, to) == pc[c] = from /\ pc' = [pc EXCEPT ![c] = to]

Subscribe(c) ==
    /\ Step(c, "opened", "nudge")
    /\ subs' = subs \cup {c}
    /\ UNCHANGED <<docker, queue, wire, browser>>

(* A write blocks while the connection is full.                            *)
Send(c) == wire[c] < WireSize /\ wire' = [wire EXCEPT ![c] = @ + 1]

(* Mutant: the stream starts with the first change.                        *)
NoNudge(c) ==
    /\ Step(c, "nudge", "loop")
    /\ UNCHANGED <<docker, hub, wire, browser>>

(* The initial nudge.                                                      *)
Nudge(c) ==
    /\ Step(c, "nudge", "loop")
    /\ Send(c)
    /\ UNCHANGED <<docker, hub, browser>>

Receive(c) ==
    /\ queue[c] # <<>>
    /\ Step(c, "loop", "write")
    /\ queue' = [queue EXCEPT ![c] = Tail(@)]
    /\ UNCHANGED <<docker, subs, wire, browser>>

Write(c) ==
    /\ Step(c, "write", "loop")
    /\ Send(c)
    /\ UNCHANGED <<docker, hub, browser>>

(* The connection ends, and what it holds; the page does not open another. *)
Disconnect(c) ==
    /\ pc[c] \in Handling
    /\ pc' = [pc EXCEPT ![c] = "leave"]
    /\ wire' = [wire EXCEPT ![c] = 0]
    /\ UNCHANGED <<docker, hub, browser>>

(* The deferred cancel.                                                    *)
Cancel(c) ==
    /\ Step(c, "leave", "left")
    /\ subs' = subs \ {c}
    /\ queue' = [queue EXCEPT ![c] = <<>>]
    /\ UNCHANGED <<docker, wire, browser>>

-----------------------------------------------------------------------------
(* The page, and apiOverview.                                              *)

(* reload: the request that was under way is answered to nobody.           *)
Reload(c) == /\ loading' = [loading EXCEPT ![c] = TRUE]
             /\ got' = [got EXCEPT ![c] = Nothing]

(* The page loads the overview and opens the events stream.                *)
OpenPage(c) ==
    /\ page[c] = "closed"
    /\ pc[c] \in {"none", "left"}
    /\ page' = [page EXCEPT ![c] = "open"]
    /\ pc' = [pc EXCEPT ![c] = "opened"]
    /\ Reload(c)
    /\ UNCHANGED <<docker, hub, wire, shown, broken>>

(* Mutant: a nudge that arrives while the page loads is dropped.           *)
ReadNudgeUnlessLoading(c) ==
    /\ page[c] = "open"
    /\ wire[c] > 0
    /\ wire' = [wire EXCEPT ![c] = @ - 1]
    /\ IF loading[c] THEN UNCHANGED <<loading, got>> ELSE Reload(c)
    /\ UNCHANGED <<docker, hub, pc, page, shown, broken>>

ReadNudge(c) ==
    /\ page[c] = "open"
    /\ wire[c] > 0
    /\ wire' = [wire EXCEPT ![c] = @ - 1]
    /\ Reload(c)
    /\ UNCHANGED <<docker, hub, pc, page, shown, broken>>

(* ListByEnv: docker ps may fail.                                          *)
Seen(e) == {state[e], Unknown}

(* containerState, for one environment after the other.                    *)
ReadState(c, e) ==
    /\ loading[c]
    /\ got[c][e] = Unread
    /\ \E s \in Seen(e) : got' = [got EXCEPT ![c][e] = s]
    /\ UNCHANGED <<docker, hub, handler, page, loading, shown, broken>>

Answer(c) ==
    /\ loading[c]
    /\ \A e \in Envs : got[c][e] # Unread
    /\ loading' = [loading EXCEPT ![c] = FALSE]
    /\ got' = [got EXCEPT ![c] = Nothing]
    /\ shown' = [shown EXCEPT ![c] = got[c]]
    /\ broken' = [broken EXCEPT ![c] = FALSE]
    /\ UNCHANGED <<docker, hub, handler, page>>

(* The request fails, and the page shows that instead.                     *)
Fail(c) ==
    /\ loading[c]
    /\ loading' = [loading EXCEPT ![c] = FALSE]
    /\ got' = [got EXCEPT ![c] = Nothing]
    /\ broken' = [broken EXCEPT ![c] = TRUE]
    /\ UNCHANGED <<docker, hub, handler, page, shown>>

ClosePage(c) ==
    /\ page[c] = "open"
    /\ page' = [page EXCEPT ![c] = "closed"]
    /\ pc' = [pc EXCEPT ![c] = IF @ \in Handling THEN "leave" ELSE @]
    /\ wire' = [wire EXCEPT ![c] = 0]
    /\ loading' = [loading EXCEPT ![c] = FALSE]
    /\ got' = [got EXCEPT ![c] = Nothing]
    /\ shown' = [shown EXCEPT ![c] = Nothing]
    /\ broken' = [broken EXCEPT ![c] = FALSE]
    /\ UNCHANGED <<docker, hub>>

-----------------------------------------------------------------------------
Serve(c) == Subscribe(c) \/ Nudge(c) \/ Receive(c) \/ Write(c) \/ Cancel(c)

Load(c) == Answer(c) \/ \E e \in Envs : ReadState(c, e)

Next == \/ \E e \in Envs : ChangeContainer(e)
        \/ GiveUp \/ StreamEnds \/ Attach \/ Broadcast
        \/ \E c \in Clients : \/ OpenPage(c) \/ ClosePage(c) \/ Disconnect(c)
                              \/ Serve(c) \/ ReadNudge(c) \/ Load(c) \/ Fail(c)

Spec == Init /\ [][Next]_vars

(* The watcher and the handlers are goroutines, a page that is open reads  *)
(* its stream, a request is answered or fails.  Nothing makes a container  *)
(* change, a page open or close, a stream end or a request fail.           *)
Fairness == /\ WF_vars(Broadcast) /\ WF_vars(Attach)
            /\ \A c \in Clients : /\ WF_vars(Serve(c)) /\ WF_vars(ReadNudge(c))
                                  /\ WF_vars(Load(c))

FairSpec == Spec /\ Fairness

-----------------------------------------------------------------------------
(* Properties.                                                             *)

(* The page shows, or is about to, what a container is in now, or says     *)
(* that it could not tell.                                                 *)
UpToDate(c, e) == IF loading[c] THEN got[c][e] \in {Unread, Unknown, state[e]}
                  ELSE broken[c] \/ shown[c][e] \in {Unknown, state[e]}

(* A nudge for the client is on its way.                                   *)
Nudged(c) == wire[c] > 0 \/ queue[c] # <<>> \/ pc[c] \in {"opened", "nudge", "write"}

Watching(c) == page[c] = "open" /\ pc[c] \in Handling

(* Hub.Broadcast, apiEventsStream, useAsync: a dashboard whose stream is   *)
(* open shows an old state only while a nudge for it or the event itself   *)
(* is on the way, however full its channel was and wherever the change     *)
(* fell between subscribing, nudging and loading; or it is a change that   *)
(* happened while the watcher was not reading.                             *)
StaleIsExplained ==
    \A c \in Clients, e \in Envs :
        Watching(c) => UpToDate(c, e) \/ Nudged(c) \/ e \in ToSet(stream) \cup missed

Behind(c, e) == /\ page[c] = "open" /\ ~loading[c] /\ ~broken[c]
                /\ shown[c][e] \notin {Unknown, state[e]}

(* "so dashboards update live" (handlers_status.go:89): a dashboard that   *)
(* shows an old state gets over it, unless its stream ends, its request    *)
(* fails, or the watcher was not reading when the container changed.       *)
DashboardsCatchUp ==
    \A c \in Clients, e \in Envs :
        Behind(c, e) ~> \/ page[c] = "open" /\ shown[c][e] \in {Unknown, state[e]}
                        \/ ~Watching(c) \/ broken[c] \/ e \in missed
=============================================================================
