------------------------------ MODULE LogStream ------------------------------
(***************************************************************************)
(* The log of one deployment on its way to the people who watch it: the    *)
(* logWriter that stores every chunk and publishes it, the bus with its    *)
(* bounded channels, and the Server-Sent-Events handlers that replay the   *)
(* stored log and then tail the bus.  The logs of timed hooks take the     *)
(* same path (hooks/logwriter.go, apiStreamHookLog).                       *)
(*                                                                         *)
(* A chunk is its position in the log, so the stored log is the number of  *)
(* chunks in it.  Every method of the bus runs under its mutex and is one  *)
(* action; the writer and the handlers are goroutines and interleave.      *)
(***************************************************************************)
EXTENDS Naturals, FiniteSets, Sequences, SequencesExt

CONSTANTS Clients,      \* connections to the log of the deployment
          MaxChunks,    \* bound: chunks the deployment writes
          BufferSize    \* capacity of a subscriber's channel (256 in the code)

ASSUME LogStreamAssumption == MaxChunks \in Nat /\ BufferSize \in Nat \ {0}

Finished == {"success", "failed"}
Statuses == {"queued", "running"} \cup Finished

VARIABLES
    row,        \* deployments.status, "absent" once the environment is deleted
    log,        \* deployments.log
    written,    \* chunks written by the pipeline
    writer,     \* where the deployment's goroutine is
    late,       \* the outcome was not recorded: its context had ended
    subs,       \* Bus.subs of the deployment
    open,       \* the channels that are not closed
    buffer,     \* the channels' contents
    pc,         \* where each connection's handler is
    dep,        \* the row each handler read
    sent,       \* chunks each client was sent from the bus
    done,       \* the status in the done event, "none" before it
    opened,     \* history: chunks published when the handler read the row
    joined,     \* history: chunks published when the handler subscribed
    dropped     \* history: chunks dropped because the channel was full

bus      == <<subs, open, buffer>>
pipeline == <<row, log, written, writer, late>>
handlers == <<pc, dep, sent, done, opened, joined>>
vars     == <<pipeline, bus, handlers, dropped>>

Published == IF writer = "publish" THEN written - 1 ELSE written

TypeOK == /\ row \in Statuses \cup {"absent"}
          /\ log \in 0 .. MaxChunks
          /\ written \in 0 .. MaxChunks
          /\ writer \in {"lock", "run", "publish", "close", "done"}
          /\ writer = "publish" => written > 0
          /\ late \in BOOLEAN
          /\ subs \subseteq Clients
          /\ open \subseteq Clients
          /\ buffer \in [Clients -> Seq(1 .. MaxChunks)]
          /\ \A c \in Clients : Len(buffer[c]) <= BufferSize
          /\ pc \in [Clients -> {"idle", "subscribe", "replay", "tail", "cancel",
                                 "left"}]
          /\ dep \in [Clients -> [log : 0 .. MaxChunks, status : Statuses]]
          /\ sent \in [Clients -> Seq(1 .. MaxChunks)]
          /\ done \in [Clients -> Statuses \cup {"none", "ended"}]
          /\ opened \in [Clients -> 0 .. MaxChunks]
          /\ joined \in [Clients -> 0 .. MaxChunks]
          /\ dropped \in [Clients -> SUBSET (1 .. MaxChunks)]

Unread == [log |-> 0, status |-> "queued"]

Init == /\ row = "queued"
        /\ log = 0
        /\ written = 0
        /\ writer = "lock"
        /\ late = FALSE
        /\ subs = {}
        /\ open = {}
        /\ buffer = [c \in Clients |-> <<>>]
        /\ pc = [c \in Clients |-> "idle"]
        /\ dep = [c \in Clients |-> Unread]
        /\ sent = [c \in Clients |-> <<>>]
        /\ done = [c \in Clients |-> "none"]
        /\ opened = [c \in Clients |-> 0]
        /\ joined = [c \in Clients |-> 0]
        /\ dropped = [c \in Clients |-> {}]

-----------------------------------------------------------------------------
(* The deployment's goroutine.                                             *)

MarkRunning ==
    /\ writer = "lock"
    /\ row' = IF row = "absent" THEN row ELSE "running"
    /\ writer' = "run"
    /\ UNCHANGED <<log, written, late, bus, handlers, dropped>>

(* Write, first half: the chunk is appended to the row, if it is there.    *)
AppendLog ==
    /\ writer = "run"
    /\ written < MaxChunks
    /\ written' = written + 1
    /\ log' = IF row = "absent" THEN log ELSE log + 1
    /\ writer' = "publish"
    /\ UNCHANGED <<row, late, bus, handlers, dropped>>

Full == {c \in subs : Len(buffer[c]) = BufferSize}

(* Mutant: one subscriber that lags keeps the chunk from all of them.      *)
PublishUnlessFull ==
    /\ writer = "publish"
    /\ buffer' = [c \in Clients |-> IF c \in subs /\ Full = {}
                                    THEN Append(buffer[c], written) ELSE buffer[c]]
    /\ dropped' = [c \in Clients |-> IF c \in Full THEN dropped[c] \cup {written}
                                                   ELSE dropped[c]]
    /\ writer' = "run"
    /\ UNCHANGED <<row, log, written, late, subs, open, handlers>>

(* Write, second half: Publish never blocks; a full channel drops.         *)
Publish ==
    /\ writer = "publish"
    /\ buffer' = [c \in Clients |-> IF c \in subs \ Full
                                    THEN Append(buffer[c], written) ELSE buffer[c]]
    /\ dropped' = [c \in Clients |-> IF c \in Full THEN dropped[c] \cup {written}
                                                   ELSE dropped[c]]
    /\ writer' = "run"
    /\ UNCHANGED <<row, log, written, late, subs, open, handlers>>

(* finish: the outcome is recorded unless the context of the deployment    *)
(* has ended or the row is gone.                                           *)
Finish ==
    /\ writer = "run"
    /\ \/ /\ row' \in IF row = "absent" THEN {row} ELSE Finished
          /\ UNCHANGED late
       \/ late' = TRUE /\ UNCHANGED row
    /\ writer' = "close"
    /\ UNCHANGED <<log, written, bus, handlers, dropped>>

(* Mutant: the stream is closed when a command's output ends.              *)
CloseEarly ==
    /\ writer \in {"run", "close"}
    /\ writer' = IF writer = "close" THEN "done" ELSE writer
    /\ open' = open \ subs
    /\ subs' = {}
    /\ UNCHANGED <<row, log, written, late, buffer, handlers, dropped>>

(* Mutant: closed channels stay registered.                                *)
CloseAndKeep ==
    /\ writer = "close"
    /\ writer' = "done"
    /\ open' = open \ subs
    /\ UNCHANGED <<row, log, written, late, subs, buffer, handlers, dropped>>

(* Mutant: the map entry is deleted and the channels are left open.        *)
CloseNobody ==
    /\ writer = "close"
    /\ writer' = "done"
    /\ subs' = {}
    /\ UNCHANGED <<row, log, written, late, open, buffer, handlers, dropped>>

(* The deferred Bus.Close: every subscriber's channel is closed and the    *)
(* deployment's entry forgotten.                                           *)
Close ==
    /\ writer = "close"
    /\ writer' = "done"
    /\ open' = open \ subs
    /\ subs' = {}
    /\ UNCHANGED <<row, log, written, late, buffer, handlers, dropped>>

(* The environment is deleted and its deployments with it.                 *)
DeleteRow ==
    /\ row # "absent"
    /\ row' = "absent"
    /\ log' = 0
    /\ UNCHANGED <<written, writer, late, bus, handlers, dropped>>

-----------------------------------------------------------------------------
(* apiStreamLogs, one connection at a time.                                *)

Step(c, from, to) == pc[c] = from /\ pc' = [pc EXCEPT ![c] = to]

(* GetDeployment: a missing row is answered 404.                           *)
Open(c) ==
    /\ IF row = "absent"
       THEN Step(c, "idle", "left") /\ UNCHANGED <<dep, opened>>
       ELSE /\ Step(c, "idle", "subscribe")
            /\ dep' = [dep EXCEPT ![c] = [log |-> log, status |-> row]]
            /\ opened' = [opened EXCEPT ![c] = Published]
    /\ UNCHANGED <<pipeline, bus, sent, done, joined, dropped>>

Subscribe(c) ==
    /\ Step(c, "subscribe", "replay")
    /\ subs' = subs \cup {c}
    /\ open' = open \cup {c}
    /\ joined' = [joined EXCEPT ![c] = Published]
    /\ UNCHANGED <<pipeline, buffer, dep, sent, done, opened, dropped>>

(* Mutant: the log is read again after subscribing, to close the gap.      *)
ReplayReloaded(c) ==
    /\ pc[c] = "replay"
    /\ dep' = [dep EXCEPT ![c].log = log]
    /\ IF dep[c].status \in Finished
       THEN Step(c, "replay", "cancel") /\ done' = [done EXCEPT ![c] = dep[c].status]
       ELSE Step(c, "replay", "tail") /\ UNCHANGED done
    /\ UNCHANGED <<pipeline, bus, sent, opened, joined, dropped>>

(* The stored log is sent; a finished deployment's stream ends at once.    *)
Replay(c) ==
    /\ IF dep[c].status \in Finished
       THEN Step(c, "replay", "cancel") /\ done' = [done EXCEPT ![c] = dep[c].status]
       ELSE Step(c, "replay", "tail") /\ UNCHANGED done
    /\ UNCHANGED <<pipeline, bus, dep, sent, opened, joined, dropped>>

Receive(c) ==
    /\ pc[c] = "tail"
    /\ buffer[c] # <<>>
    /\ sent' = [sent EXCEPT ![c] = Append(@, Head(buffer[c]))]
    /\ buffer' = [buffer EXCEPT ![c] = Tail(@)]
    /\ UNCHANGED <<pipeline, subs, open, pc, dep, done, opened, joined, dropped>>

(* A closed channel first gives up what it holds.                          *)
End(c) ==
    /\ buffer[c] = <<>>
    /\ c \notin open
    /\ Step(c, "tail", "cancel")
    /\ done' = [done EXCEPT ![c] = IF row = "absent" THEN "ended" ELSE row]
    /\ UNCHANGED <<pipeline, bus, dep, sent, opened, joined, dropped>>

Disconnect(c) ==
    /\ Step(c, "tail", "cancel")
    /\ UNCHANGED <<pipeline, bus, dep, sent, done, opened, joined, dropped>>

(* The deferred cancel: closes the channel unless Close has.  What the     *)
(* handler knew, and what is left in its channel, goes with it.            *)
Cancel(c) ==
    /\ Step(c, "cancel", "left")
    /\ subs' = subs \ {c}
    /\ open' = IF c \in subs THEN open \ {c} ELSE open
    /\ buffer' = [buffer EXCEPT ![c] = <<>>]
    /\ dep' = [dep EXCEPT ![c] = Unread]
    /\ sent' = [sent EXCEPT ![c] = <<>>]
    /\ opened' = [opened EXCEPT ![c] = 0]
    /\ joined' = [joined EXCEPT ![c] = 0]
    /\ dropped' = [dropped EXCEPT ![c] = {}]
    /\ UNCHANGED <<pipeline, done>>

-----------------------------------------------------------------------------
Write == MarkRunning \/ AppendLog \/ Publish \/ Finish \/ Close

Handle(c) == Subscribe(c) \/ Replay(c) \/ Receive(c) \/ End(c) \/ Cancel(c)

Next == \/ Write \/ DeleteRow
        \/ \E c \in Clients : Open(c) \/ Handle(c) \/ Disconnect(c)

Spec == Init /\ [][Next]_vars

-----------------------------------------------------------------------------
(* Properties.                                                             *)

(* Bus: a registered channel is open.  Publish to a closed channel and     *)
(* closing one twice would both panic, and take the process down.          *)
RegisteredIsOpen == subs \subseteq open

(* logWriter.Write, Bus.Publish: what a tailing client misses is accounted *)
(* for.  Each chunk was in the stored log it was sent, or is on its way or *)
(* delivered, or met a full channel, or was published after the row was    *)
(* read and before the handler subscribed; no other subscriber matters.    *)
NothingLostSilently ==
    \A c \in Clients : pc[c] = "tail" =>
        \A i \in 1 .. Published :
            \/ i <= dep[c].log
            \/ i \in ToSet(sent[c]) \cup ToSet(buffer[c])
            \/ i \in dropped[c]
            \/ opened[c] < i /\ i <= joined[c]

(* apiStreamLogs: chunks come in the order they were written.  Between the *)
(* stored log and the live chunks at most one chunk is shown twice: the    *)
(* one that was stored but not yet published when the row was read.        *)
OneRepeatAtMost ==
    \A c \in Clients : pc[c] \in {"tail", "cancel"} =>
        LET live == sent[c] \o buffer[c] IN
        /\ \A i, j \in DOMAIN live : i < j => live[i] < live[j]
        /\ live # <<>> => live[1] >= dep[c].log

(* Engine.work defers Close before finish runs: the status in the done     *)
(* event is an outcome, unless the outcome was never recorded.             *)
DoneIsFinal ==
    \A c \in Clients : done[c] \in {"queued", "running"} => late
=============================================================================
