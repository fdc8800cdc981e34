----------------------------- MODULE CommandLog -----------------------------
(***************************************************************************)
(* The commands of a deployment (sh.Stream) and the log that their output  *)
(* goes to: LogStream, with the pipeline that writes it.                   *)
(*                                                                         *)
(* A command is a child process, the pipe it prints to, and the goroutine  *)
(* that scans the pipe, stores each line as a chunk and then waits for the *)
(* child.  The pipe is shared with whatever the child starts, and a        *)
(* process it leaves behind, an heir, keeps the pipe open.  The deadline   *)
(* of the deployment kills the child and nobody else.                      *)
(***************************************************************************)
EXTENDS LogStream

CONSTANTS MaxCommands,  \* bound: commands of the pipeline
          PipeSize      \* lines that the pipe holds

ASSUME CommandLogAssumption == MaxCommands \in Nat /\ PipeSize \in Nat \ {0}

(* A line of 1 MiB or more is too long for the scanner.                    *)
Lines == {"line", "long"}

VARIABLES
    at,         \* where Stream is: "idle" outside of it, "scan", "wait"
    child,      \* the process it started: "none", "runs", "ended"
    heir,       \* a process that the child started has the pipe
    pipe,       \* lines printed and not scanned
    commands,   \* commands started
    over        \* the deployment's 30 minutes are over

command == <<at, child, heir, pipe, commands, over>>
cvars   == <<vars, command>>

CommandTypeOK ==
    /\ at \in {"idle", "scan", "wait"}
    /\ child \in {"none", "runs", "ended"}
    /\ heir \in BOOLEAN
    /\ pipe \in Seq(Lines)
    /\ commands \in 0 .. MaxCommands
    /\ over \in BOOLEAN

CommandInit == /\ Init
               /\ at = "idle"
               /\ child = "none"
               /\ heir = FALSE
               /\ pipe = <<>>
               /\ commands = 0
               /\ over = FALSE

-----------------------------------------------------------------------------
(* The deployment's goroutine.                                             *)

(* What was printed will be in the log: the bound on chunks is kept by     *)
(* those who print.                                                        *)
Room == written + Len(pipe) < MaxChunks

(* Printf, and the banner of a command.                                    *)
Say == /\ at = "idle"
       /\ Room
       /\ AppendLog
       /\ UNCHANGED command

(* Start is refused once the context has ended.                            *)
StartCommand ==
    /\ writer = "run" /\ at = "idle"
    /\ ~over
    /\ commands < MaxCommands
    /\ commands' = commands + 1
    /\ at' = "scan"
    /\ child' = "runs"
    /\ UNCHANGED <<vars, heir, pipe, over>>

ScanLine ==
    /\ at = "scan"
    /\ pipe # <<>> /\ Head(pipe) = "line"
    /\ pipe' = Tail(pipe)
    /\ AppendLog
    /\ UNCHANGED <<at, child, heir, commands, over>>

(* Scan gives up, and nobody reads the pipe any more.                      *)
ScanStops ==
    /\ writer = "run" /\ at = "scan"
    /\ pipe # <<>> /\ Head(pipe) = "long"
    /\ at' = "wait"
    /\ UNCHANGED <<vars, child, heir, pipe, commands, over>>

(* Mutant: the goroutine waits for the child, not for the end of its       *)
(* output.                                                                 *)
EndOfChild ==
    /\ writer = "run" /\ at = "scan"
    /\ child = "ended"
    /\ at' = "wait"
    /\ UNCHANGED <<vars, child, heir, pipe, commands, over>>

(* The pipe is at its end when it is empty and nobody has it any more.     *)
EndOfFile ==
    /\ writer = "run" /\ at = "scan"
    /\ pipe = <<>>
    /\ child = "ended" /\ ~heir
    /\ at' = "wait"
    /\ UNCHANGED <<vars, child, heir, pipe, commands, over>>

(* Wait: the child has ended; the pipe is closed, with what is in it.      *)
Return ==
    /\ at = "wait" /\ child = "ended"
    /\ at' = "idle"
    /\ child' = "none"
    /\ heir' = FALSE
    /\ pipe' = <<>>
    /\ UNCHANGED <<vars, commands, over>>

(* The outcome is recorded unless the context has ended.                   *)
EndPipeline ==
    /\ at = "idle"
    /\ Finish
    /\ late' = over
    /\ UNCHANGED command

-----------------------------------------------------------------------------
(* The processes, and the clock.                                           *)

Emit(l) ==
    /\ child = "runs" \/ heir
    /\ at # "idle"
    /\ Len(pipe) < PipeSize /\ Room
    /\ pipe' = Append(pipe, l)
    /\ UNCHANGED <<vars, at, child, heir, commands, over>>

LeaveHeir ==
    /\ child = "runs" /\ ~heir
    /\ heir' = TRUE
    /\ UNCHANGED <<vars, at, child, pipe, commands, over>>

HeirEnds ==
    /\ heir
    /\ heir' = FALSE
    /\ UNCHANGED <<vars, at, child, pipe, commands, over>>

ChildEnds ==
    /\ child = "runs"
    /\ child' = "ended"
    /\ UNCHANGED <<vars, at, heir, pipe, commands, over>>

Expire ==
    /\ writer \in {"run", "publish"}
    /\ ~over
    /\ over' = TRUE
    /\ UNCHANGED <<vars, at, child, heir, pipe, commands>>

(* Mutant: the child is killed by those who wait for it.                   *)
KillInWait ==
    /\ over /\ at = "wait" /\ child = "runs"
    /\ child' = "ended"
    /\ UNCHANGED <<vars, at, heir, pipe, commands, over>>

(* CommandContext: the end of the context kills the child, wherever Stream *)
(* is.                                                                     *)
Kill ==
    /\ over /\ child = "runs"
    /\ child' = "ended"
    /\ UNCHANGED <<vars, at, heir, pipe, commands, over>>

-----------------------------------------------------------------------------
Pipeline == \/ MarkRunning /\ UNCHANGED command
            \/ Say \/ StartCommand \/ ScanLine \/ ScanStops \/ EndOfFile \/ Return
            \/ Publish /\ UNCHANGED command
            \/ EndPipeline
            \/ Close /\ UNCHANGED command

Processes == \/ \E l \in Lines : Emit(l)
             \/ LeaveHeir \/ HeirEnds \/ ChildEnds \/ Expire \/ Kill

CommandNext == \/ Pipeline \/ Processes
               \/ DeleteRow /\ UNCHANGED command
               \/ \E c \in Clients : /\ Open(c) \/ Handle(c) \/ Disconnect(c)
                                     /\ UNCHANGED command

CommandSpec == CommandInit /\ [][CommandNext]_cvars

(* Goroutines run when nothing blocks them, thirty minutes pass, a process *)
(* that is killed is gone.  Nothing makes a process end by itself.         *)
CommandFairness ==
    /\ WF_cvars(Pipeline) /\ WF_cvars(Expire) /\ WF_cvars(Kill)
    /\ \A c \in Clients : WF_cvars(Handle(c) /\ UNCHANGED command)

CommandFairSpec == CommandSpec /\ CommandFairness

-----------------------------------------------------------------------------
(* Properties.                                                             *)

(* sh.Stream, "copying merged stdout/stderr to out as it arrives": when it *)
(* returns, nothing that was printed is left behind, whoever printed it    *)
(* and whenever, unless a line was too long for the scanner.               *)
OutputIsWhole ==
    [][at = "wait" /\ at' = "idle" => pipe = <<>> \/ Head(pipe) = "long"]_cvars

(* The child is gone, and one that it left behind has its output open.     *)
OutputHeld == at = "scan" /\ child = "ended" /\ heir

(* deployTimeout: whatever its commands print, start or wait for, a        *)
(* deployment comes to its end and frees the mutex, unless an heir keeps   *)
(* the output of a command open for good: no deadline ends that.           *)
PipelineEnds == <>[]OutputHeld \/ (writer = "run" ~> writer = "done")

(* apiStreamLogs, Bus.Close: a subscriber that is there when the           *)
(* deployment ends is told so, even if its channel is full or its client   *)
(* never leaves, with the same exception; and of the others only a handler *)
(* that read an unfinished row and subscribed behind the close is left     *)
(* waiting for it.                                                         *)
SubscribersAreReleased ==
    \/ <>[]OutputHeld
    \/ \A c \in Clients :
        /\ c \in subs /\ writer # "done" ~> pc[c] = "left"
        /\ pc[c] = "subscribe" ~>
              \/ pc[c] = "left"
              \/ writer = "done" /\ c \in subs /\ dep[c].status \notin Finished
=============================================================================
