--------------------------- MODULE RuntimeProcesses ---------------------------
(****************************************************************************)
(* The processes the tool starts and the pipes between them: a take's        *)
(* Runtime, with a control and a data channel (launch_runtime_process,       *)
(* inherited_channel.cpp), and at the same time, from another thread, a      *)
(* query of the Runtime that reads what the child prints                     *)
(* (query_runtime_process), as when the launcher checks its form again while *)
(* a request runs.                                                           *)
(*                                                                           *)
(* An end of a pipe is open as long as some process holds it.  Bytes are     *)
(* counted; a pipe keeps their order.                                        *)
(****************************************************************************)
EXTENDS Integers, FiniteSets

CONSTANTS
    Timeout,        \* timeout_ms of the query, in waits of 10 ms
    MaxOutput,      \* max_output_bytes of the query
    MaxPrinted,     \* bound on the bytes the queried process prints
    MaxSent         \* bound on the messages the Runtime sends

VARIABLES
    binary,         \* TRUE while the file is the one that was identified
    held,           \* held[p] = the ends process p holds
    inheritable,    \* the ends of the tool a child may be given
    alive,          \* the children that run
    take,           \* the thread that executes the take
    data, control,  \* messages in the take's pipes
    query,          \* the thread that queries
    printed, pipe,  \* bytes the queried process has printed, and those not read yet
    result          \* what query_runtime_process returned
vars == <<binary, held, inheritable, alive, take, data, control, query, printed, pipe, result>>

Children == {"runtime", "queried"}
Ends == {"data.r", "data.w", "control.r", "control.w", "out.r", "out.w"}
Idle == [at |-> "idle", available |-> 0, output |-> 0, exited |-> FALSE, elapsed |-> 0]

Init ==
    /\ binary = TRUE
    /\ held = [p \in Children \cup {"tool"} |-> {}]
    /\ inheritable = {} /\ alive = {}
    /\ take = [at |-> "idle", sent |-> 0, received |-> 0, ended |-> FALSE]
    /\ data = 0 /\ control = 0
    /\ query = Idle /\ printed = 0 /\ pipe = 0 /\ result = "none"

Closed(ends) == [held EXCEPT !["tool"] = @ \ ends]
Opened(ends) == [held EXCEPT !["tool"] = @ \cup ends]
Broken(end) == \A p \in DOMAIN held : end \notin held[p]

\* Another program replaces the Runtime's file.
ReplaceBinary ==
    /\ binary /\ binary' = FALSE
    /\ UNCHANGED <<held, inheritable, alive, take, data, control, query, printed, pipe, result>>

IdentityMatches == binary
Inheritable(ends) == ends \subseteq inheritable

\* Fault: a child is given everything that can be inherited.
EverythingInheritable(ends) == inheritable

\* PROC_THREAD_ATTRIBUTE_HANDLE_LIST: a child is given the ends of the list and no others.
HandedDown(ends) == ends

Spawned(child, ends) ==
    /\ held' = [held EXCEPT ![child] = HandedDown(ends)]
    /\ alive' = alive \cup {child}

(****************************************************************************)
(* The take                                                                  *)
(****************************************************************************)
TakeTo(at) == take' = [take EXCEPT !.at = at]

\* Both ends of a new pipe can be inherited until the tool's own is taken out.
CreateControl ==
    /\ take.at = "idle" /\ TakeTo("control")
    /\ held' = Opened({"control.r", "control.w"})
    /\ inheritable' = inheritable \cup {"control.r", "control.w"}
    /\ UNCHANGED <<binary, alive, data, control, query, printed, pipe, result>>

CreateData ==
    /\ take.at = "control" /\ TakeTo("data")
    /\ held' = Opened({"data.r", "data.w"})
    /\ inheritable' = (inheritable \cup {"data.r", "data.w"}) \ {"control.w"}
    /\ UNCHANGED <<binary, alive, data, control, query, printed, pipe, result>>

ConfigureData ==
    /\ take.at = "data" /\ TakeTo("channels")
    /\ inheritable' = inheritable \ {"data.r"}
    /\ UNCHANGED <<binary, held, alive, data, control, query, printed, pipe, result>>

LaunchRuntime(created) ==
    /\ take.at = "channels"
    /\ IF created /\ IdentityMatches /\ Inheritable({"control.r", "data.w"})
       THEN /\ TakeTo("launched") /\ Spawned("runtime", {"control.r", "data.w"})
            /\ UNCHANGED inheritable
       ELSE /\ TakeTo("over") /\ UNCHANGED alive
            /\ held' = Closed({"control.r", "control.w", "data.r", "data.w"})
            /\ inheritable' = inheritable \ {"control.r", "data.w"}
    /\ UNCHANGED <<binary, data, control, query, printed, pipe, result>>

\* The tool drops its copies of the Runtime's ends.
CloseCopies ==
    /\ take.at = "launched" /\ TakeTo("running")
    /\ held' = Closed({"control.r", "data.w"})
    /\ inheritable' = inheritable \ {"control.r", "data.w"}
    /\ UNCHANGED <<binary, alive, data, control, query, printed, pipe, result>>

\* write_channel fails when nobody can read any more.
WriteControl ==
    /\ take.at = "running" /\ take.sent < MaxSent
    /\ IF Broken("control.r")
       THEN take' = [take EXCEPT !.at = "over"] /\ held' = Closed({"control.w", "data.r"})
            /\ UNCHANGED control
       ELSE take' = [take EXCEPT !.sent = @ + 1] /\ control' = control + 1 /\ UNCHANGED held
    /\ UNCHANGED <<binary, inheritable, alive, data, query, printed, pipe, result>>

\* read_channel: what is in the pipe first, the end once no writer is left.
ReadData ==
    /\ take.at = "running"
    /\ \/ /\ data > 0 /\ data' = data - 1
          /\ take' = [take EXCEPT !.received = @ + 1] /\ UNCHANGED held
       \/ /\ data = 0 /\ Broken("data.w")
          /\ take' = [take EXCEPT !.at = "over", !.ended = TRUE]
          /\ held' = Closed({"control.w", "data.r"}) /\ UNCHANGED data
    /\ UNCHANGED <<binary, inheritable, alive, control, query, printed, pipe, result>>

(****************************************************************************)
(* The Runtime of the take                                                   *)
(****************************************************************************)
\* adopt_inherited_data_channel: the token of an end it holds.
Adopts(end) == end \in held["runtime"]

SendData ==
    /\ "runtime" \in alive /\ Adopts("data.w") /\ ~Broken("data.r")
    /\ take.received + data < MaxSent /\ data' = data + 1
    /\ UNCHANGED <<binary, held, inheritable, alive, take, control, query, printed, pipe, result>>

\* poll_channel, then read_channel when something is pending.
Poll(end, pending) == IF pending > 0 THEN "pending" ELSE IF Broken(end) THEN "closed" ELSE "idle"

ReadControl ==
    /\ "runtime" \in alive /\ Adopts("control.r")
    /\ Poll("control.w", control) = "pending" /\ control' = control - 1
    /\ UNCHANGED <<binary, held, inheritable, alive, take, data, query, printed, pipe, result>>

Exits(child) == /\ child \in alive /\ alive' = alive \ {child}
                /\ held' = [held EXCEPT ![child] = {}]

RuntimeExits ==
    /\ Exits("runtime")
    /\ UNCHANGED <<binary, inheritable, take, data, control, query, printed, pipe, result>>

(****************************************************************************)
(* query_runtime_process                                                     *)
(****************************************************************************)
Returns(outcome) ==
    /\ query' = [query EXCEPT !.at = "over"] /\ result' = outcome
    /\ held' = Closed({"out.r", "out.w"})
    /\ inheritable' = inheritable \ {"out.r", "out.w"}

StartQuery ==
    /\ query.at = "idle"
    /\ \/ /\ IdentityMatches
          /\ query' = [query EXCEPT !.at = "pipe"]
          /\ held' = Opened({"out.r", "out.w"})
          /\ inheritable' = inheritable \cup {"out.r", "out.w"}
          /\ UNCHANGED result
       \/ ~IdentityMatches /\ Returns("identity_mismatch")
    /\ UNCHANGED <<binary, alive, take, data, control, printed, pipe>>

CreateQueried(created) ==
    /\ query.at = "pipe"
    /\ \/ /\ created
          /\ inheritable' = inheritable \ {"out.r"}
          /\ Spawned("queried", {"out.w"})
          /\ query' = [query EXCEPT !.at = "created"] /\ UNCHANGED result
       \/ ~created /\ Returns("launch_failed") /\ UNCHANGED alive
    /\ UNCHANGED <<binary, take, data, control, printed, pipe>>

DropWriteEnd ==
    /\ query.at = "created"
    /\ query' = [query EXCEPT !.at = "peek"]
    /\ held' = Closed({"out.w"}) /\ inheritable' = inheritable \ {"out.w"}
    /\ UNCHANGED <<binary, alive, take, data, control, printed, pipe, result>>

\* PeekNamedPipe; a broken pipe has nothing available.
Peek ==
    /\ query.at = "peek"
    /\ query' = [query EXCEPT !.at = "read", !.available = pipe]
    /\ UNCHANGED <<binary, held, inheritable, alive, take, data, control, printed, pipe, result>>

\* TerminateProcess and a bounded wait.
Terminates == /\ query' = [query EXCEPT !.at = "over"]
              /\ alive' = alive \ {"queried"}
              /\ held' = [held EXCEPT !["queried"] = {}, !["tool"] = @ \ {"out.r"}]
              /\ UNCHANGED inheritable

\* The pipe cannot be looked at or read.
PipeFails ==
    /\ \/ query.at = "peek"
       \/ query.at = "read" /\ query.available > 0
    /\ Terminates /\ result' = "io_failed"
    /\ UNCHANGED <<binary, take, data, control, printed, pipe>>

\* The bytes seen available are read in pieces.
Read(bytes) ==
    /\ query.at = "read" /\ bytes \in 1..query.available
    /\ IF query.output + bytes > MaxOutput
       THEN Terminates /\ result' = "output_too_large" /\ UNCHANGED pipe
       ELSE /\ query' = [query EXCEPT !.output = @ + bytes, !.available = @ - bytes]
            /\ pipe' = pipe - bytes
            /\ UNCHANGED <<held, inheritable, alive, result>>
    /\ UNCHANGED <<binary, take, data, control, printed>>

\* Once the process was seen gone the pipe has been read one last time.
Drained == query.available = 0 /\ query.exited

Finish ==
    /\ query.at = "read" /\ Drained
    /\ Returns("output")
    /\ UNCHANGED <<binary, alive, take, data, control, printed, pipe>>

TimedOut(elapsed) == elapsed >= Timeout

\* WaitForSingleObject(10): gone, still running, or too late.
Wait ==
    /\ query.at = "read" /\ query.available = 0 /\ ~Drained
    /\ \/ /\ "queried" \notin alive
          /\ query' = [query EXCEPT !.at = "peek", !.exited = TRUE]
          /\ UNCHANGED <<held, inheritable, alive, result>>
       \/ /\ "queried" \in alive /\ ~TimedOut(query.elapsed)
          /\ query' = [query EXCEPT !.at = "peek", !.elapsed = IF @ < Timeout THEN @ + 1 ELSE @]
          /\ UNCHANGED <<held, inheritable, alive, result>>
       \/ /\ "queried" \in alive /\ TimedOut(query.elapsed)
          /\ Terminates /\ result' = "timed_out"
    /\ UNCHANGED <<binary, take, data, control, printed, pipe>>

\* The wait itself fails: the child is left to itself.
WaitFails ==
    /\ query.at = "read" /\ query.available = 0 /\ ~query.exited
    /\ Returns("io_failed")
    /\ UNCHANGED <<binary, alive, take, data, control, printed, pipe>>

PrintOutput ==
    /\ "queried" \in alive /\ "out.w" \in held["queried"] /\ ~Broken("out.r")
    /\ printed < MaxPrinted
    /\ printed' = printed + 1 /\ pipe' = pipe + 1
    /\ UNCHANGED <<binary, held, inheritable, alive, take, data, control, query, result>>

QueriedExits ==
    /\ Exits("queried")
    /\ UNCHANGED <<binary, inheritable, take, data, control, query, printed, pipe, result>>

QueryStep == \/ StartQuery \/ DropWriteEnd \/ Peek \/ Finish \/ Wait \/ WaitFails \/ PipeFails
             \/ \E created \in BOOLEAN : CreateQueried(created)
             \/ \E bytes \in 1..MaxPrinted : Read(bytes)
TakeStep == \/ CreateControl \/ CreateData \/ ConfigureData \/ CloseCopies
            \/ \E created \in BOOLEAN : LaunchRuntime(created)
Next == \/ QueryStep \/ TakeStep \/ WriteControl \/ ReadData
        \/ ReplaceBinary \/ SendData \/ ReadControl \/ RuntimeExits
        \/ PrintOutput \/ QueriedExits
Spec == Init /\ [][Next]_vars

\* The threads run; a child may hang for ever.
FairSpec == Spec /\ WF_vars(QueryStep) /\ WF_vars(TakeStep) /\ WF_vars(ReadData)

--------------------------------------------------------------------------------
(* A query that returns output returns all of it: nothing the process        *)
(* printed before it ended is left in the pipe, however its last prints, its *)
(* exit and the reader's peeks and waits interleave                          *)
(* (runtime_process.cpp: query_runtime_process).                             *)
QueryIsWhole == result = "output" => query.output = printed

(* Once a child is gone and the tool dropped its own copies, the reader of   *)
(* the child's pipe finds the end: no process started meanwhile by another   *)
(* thread keeps the writing end open, nor the end the Runtime listens on     *)
(* (runtime_process.cpp: launch_runtime_process, inherited_channel.cpp).     *)
GoneMeansEnded ==
    /\ (take.at = "running" /\ "runtime" \notin alive) => Broken("data.w") /\ Broken("control.r")
    /\ (query.at \in {"peek", "read"} /\ "queried" \notin alive) => Broken("out.w")
    /\ take.at = "over" => Broken("control.w")

(* A query returns, even when the process it asks never ends or never stops  *)
(* printing (runtime_process.cpp: query_runtime_process).                    *)
Asking == query.at = "peek"
Answered == query.at = "over"
QueryReturns == Asking ~> Answered
================================================================================
