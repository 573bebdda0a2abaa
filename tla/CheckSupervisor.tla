--------------------------- MODULE CheckSupervisor ---------------------------
(***************************************************************************)
(* `ayther_audio_qa check' over one destination directory: RequestRun::run *)
(* (tools/audio_qa/check_runner.cpp) with the destination lock, the        *)
(* durable request ledger, the occupancy of the session, admission, the    *)
(* take loop, the recovery of interrupted runs, and the request summary.   *)
(*                                                                         *)
(* Each supervisor is one invocation of the tool (a process), so it runs   *)
(* at most once and its identity doubles as the run id it generates, which *)
(* the code draws from 128 random bits.  What is on disk is `ledger' and   *)
(* `summary'; `mem' is lost when the process ends or crashes, and the lock *)
(* is freed.  A Runtime process outlives the supervisor that launched it.  *)
(***************************************************************************)
EXTENDS RequestArbiter, Sequences, FiniteSets

CONSTANTS Supervisors,     \* invocations of the tool, and their run ids
          Requests,        \* request identities
          Contents,        \* the conditions and materials of a request
          Nobody,          \* the free lock
          TakeCount,       \* materials of every request
          MaxEntries,      \* max_registered_requests
          PublishFaults,   \* how publish_durable_file may fail
          LockCanFail,     \* the lock file may be impossible to open
          Exclusive        \* nobody starts a check while another one is active

ASSUME NobodyAssumption == Nobody \notin Supervisors
ASSUME RequestsAssumption == IsFiniteSet(Requests)
ASSUME TakeCountAssumption == TakeCount \in Nat \ {0}
ASSUME MaxEntriesAssumption == MaxEntries \in Nat
ASSUME ExclusiveAssumption == Exclusive \in BOOLEAN
ASSUME LockCanFailAssumption == LockCanFail \in BOOLEAN
\* "preserved": the target is left alone.  "replaced": the rename took place and
\* the flush of the parent directory failed.
ASSUME PublishFaultsAssumption == PublishFaults \subseteq {"preserved", "replaced"}

VARIABLES pc,         \* where each supervisor is in RequestRun::run
          req,        \* the request each one carries
          content,    \* and its content
          cancel,     \* its CancelToken
          lock,       \* holder of .ayther-qa-check.lock
          ledger,     \* request-ledger.toml
          summary,    \* request-summary.toml of each run
          mem,        \* the local state of each supervisor
          outcome,    \* what the invocation reported when it ended
          launched,   \* <<run, take>> of every Runtime ever launched
          alive       \* those whose process still exists
input == <<req, content>>
runtimes == <<launched, alive>>
vars == <<pc, input, cancel, lock, ledger, summary, mem, outcome, runtimes>>

NoEntry == [id |-> Nobody]
NoSummary == [exit |-> 0]
NoOutcome == [status |-> "none", exit |-> 0, confirmed |-> FALSE]

\* Request and Run of model.h, as the ledger keeps them.  RequestRun registers a
\* run in `preparing' and only ever moves it to `closed'.
Entries ==
    [id : Supervisors, content : Contents, phase : {"preparing", "closed"},
     playback : {"not_started", "natural_end", "cancelled", "error"},
     evidence : {"pending", "complete", "incomplete"}, ceased : BOOLEAN]

\* The vector of entries, which never holds a request twice, by request.
Ledgers == [Requests -> Entries \cup {NoEntry}]
EmptyLedger == [r \in Requests |-> NoEntry]

NotStartedReasons == {"not_started_after_cancellation", "not_started_after_failure"}

\* One row of the summary.  `complete' is the technical outcome.
Rows == [playback : PlaybackKinds \cup {"not_started"}, reason : NotStartedReasons \cup {"none"},
         complete : BOOLEAN]

Summaries == [request : Requests, content : Contents, exit : {0, 2}, takes : Seq(Rows)]

\* view: the RequestLedger in memory.  todo: requests whose open runs are still to
\* be recovered.  arb, rows, ceased: the take loop.
Memories == [view : Ledgers, todo : SUBSET Requests, arb : Arbiters, rows : Seq(Rows),
             ceased : BOOLEAN]
NoMemory == [view |-> EmptyLedger, todo |-> {}, arb |-> NewArbiter, rows |-> <<>>,
             ceased |-> TRUE]

Outcomes ==
    [status : {"none", "rejected", "unavailable", "busy", "conflict", "capacity", "inconsistent",
               "unpublished", "unconfirmed", "in_progress", "unreadable", "summary"},
     exit : {0, 2, 3, 4}, confirmed : BOOLEAN]

Steps == {"idle", "open", "recover", "recover_close", "register", "known",
          "takes", "playing", "running", "summary", "closed", "crashed"}
Active(s) == pc[s] \notin {"idle", "closed", "crashed"}

TypeOK ==
    /\ pc \in [Supervisors -> Steps]
    /\ req \in [Supervisors -> Requests]
    /\ content \in [Supervisors -> Contents]
    /\ cancel \in [Supervisors -> BOOLEAN]
    /\ lock \in Supervisors \cup {Nobody}
    /\ ledger \in Ledgers
    /\ summary \in [Supervisors -> Summaries \cup {NoSummary}]
    /\ mem \in [Supervisors -> Memories]
    /\ outcome \in [Supervisors -> Outcomes]
    /\ launched \subseteq Supervisors \X (1..TakeCount)
    /\ alive \subseteq launched

Used(entries) == {r \in Requests : entries[r] # NoEntry}
Open(entries) == {r \in Used(entries) : entries[r].phase # "closed"}

Init ==
    /\ pc = [s \in Supervisors |-> "idle"]
    /\ req \in [Supervisors -> Requests]
    /\ content \in [Supervisors -> Contents]
    /\ cancel = [s \in Supervisors |-> FALSE]
    /\ lock = Nobody
    /\ ledger = EmptyLedger
    /\ summary = [s \in Supervisors |-> NoSummary]
    /\ mem = [s \in Supervisors |-> NoMemory]
    /\ outcome = [s \in Supervisors |-> NoOutcome]
    /\ launched = {}
    /\ alive = {}

-----------------------------------------------------------------------------
\* Steps every path shares.

Goto(s, step) ==
    /\ pc' = [pc EXCEPT ![s] = step]
    /\ UNCHANGED <<outcome, lock>>

\* The process is gone: its memory is lost and the system frees the lock.
Leave(s, step) ==
    /\ pc' = [pc EXCEPT ![s] = step]
    /\ mem' = [mem EXCEPT ![s] = NoMemory]
    /\ lock' = IF lock = s THEN Nobody ELSE lock

\* finish(): the phase is closed and the outcome returned.
Finish(s, status, exit, confirmed) ==
    /\ Leave(s, "closed")
    /\ outcome' = [outcome EXCEPT ![s] = [status |-> status, exit |-> exit,
                                          confirmed |-> confirmed]]

PublishResults == {"published"} \cup PublishFaults

\* RequestLedger::publish replaces the whole file by what this supervisor remembers,
\* without looking at what is there; update_run publishes nothing without a change.
LedgerAfter(s, entries, result) ==
    IF result = "preserved" \/ entries = mem[s].view THEN ledger ELSE entries

\* Memory follows the file only when the publication was reported durable.
ViewAfter(s, entries, result) == IF result = "published" THEN entries ELSE mem[s].view

-----------------------------------------------------------------------------
\* Start, lock, ledger, recovery.

\* An invalid request is rejected before anything exists in the destination.
Reject(s) ==
    /\ pc[s] = "idle"
    /\ Finish(s, "rejected", 3, FALSE)
    /\ UNCHANGED <<input, cancel, ledger, summary, runtimes>>

\* DestinationLock tries the lock without waiting; run() goes on either way.
Start(s) ==
    /\ pc[s] = "idle"
    /\ Exclusive => \A t \in Supervisors : ~Active(t)
    /\ pc' = [pc EXCEPT ![s] = "open"]
    /\ \/ lock' = IF lock = Nobody THEN s ELSE lock
       \/ LockCanFail /\ lock' = lock
    /\ UNCHANGED <<input, cancel, ledger, summary, mem, outcome, runtimes>>

\* Fault: every known run is recovered, the closed ones too.
OpenLedgerRecoverAll(s) ==
    /\ pc[s] = "open"
    /\ mem' = [mem EXCEPT ![s].view = ledger,
                          ![s].todo = IF lock = s THEN Used(ledger) ELSE {}]
    /\ Goto(s, "recover")
    /\ UNCHANGED <<input, cancel, ledger, summary, runtimes>>

\* open_request_ledger; only the holder of the lock recovers the open runs.
OpenLedger(s) ==
    /\ pc[s] = "open"
    /\ mem' = [mem EXCEPT ![s].view = ledger,
                          ![s].todo = IF lock = s THEN Open(ledger) ELSE {}]
    /\ Goto(s, "recover")
    /\ UNCHANGED <<input, cancel, ledger, summary, runtimes>>

LedgerUnavailable(s) ==
    /\ pc[s] = "open"
    /\ Finish(s, "unavailable", 4, FALSE)
    /\ UNCHANGED <<input, cancel, ledger, summary, runtimes>>

\* recover_open_runs takes the open runs one by one.
Recovered(s) == CHOOSE r \in mem[s].todo : TRUE

\* recover_interrupted_run marks the evidence of the open run incomplete; when the
\* checkpoint cannot be examined it publishes nothing.
RecoverMark(s) ==
    /\ pc[s] = "recover"
    /\ mem[s].todo # {}
    /\ \E result \in PublishResults \cup {"preserved"} :
         LET marked == [mem[s].view EXCEPT ![Recovered(s)].evidence = "incomplete"]
         IN  /\ ledger' = LedgerAfter(s, marked, result)
             /\ mem' = [mem EXCEPT ![s].view = ViewAfter(s, marked, result)]
    /\ Goto(s, "recover_close")
    /\ UNCHANGED <<input, cancel, summary, runtimes>>

\* The run as recover_open_runs closes it: nobody saw its process end.
Interrupted(run) ==
    [run EXCEPT !.phase = "closed", !.evidence = "incomplete", !.ceased = FALSE,
                !.playback = IF run.playback = "not_started" THEN "error" ELSE run.playback]

\* Fault: a recovery that cannot be published is tried again.
RecoverCloseRetry(s) ==
    /\ pc[s] = "recover_close"
    /\ \E result \in PublishResults :
         LET r == Recovered(s)
             closed == [mem[s].view EXCEPT ![r] = Interrupted(mem[s].view[r])]
         IN  /\ ledger' = LedgerAfter(s, closed, result)
             /\ mem' = [mem EXCEPT ![s].view = ViewAfter(s, closed, result),
                                   ![s].todo = IF result = "published" THEN mem[s].todo \ {r}
                                               ELSE mem[s].todo]
    /\ Goto(s, "recover")
    /\ UNCHANGED <<input, cancel, summary, runtimes>>

\* The result of the update is ignored and the next open run follows.
RecoverClose(s) ==
    /\ pc[s] = "recover_close"
    /\ \E result \in PublishResults :
         LET r == Recovered(s)
             closed == [mem[s].view EXCEPT ![r] = Interrupted(mem[s].view[r])]
         IN  /\ ledger' = LedgerAfter(s, closed, result)
             /\ mem' = [mem EXCEPT ![s].view = ViewAfter(s, closed, result),
                                   ![s].todo = mem[s].todo \ {r}]
    /\ Goto(s, "recover")
    /\ UNCHANGED <<input, cancel, summary, runtimes>>

-----------------------------------------------------------------------------
\* Admission: restore_check_occupancy and admit_check_request, on the view.

Known(s) == mem[s].view[req[s]] # NoEntry
Conflict(s) == Known(s) /\ mem[s].view[req[s]].content # content[s]
Full(s) == Cardinality(Used(mem[s].view)) >= MaxEntries
\* A run that is not closed occupies the session; two cannot be restored.
Occupied(s) == Open(mem[s].view) # {}
Inconsistent(s) == Cardinality(Open(mem[s].view)) > 1

\* The decisions that end the invocation, in the order the code takes them.
Refusal(s) ==
    IF Inconsistent(s) THEN "inconsistent"
    ELSE IF Known(s) THEN (IF Conflict(s) THEN "conflict" ELSE "none")
    ELSE IF Full(s) THEN "capacity"
    ELSE IF Occupied(s) THEN "busy"
    ELSE "none"

Refuse(s) ==
    /\ pc[s] = "recover"
    /\ mem[s].todo = {}
    /\ Refusal(s) # "none"
    /\ Finish(s, Refusal(s), IF Refusal(s) = "inconsistent" THEN 4 ELSE 3, FALSE)
    /\ UNCHANGED <<input, cancel, ledger, summary, runtimes>>

Admit(s) ==
    /\ pc[s] = "recover"
    /\ mem[s].todo = {}
    /\ Refusal(s) = "none"
    /\ Goto(s, IF Known(s) THEN "known" ELSE "register")
    /\ UNCHANGED <<input, cancel, ledger, summary, mem, runtimes>>

\* known(): the stored summary is returned as it is, without running anything.
ReportKnown(s) ==
    /\ pc[s] = "known"
    /\ LET run == mem[s].view[req[s]]
           doc == summary[run.id]
       IN  \/ /\ doc # NoSummary
              /\ Finish(s, "summary", doc.exit, TRUE)
           \/ /\ doc # NoSummary
              /\ Finish(s, "unreadable", 4, FALSE)
           \/ /\ doc = NoSummary
              /\ Finish(s, IF run.phase = "closed" THEN "unconfirmed" ELSE "in_progress",
                        2, FALSE)
    /\ UNCHANGED <<input, cancel, ledger, summary, runtimes>>

NewEntry(s) ==
    [id |-> s, content |-> content[s], phase |-> "preparing", playback |-> "not_started",
     evidence |-> "pending", ceased |-> FALSE]

\* Fault: a request that could not be published runs all the same.
RegisterUnchecked(s) ==
    /\ pc[s] = "register"
    /\ \E result \in PublishResults :
         LET entries == [mem[s].view EXCEPT ![req[s]] = NewEntry(s)]
         IN  /\ ledger' = LedgerAfter(s, entries, result)
             /\ mem' = [mem EXCEPT ![s].view = entries]
             /\ Goto(s, "takes")
    /\ UNCHANGED <<input, cancel, summary, runtimes>>

\* register_request: the request is durable before anything of it runs.
Register(s) ==
    /\ pc[s] = "register"
    /\ \E result \in PublishResults :
         LET entries == [mem[s].view EXCEPT ![req[s]] = NewEntry(s)]
         IN  /\ ledger' = LedgerAfter(s, entries, result)
             /\ IF result = "published"
                  THEN mem' = [mem EXCEPT ![s].view = entries] /\ Goto(s, "takes")
                  ELSE Finish(s, "unpublished", 4, FALSE)
    /\ UNCHANGED <<input, cancel, summary, runtimes>>

-----------------------------------------------------------------------------
\* The takes, in order.

Slot(s) == Len(mem[s].rows) + 1
TakesDone(s) == Len(mem[s].rows) >= TakeCount

\* The arbiter as the loop sees it before a take: a requested cancellation stops it.
BeforeTake(s) == IF cancel[s] THEN Cancel(mem[s].arb) ELSE mem[s].arb

SkipTake(s) ==
    /\ pc[s] = "takes"
    /\ ~TakesDone(s)
    /\ StopRequested(BeforeTake(s))
    /\ mem' = [mem EXCEPT ![s].arb = BeforeTake(s),
                          ![s].rows = Append(mem[s].rows,
                             [playback |-> "not_started", complete |-> FALSE,
                              reason |-> NotStartedReason(BeforeTake(s))])]
    /\ UNCHANGED <<pc, input, cancel, lock, ledger, summary, outcome, runtimes>>

StartTake(s) ==
    /\ pc[s] = "takes"
    /\ ~TakesDone(s)
    /\ ~StopRequested(BeforeTake(s))
    /\ mem' = [mem EXCEPT ![s].arb = BeginTake(mem[s].arb)]
    /\ Goto(s, "playing")
    /\ UNCHANGED <<input, cancel, ledger, summary, runtimes>>

\* execute_check_replay reaches launch_runtime_process.
Launch(s) ==
    /\ pc[s] = "playing"
    /\ launched' = launched \cup {<<s, Slot(s)>>}
    /\ alive' = alive \cup {<<s, Slot(s)>>}
    /\ Goto(s, "running")
    /\ UNCHANGED <<input, cancel, ledger, summary, mem>>

\* The take is over with arbiter a; its cessation joins that of the earlier ones.
EndTake(s, a, complete, ceased) ==
    /\ mem' = [mem EXCEPT
                 ![s].arb = a,
                 ![s].ceased = mem[s].ceased /\ ceased,
                 ![s].rows = Append(mem[s].rows,
                    [playback |-> Playback(a), reason |-> "none",
                     complete |-> complete /\ Playback(a) = "natural_end"])]
    /\ Goto(s, "takes")
    /\ UNCHANGED <<input, cancel, ledger, summary, runtimes>>

\* hold_materials found a changed material: failed, whatever the token says.
MaterialChanged(s) ==
    /\ pc[s] = "playing"
    /\ EndTake(s, Confirm(Fail(mem[s].arb, "failed")), FALSE, TRUE)

\* An error before the launch: nothing ran, so there is nothing to cease.
NotLaunched(s) ==
    /\ pc[s] = "playing"
    /\ EndTake(s, Settle(mem[s].arb, cancel[s], "error"), FALSE, TRUE)

\* Evidence comes back only after the process exited and the evidence closed.
ReturnEvidence(s) ==
    /\ pc[s] = "running"
    /\ <<s, Slot(s)>> \notin alive
    /\ \E playback \in PlaybackKinds, complete \in BOOLEAN :
         EndTake(s, Settle(mem[s].arb, cancel[s], playback), complete, TRUE)

\* Fault: closed evidence is taken for the end of the process.
ReturnErrorHalfCeased(s) ==
    /\ pc[s] = "running"
    /\ \E exited, closed \in BOOLEAN :
         /\ exited => <<s, Slot(s)>> \notin alive
         /\ EndTake(s, Settle(mem[s].arb, cancel[s], "error"), FALSE, exited \/ closed)

\* An error comes back at any point; ReplayCessation::confirmed() needs both the
\* exit of the process and the end of its evidence.
ReturnError(s) ==
    /\ pc[s] = "running"
    /\ \E exited, closed \in BOOLEAN :
         /\ exited => <<s, Slot(s)>> \notin alive
         /\ EndTake(s, Settle(mem[s].arb, cancel[s], "error"), FALSE, exited /\ closed)

-----------------------------------------------------------------------------
\* Closing.

\* exit_code: the highest of the takes, 0 complete and 2 incomplete.
ExitCode(takes) == IF \A i \in DOMAIN takes : takes[i].complete THEN 0 ELSE 2

Played(takes, kind) == {i \in DOMAIN takes : takes[i].playback = kind}

FinalRun(s) ==
    LET takes == mem[s].rows
    IN  [id |-> s, content |-> content[s], phase |-> "closed",
         playback |-> IF Played(takes, "cancelled") # {} THEN "cancelled"
                      ELSE IF Played(takes, "natural_end") = DOMAIN takes THEN "natural_end"
                      ELSE "error",
         evidence |-> IF ExitCode(takes) = 0 THEN "complete" ELSE "incomplete",
         ceased |-> mem[s].ceased]

\* Fault: the summary is written for a run the ledger could not close.
CloseRunUnchecked(s) ==
    /\ pc[s] = "takes"
    /\ TakesDone(s)
    /\ \E result \in PublishResults :
         LET entries == [mem[s].view EXCEPT ![req[s]] = FinalRun(s)]
         IN  /\ ledger' = LedgerAfter(s, entries, result)
             /\ mem' = [mem EXCEPT ![s].view = entries]
             /\ Goto(s, "summary")
    /\ UNCHANGED <<input, cancel, summary, runtimes>>

CloseRun(s) ==
    /\ pc[s] = "takes"
    /\ TakesDone(s)
    /\ \E result \in PublishResults :
         LET entries == [mem[s].view EXCEPT ![req[s]] = FinalRun(s)]
         IN  /\ ledger' = LedgerAfter(s, entries, result)
             /\ IF result = "published"
                  THEN mem' = [mem EXCEPT ![s].view = entries] /\ Goto(s, "summary")
                  ELSE Finish(s, "unpublished", 4, FALSE)
    /\ UNCHANGED <<input, cancel, summary, runtimes>>

SummaryOf(s) ==
    [request |-> req[s], content |-> content[s], exit |-> ExitCode(mem[s].rows),
     takes |-> mem[s].rows]

\* Fault: the outcome is confirmed although its summary was not published.
WriteSummaryUnchecked(s) ==
    /\ pc[s] = "summary"
    /\ \E result \in PublishResults :
         summary' = IF result = "preserved" THEN summary
                    ELSE [summary EXCEPT ![s] = SummaryOf(s)]
    /\ Finish(s, "summary", ExitCode(mem[s].rows), TRUE)
    /\ UNCHANGED <<input, cancel, ledger, runtimes>>

\* The summary is durable before the outcome is confirmed.
WriteSummary(s) ==
    /\ pc[s] = "summary"
    /\ \E result \in PublishResults :
         /\ summary' = IF result = "preserved" THEN summary
                       ELSE [summary EXCEPT ![s] = SummaryOf(s)]
         /\ IF result = "published"
              THEN Finish(s, "summary", ExitCode(mem[s].rows), TRUE)
              ELSE Finish(s, "unpublished", 4, FALSE)
    /\ UNCHANGED <<input, cancel, ledger, runtimes>>

-----------------------------------------------------------------------------
\* The environment.

\* Ctrl+C, or the cancel button of the launcher.
RequestCancel(s) ==
    /\ Active(s)
    /\ ~cancel[s]
    /\ cancel' = [cancel EXCEPT ![s] = TRUE]
    /\ UNCHANGED <<pc, input, lock, ledger, summary, mem, outcome, runtimes>>

Crash(s) ==
    /\ Active(s)
    /\ Leave(s, "crashed")
    /\ UNCHANGED <<input, cancel, ledger, summary, outcome, runtimes>>

\* A Runtime process ends, whoever is still there to see it.
RuntimeExits ==
    /\ \E process \in alive : alive' = alive \ {process}
    /\ UNCHANGED <<pc, input, cancel, lock, ledger, summary, mem, outcome, launched>>

Run(s) ==
    \/ OpenLedger(s) \/ LedgerUnavailable(s) \/ RecoverMark(s) \/ RecoverClose(s)
    \/ Refuse(s) \/ Admit(s) \/ ReportKnown(s) \/ Register(s)
    \/ SkipTake(s) \/ StartTake(s) \/ Launch(s) \/ MaterialChanged(s) \/ NotLaunched(s)
    \/ ReturnEvidence(s) \/ ReturnError(s) \/ CloseRun(s) \/ WriteSummary(s)

Next ==
    \/ \E s \in Supervisors : Reject(s) \/ Start(s) \/ Run(s) \/ RequestCancel(s) \/ Crash(s)
    \/ RuntimeExits

Spec == Init /\ [][Next]_vars

\* A supervisor that started keeps going, except that it waits for the end of its
\* Runtime: reading the data channel has no deadline.  Every Runtime ends.
FairSpec ==
    /\ Spec
    /\ \A s \in Supervisors :
         WF_vars((pc[s] = "running" => <<s, Slot(s)>> \notin alive) /\ Run(s))
    /\ WF_vars(RuntimeExits)

-----------------------------------------------------------------------------
\* What makes the supervisor correct.

\* Runs that ever had a Runtime launched for them.
Executed == {p[1] : p \in launched}

(***************************************************************************)
(* RF-2.3, RNF-5: a request is executed at most once, whatever crashed or  *)
(* failed to be published before it was asked for again.                   *)
(***************************************************************************)
RequestExecutedOnce ==
    \A s, t \in Executed : req[s] = req[t] => s = t

(***************************************************************************)
(* restore_check_occupancy expects at most one open run in the ledger.     *)
(***************************************************************************)
OneOpenRun == Cardinality(Open(ledger)) <= 1

(***************************************************************************)
(* A durable summary belongs to a run that the durable ledger has closed   *)
(* with the same result: the ledger is published first, and a recovery     *)
(* never touches a run that reached its summary.                           *)
(***************************************************************************)
SummaryAgreesWithLedger ==
    \A s \in Supervisors : summary[s] # NoSummary =>
        LET entry == ledger[summary[s].request]
            takes == summary[s].takes
        IN  /\ entry # NoEntry
            /\ entry.id = s
            /\ entry.phase = "closed"
            /\ entry.content = summary[s].content
            /\ entry.evidence = "complete" <=> summary[s].exit = 0
            /\ entry.playback = "natural_end" <=> Played(takes, "natural_end") = DOMAIN takes

(***************************************************************************)
(* What the next invocation finds is consistent: at most one open run, and *)
(* ledger and summaries that say the same (request_ledger.cpp: update_run; *)
(* check_runner.cpp: run).                                                 *)
(***************************************************************************)
LedgerIsSound == OneOpenRun /\ SummaryAgreesWithLedger

(***************************************************************************)
(* RNF-5: the ledger confirms the cessation of a run only when no Runtime  *)
(* process of any of its takes is left.                                    *)
(***************************************************************************)
CessationMeansGone ==
    \A r \in Used(ledger) :
        ledger[r].ceased => \A p \in alive : p[1] # ledger[r].id

(***************************************************************************)
(* A take starts only when the Runtimes of the earlier takes of the same   *)
(* request are gone: an execution that could not see its process exit      *)
(* stops the request.                                                      *)
(***************************************************************************)
TakesDoNotOverlap ==
    \A p, q \in alive : p[1] = q[1] => p = q

(***************************************************************************)
(* The Runtimes of a request are accounted for, while its takes run and    *)
(* once its run is closed (check_runner.cpp: run_take, close_run).         *)
(***************************************************************************)
RuntimesAreAccountedFor == CessationMeansGone /\ TakesDoNotOverlap

(***************************************************************************)
(* RF-2.3: a confirmed outcome is the one in the durable summary of the    *)
(* same request, also for an invocation that only asked for a known one.   *)
(***************************************************************************)
ConfirmedIsDurable ==
    \A s \in Supervisors : outcome[s].confirmed =>
        \E t \in Supervisors :
            /\ summary[t] # NoSummary
            /\ summary[t].request = req[s]
            /\ summary[t].content = content[s]
            /\ summary[t].exit = outcome[s].exit

(***************************************************************************)
(* RF-2.5: the takes that did not start are the last ones and all give the *)
(* same reason: the failure of the last take that ran, or else a           *)
(* cancellation, which somebody must have asked for if no take ran.        *)
(***************************************************************************)
NotStartedTakesSayWhy ==
    \A s \in Supervisors : LET takes == mem[s].rows IN
        \A i \in Played(takes, "not_started") :
            /\ \A j \in i..Len(takes) :
                 takes[j].playback = "not_started" /\ takes[j].reason = takes[i].reason
            /\ i = 1 => cancel[s] /\ takes[i].reason = "not_started_after_cancellation"
            /\ i > 1 /\ takes[i - 1].playback \in FailureKinds =>
                 takes[i].reason = "not_started_after_failure"
            /\ i > 1 /\ takes[i - 1].playback \in {"natural_end", "cancelled"} =>
                 takes[i].reason = "not_started_after_cancellation"

(***************************************************************************)
(* What an invocation answers is what is kept, and the takes it never      *)
(* started say truly why (check_runner.cpp: known, run, not_started).      *)
(***************************************************************************)
OutcomesAreTrue == ConfirmedIsDurable /\ NotStartedTakesSayWhy

(***************************************************************************)
(* Nothing that a crash or a fault does reopens a run: once closed in the  *)
(* durable ledger a run keeps its result, and no entry is ever dropped.    *)
(***************************************************************************)
ClosedRunsAreFinal ==
    [][\A r \in Used(ledger) :
         /\ ledger'[r] # NoEntry
         /\ ledger'[r].id = ledger[r].id
         /\ ledger[r].phase = "closed" => ledger'[r] = ledger[r]]_vars

(***************************************************************************)
(* Every invocation that starts ends, by reporting or by crashing.         *)
(***************************************************************************)
InvocationsEnd == \A s \in Supervisors : Active(s) ~> ~Active(s)

-----------------------------------------------------------------------------
\* What the comments of check_runner.cpp say and the code does not ensure.

(***************************************************************************)
(* "whoever holds it knows that any run the ledger still has open was left *)
(* by an interrupted supervisor": a run about to be recovered belongs to a *)
(* supervisor that is no longer active.                                    *)
(***************************************************************************)
RecoversOnlyInterrupted ==
    \A s \in Supervisors : \A r \in mem[s].todo : ~Active(mem[s].view[r].id)

(***************************************************************************)
(* "A closed run was recovered as incomplete": a known request whose run   *)
(* is closed without a summary has a run with incomplete evidence.         *)
(***************************************************************************)
UnconfirmedWasRecovered ==
    \A s \in Supervisors : outcome[s].status = "unconfirmed" =>
        ledger[req[s]].evidence = "incomplete"
=============================================================================
