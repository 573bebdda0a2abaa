------------------------------ MODULE Launcher -------------------------------
(***************************************************************************)
(* The replay launcher (tools/replay_qa_launcher): a form, a preflight     *)
(* that enables Start, a worker thread that runs the request, and a queue  *)
(* of events the interface thread drains once per frame.  Composed with    *)
(* what the request does with its files (module Materials), which anybody  *)
(* may change between any two steps.                                       *)
(*                                                                         *)
(* Ledger, evidence and the take itself are other modules: here a take     *)
(* that starts ends in any way.  Of the phases the worker reports only     *)
(* `closed' changes more than a label, and is the only one queued.         *)
(***************************************************************************)
EXTENDS Materials, FiniteSets

CONSTANTS
    Forms,        \* the forms a prefill may leave, before the first frame
    MaxChanges,   \* bound: changes of files
    MaxEdits,     \* bound: edits of the form
    MaxStarts     \* bound: requests started

VARIABLES
    disk, changes,
    form, edits,     \* the fields
    env,             \* the ROM field the environment was last resolved for
    dirty, issues,   \* dirty_, and whether issues_ of the model has any
    active, results, \* what is shown of the request in progress or ended
    open,            \* file dialogs the person has open
    dialogs,         \* their answers, not yet applied
    ui,              \* where the interface thread is in its frame
    worker,          \* the runner's thread
    running,         \* the runner's active_
    queue            \* the runner's events_

files == <<disk, changes>>
fields == <<form, edits, env, dirty>>
shown == <<active, results>>
dialog == <<open, dialogs>>
vars == <<files, fields, issues, shown, dialog, ui, worker, running, queue>>

(* An outcome is the number of its request; 0 is none, and as an event the  *)
(* phase `closed'.  Its rows are those of module CheckSupervisor.           *)
NoResult == 0
Closed == 0

Idle == [pc |-> "idle", n |-> 0, req |-> CHOOSE q \in Forms : TRUE, pins |-> [r \in Roles |-> "none"],
         bad |-> FALSE, slot |-> 1, cancel |-> FALSE, stop |-> "", held |-> {}]

Init ==
    /\ disk = [[r \in Roles |-> "v2"] EXCEPT !["take"] = "v1", !["sidecar"] = "none"]
    /\ changes = 0
    /\ form \in Forms /\ edits = 0 /\ env = "" /\ dirty = TRUE /\ issues = FALSE
    /\ active = FALSE /\ results = NoResult
    /\ open = {} /\ dialogs = <<>>
    /\ ui = "dialogs" /\ worker = Idle /\ running = FALSE /\ queue = <<>>

(* request(): the environment fills the core that was not selected. *)
Request == IF form.core = "" /\ env # "" THEN [form EXCEPT !.core = env] ELSE form

-----------------------------------------------------------------------------
(* The files.  A file that is held for reading cannot be changed (Windows). *)

ChangeFile(r) ==
    /\ changes < MaxChanges /\ r \notin worker.held
    /\ changes' = changes + 1
    /\ \E c \in Contents \ {disk[r]} : disk' = [disk EXCEPT ![r] = c]
    /\ UNCHANGED <<fields, issues, shown, dialog, ui, worker, running, queue>>

-----------------------------------------------------------------------------
(* The interface thread. *)

DialogAnswers(flag) ==
    /\ flag \in open /\ open' = open \ {flag}
    /\ dialogs' \in {dialogs, Append(dialogs, flag)}
    /\ UNCHANGED <<files, fields, issues, shown, ui, worker, running, queue>>

(* One answer is applied: a ROM, with the environment resolved for it, or   *)
(* one more material.                                                       *)
AppliedAnswer(f, answer) ==
    IF answer \in Platforms THEN [f EXCEPT !.rom = answer]
    ELSE [f EXCEPT !.slots = Append(@, answer)]

(* apply_dialogs: while a request is shown as active the answers are        *)
(* dropped.                                                                 *)
ApplyDialogs ==
    /\ ui = "dialogs" /\ ui' = "drain"
    /\ dialogs' = <<>>
    /\ LET taken == IF active THEN <<>> ELSE dialogs
           roms == SelectSeq(taken, LAMBDA a : a \in Platforms)
       IN  /\ form' = FoldLeft(AppliedAnswer, form, taken)
           /\ env' = IF roms = <<>> THEN env ELSE Last(roms)
           /\ dirty' = (dirty \/ taken # <<>>)
    /\ UNCHANGED <<files, edits, issues, shown, open, worker, running, queue>>

(* on_phase and on_finished, for every event of the queue in order. *)
\* Fault: an outcome is shown only while the request is shown as active.
ShownWhileActive(s, event) ==
    IF s.active /\ event # Closed THEN [active |-> FALSE, results |-> event]
    ELSE [s EXCEPT !.active = FALSE]
Shown(s, event) == [active |-> FALSE, results |-> IF event = Closed THEN s.results ELSE event]

DrainRunner ==
    /\ ui = "drain" /\ ui' = "validate"
    /\ queue' = <<>>
    /\ LET s == FoldLeft(Shown, [active |-> active, results |-> results], queue)
       IN  active' = s.active /\ results' = s.results
    /\ UNCHANGED <<files, fields, issues, dialog, worker, running>>

(* The preflight of the launcher, run in the interface thread.  It waits    *)
(* until no field is being edited.                                          *)
Preflight(q, d, answers) ==
    IF ResolveIssues(q) # {} THEN ResolveIssues(q)
    ELSE PinIssues(q, d) \cup ProbeIssues(q, d, d, answers)

Revalidate ==
    /\ ui = "validate" /\ dirty /\ ~active
    /\ ui' = "draw" /\ dirty' = FALSE
    /\ \E answers \in BOOLEAN : issues' = (Preflight(Request, disk, answers) # {})
    /\ UNCHANGED <<files, form, edits, env, shown, dialog, worker, running, queue>>

NotValidated ==
    /\ ui = "validate" /\ ui' = "draw"
    /\ UNCHANGED <<files, fields, issues, shown, dialog, worker, running, queue>>

(* What the person may do in the frame that is drawn. *)

DrawOnly ==
    /\ ui = "draw" /\ ui' = "dialogs"
    /\ UNCHANGED <<files, fields, issues, shown, dialog, worker, running, queue>>

(* Typed or chosen values (set) and the lists of materials (remove_value,   *)
(* move_value, repeat_value).  Typing a ROM does not resolve the            *)
(* environment.                                                             *)
Edited(f) ==
    {[f EXCEPT !.rom = p] : p \in Platforms \ {f.rom}}
    \cup {[f EXCEPT !.pack = p] : p \in {"none", "hd"} \ {f.pack}}
    \cup {[f EXCEPT !.core = "own"]}
    \cup {[f EXCEPT !.slots = RemoveAt(@, i)] : i \in DOMAIN f.slots}
    \cup {[f EXCEPT !.slots = Append(@, f.slots[i])] : i \in DOMAIN f.slots}
    \cup {[f EXCEPT !.slots = Reverse(@)] : i \in {x \in {Len(f.slots)} : x = 2}}

Edit ==
    /\ ui = "draw" /\ ui' = "dialogs"
    /\ ~active /\ edits < MaxEdits /\ edits' = edits + 1
    /\ form' \in {f \in Edited(form) : Len(f.slots) <= 2}
    /\ dirty' = TRUE
    /\ UNCHANGED <<files, env, issues, shown, dialog, worker, running, queue>>

OpenDialog ==
    /\ ui = "draw" /\ ui' = "dialogs"
    /\ ~active /\ edits < MaxEdits /\ edits' = edits + 1
    /\ \E flag \in Platforms \cup (IF Len(form.slots) < 2 THEN {"take", "timeline"} ELSE {}) :
           open' = open \cup {flag}
    /\ UNCHANGED <<files, form, env, dirty, issues, shown, dialogs, worker, running, queue>>

CanStart == ~active /\ ~dirty /\ Complete(form) /\ ~issues

(* start() of the runner fails while its thread has not ended; otherwise    *)
(* the old thread is joined and a new one has a token of its own.           *)
Start ==
    /\ ui = "draw" /\ ui' = "dialogs"
    /\ CanStart /\ worker.n < MaxStarts
    /\ IF running THEN UNCHANGED <<worker, running, shown>>
       ELSE /\ worker' = [Idle EXCEPT !.pc = "prepare", !.n = worker.n + 1, !.req = Request]
            /\ running' = TRUE
            /\ active' = TRUE /\ results' = NoResult
    /\ UNCHANGED <<files, fields, issues, dialog, queue>>

(* cancel() of the runner. *)
Cancelling ==
    worker' = IF running THEN [worker EXCEPT !.cancel = TRUE] ELSE worker

Cancel ==
    /\ ui = "draw" /\ ui' = "dialogs" /\ active
    /\ Cancelling
    /\ UNCHANGED <<files, fields, issues, shown, dialog, running, queue>>

(* Closing the window cancels the request and waits for the thread. *)
CloseWindow ==
    /\ ui = "draw" /\ ui' = "joining"
    /\ Cancelling
    /\ UNCHANGED <<files, fields, issues, shown, dialog, running, queue>>

Join ==
    /\ ui = "joining" /\ worker.pc = "idle"
    /\ ui' = "closed"
    /\ UNCHANGED <<files, fields, issues, shown, dialog, worker, running, queue>>

Interface ==
    ApplyDialogs \/ DrainRunner \/ Revalidate \/ NotValidated \/ DrawOnly \/ Edit \/ OpenDialog
    \/ Start \/ Cancel \/ CloseWindow \/ Join

-----------------------------------------------------------------------------
(* The worker thread: RequestRun::run. *)

WorkerSteps(from, to, changed) ==
    /\ worker.pc = from
    /\ worker' = [changed EXCEPT !.pc = to]
    /\ UNCHANGED <<files, fields, issues, shown, dialog, ui, running>>

Validating ==
    /\ WorkerSteps("prepare", IF ResolveIssues(worker.req) = {} THEN "pin" ELSE "closing", worker)
    /\ UNCHANGED queue

(* Each material is read once; its handle is closed. *)
PinMaterials ==
    /\ WorkerSteps("pin", "probe",
                   [worker EXCEPT !.pins = disk, !.bad = PinIssues(worker.req, disk) # {}])
    /\ UNCHANGED queue

(* The probes read the files again.  Without an issue the request is        *)
(* admitted, or refused by the destination.                                 *)
ProbeMaterials(answers) ==
    LET clean == ~worker.bad /\ ProbeIssues(worker.req, worker.pins, disk, answers) = {}
    IN  /\ \E to \in {"closing"} \cup (IF clean THEN {"slot"} ELSE {}) :
               WorkerSteps("probe", to, worker)
        /\ UNCHANGED queue

Kind == worker.req.slots[worker.slot]
Held == SlotPins(worker.req, Kind, worker.pins)

Stop == IF worker.stop = "" /\ worker.cancel THEN "cancelled" ELSE worker.stop

(* The slot has its result; the handles are closed. *)
SlotDone(stop) == [worker EXCEPT !.slot = @ + 1, !.held = {}, !.stop = stop]

NextSlot ==
    /\ worker.slot <= Len(worker.req.slots)
    /\ IF Stop # ""
       THEN WorkerSteps("slot", "slot", SlotDone(Stop))
       ELSE WorkerSteps("slot", "hold", worker)
    /\ UNCHANGED queue

HoldFails(r) ==
    /\ worker.pc = "hold" /\ r \in Held /\ HoldCode(r, worker.pins, disk) # ""
    /\ WorkerSteps("hold", "slot", SlotDone("failed"))
    /\ UNCHANGED queue

HoldMaterials ==
    /\ worker.pc = "hold" /\ \A r \in Held : HoldCode(r, worker.pins, disk) = ""
    /\ WorkerSteps("hold", "runtime", [worker EXCEPT !.held = Held])
    /\ UNCHANGED queue

TakeEnds(row) ==
    /\ row = "cancelled" => worker.cancel
    /\ WorkerSteps("runtime", "slot", SlotDone(IF row = "natural_end" THEN "" ELSE row))
    /\ UNCHANGED queue

Settle ==
    /\ worker.slot > Len(worker.req.slots)
    /\ WorkerSteps("slot", "closing", worker) /\ UNCHANGED queue

(* finish() closes the phase; the outcome follows from the thread.          *)
Finish == WorkerSteps("closing", "outcome", worker) /\ queue' = Append(queue, Closed)

PushOutcome ==
    /\ WorkerSteps("outcome", "clear", worker)
    /\ queue' = Append(queue, worker.n)

ClearActive ==
    /\ worker.pc = "clear" /\ worker' = [Idle EXCEPT !.n = worker.n] /\ running' = FALSE
    /\ UNCHANGED <<files, fields, issues, shown, dialog, ui, queue>>

Worker ==
    \/ Validating \/ PinMaterials \/ (\E answers \in BOOLEAN : ProbeMaterials(answers))
    \/ NextSlot \/ HoldMaterials \/ (\E r \in Roles : HoldFails(r))
    \/ (\E row \in {"natural_end", "cancelled", "failed"} : TakeEnds(row))
    \/ Settle \/ Finish \/ PushOutcome \/ ClearActive

Next ==
    \/ \E r \in Roles : ChangeFile(r)
    \/ \E flag \in Platforms \cup {"take", "timeline"} : DialogAnswers(flag)
    \/ Interface \/ Worker

Spec == Init /\ [][Next]_vars

-----------------------------------------------------------------------------
TypeOK ==
    /\ disk \in [Roles -> Contents] /\ changes \in 0 .. MaxChanges
    /\ form.rom \in Platforms \cup {""} /\ Len(form.slots) <= 4 /\ edits \in 0 .. MaxEdits
    /\ env \in Platforms \cup {""} /\ dirty \in BOOLEAN
    /\ active \in BOOLEAN /\ running \in BOOLEAN
    /\ ui \in {"dialogs", "drain", "validate", "draw", "joining", "closed"}
    /\ worker.n \in 0 .. MaxStarts /\ worker.held \subseteq Roles

(* While the Runtime runs, every file it opens is the one the request       *)
(* validated, whatever was changed since, in whatever order; except two     *)
(* that nothing pins and nothing holds: the soft patch, which may be        *)
(* replaced after the validation, and a side car put next to the bookmark   *)
(* after it.  (hold_materials, check_runner.cpp:325-330; --patch,           *)
(* check_execution.cpp:181.)                                                *)
ConsumedIsValidated ==
    worker.pc = "runtime" =>
        \A r \in RuntimeReads(worker.req, Kind, disk) :
            \/ disk[r] = worker.pins[r]
            \/ r = "patch"
            \/ r = "sidecar" /\ ~SidecarSeen(worker.pins)

(* A preflight without issues has found everything it then dereferences,    *)
(* though its files may change between the pins and the probes.             *)
(* (request_preflight.cpp:365-380.)                                         *)
NothingAbsentIsUsed ==
    worker.pc = "probe" /\ ~worker.bad =>
        \A answers \in BOOLEAN :
            ProbeIssues(worker.req, worker.pins, disk, answers) = {}
                => Dereferenced \subseteq Found(worker.req, worker.pins, disk, answers)

(* Once the runner is at rest and its events are drained, what is shown is  *)
(* the outcome of the last request started, though the outcome of an older  *)
(* one may arrive after the new one was started.  (launcher_runner.cpp:     *)
(* 27-47, LauncherModel::on_phase and on_finished.)                         *)
ShownIsTheLastRequest ==
    ui = "validate" /\ ~running /\ queue = <<>> /\ worker.n > 0 =>
        ~active /\ results = worker.n

(* While a request runs the person can cancel it.  (README.md of the        *)
(* launcher, step 6.)                                                       *)
CancelIsOfferedWhileRunning ==
    ui = "draw" /\ worker.pc \in {"slot", "hold", "runtime"} => active
=============================================================================
