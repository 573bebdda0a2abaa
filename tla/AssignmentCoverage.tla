---------------------------- MODULE AssignmentCoverage ---------------------------
(***************************************************************************)
(* What was seen of the assignments of a pack.  Observations of the        *)
(* inventory and rows of coverage arrive in any order, more than once or   *)
(* not at all; three summaries are made of what arrived: of the inventory, *)
(* of the assignments no stage of the music was seen of, and by assignment *)
(* over several runs.                                                      *)
(***************************************************************************)
EXTENDS Naturals, Sequences, FiniteSets
LOCAL INSTANCE SequencesExt

CONSTANTS Observations,  \* assignments as they may be observed: id, load, reason
          Rows,          \* rows of coverage: run, id and an observation by stage
          References,    \* what the inventory is compared with: pack, fixed, extent
          Requests,      \* reports that are asked for: run, extent
          MaxObservations, MaxRows    \* bounds on what arrives
VARIABLES inventory, rows, summary, report, aggregation

vars == <<inventory, rows, summary, report, aggregation>>

Stages == {"load", "candidates", "selections", "playback_starts", "playback_advances",
           "playback_ends", "preexisting_occurrences"}
Heard == {"candidates", "selections", "playback_starts", "playback_advances", "playback_ends"}
Loads == {"unknown", "pending", "loaded", "rejected"}

-----------------------------------------------------------------------------
(* well_formed.  A count is a sequence of at most one; so is the fact that reported it. *)

WellFormedAssignment(a) == a.load \in Loads /\ (a.load = "rejected" => a.reason # << >>)

ValidStage(stage, run) ==
    /\ stage.fact # << >> => stage.fact[1] = run
    /\ stage.extent = "not_observed" => stage.count = << >>
    /\ stage.extent = "complete" => stage.count # << >> /\ stage.fact # << >>

WellFormedRow(row) == \A s \in Stages : ValidStage(row.stages[s], row.run)

Classify(stage) ==
    IF stage.count # << >> /\ stage.count[1] > 0 THEN "observed"
    ELSE IF stage.extent = "complete" /\ stage.count # << >> THEN "observed_zero" ELSE "unknown"

First(s) == SelectSeq([n \in DOMAIN s |-> n], LAMBDA n : \A m \in 1..(n - 1) : s[m] # s[n])
\* The values of a sequence, each where it is first.
Once(s) == [k \in DOMAIN First(s) |-> s[First(s)[k]]]
IdsOf(s) == [n \in DOMAIN s |-> s[n].id]

-----------------------------------------------------------------------------
(* summarize_assignment_inventory *)

Known(value) == <<value>>
Unknown == << >>
NoSummary(status, problem, duplicates) ==
    [status |-> status, problem |-> problem, observed |-> 0, duplicates |-> duplicates, count |-> Unknown,
     expected |-> Unknown, loads |-> Unknown, matches |-> Unknown]

\* The first observation of each assignment; another one that differs is a conflict.
Conflicts(seen) == SelectSeq(seen, LAMBDA a :
                       a # seen[SelectInSeq(seen, LAMBDA b : b.id = a.id)])
Kept(seen) == SelectSeq([n \in DOMAIN seen |-> n], LAMBDA n : \A m \in 1..(n - 1) : seen[m].id # seen[n].id)

\* Fault: an assignment is counted in every state it was observed in.
CountsEveryState(seen) ==
    Known([load \in Loads |-> Cardinality({a \in ToSet(seen) : a.load = load})])
LoadCounts(seen) ==
    IF Conflicts(seen) # << >> THEN Unknown
    ELSE Known([load \in Loads |-> Len(SelectSeq(Kept(seen), LAMBDA n : seen[n].load = load))])

Summarized(reference, seen) ==
    LET observed == Len(Kept(seen))
        count == IF reference.extent = "complete" THEN Known(observed) ELSE Unknown
        expected == IF reference.fixed # << >> THEN reference.fixed ELSE count
    IN  [status |-> IF Conflicts(seen) = << >> THEN "summarized" ELSE "conflicting_duplicate",
         problem |-> IF Conflicts(seen) = << >> THEN << >> ELSE Known(Conflicts(seen)[1].id),
         observed |-> observed, duplicates |-> Len(seen) - observed, count |-> count,
         expected |-> expected, loads |-> LoadCounts(seen),
         matches |-> IF count = Unknown \/ expected = Unknown THEN Unknown ELSE Known(count = expected)]

SummarizeInventory(reference, seen) ==
    LET refused == SelectInSeq(seen, LAMBDA a : ~WellFormedAssignment(a) \/ a.id.pack # reference.pack)
        before == SubSeq(seen, 1, refused - 1)
    IN  IF reference.extent = "not_observed" /\ seen # << >> THEN NoSummary("invalid_reference", << >>, 0)
        ELSE IF refused # 0
        THEN NoSummary(IF WellFormedAssignment(seen[refused]) THEN "pack_mismatch" ELSE "invalid_assignment",
                       Known(seen[refused].id), Len(before) - Len(Kept(before)))
        ELSE Summarized(reference, seen)

-----------------------------------------------------------------------------
(* summarize_assignment_coverage *)

NoReport(status) == [status |-> status, detected |-> 0, total |-> Unknown, pending |-> << >>]

Detected(row) == \E s \in Heard : Classify(row.stages[s]) = "observed"

\* Rows are examined in order: the first one that cannot be used says why.
RowError(request, seen, n) ==
    IF ~WellFormedRow(rows[n]) \/ rows[n].run # request.run \/ ~Contains(IdsOf(seen), rows[n].id)
    THEN "invalid_coverage"
    ELSE IF \E m \in 1..(n - 1) : rows[m].id = rows[n].id THEN "duplicate_coverage" ELSE "none"
RowErrors(request, seen) ==
    SelectSeq([n \in DOMAIN rows |-> RowError(request, seen, n)], LAMBDA error : error # "none")

Reported(request, seen) ==
    LET covered == {row.id : row \in {r \in ToSet(rows) : Detected(r)}}
    IN  [status |-> "summarized", detected |-> Cardinality(covered),
         total |-> IF request.extent = "complete" THEN Known(Cardinality(covered)) ELSE Unknown,
         pending |-> SelectSeq(Once(IdsOf(seen)), LAMBDA id : id \notin covered)]

SummarizeCoverage(request, seen) ==
    IF request.extent = "not_observed" /\ rows # << >> THEN NoReport("invalid_request")
    ELSE IF \E a \in ToSet(seen) : ~WellFormedAssignment(a) THEN NoReport("invalid_inventory")
    ELSE IF RowErrors(request, seen) # << >> THEN NoReport(RowErrors(request, seen)[1])
    ELSE Reported(request, seen)

-----------------------------------------------------------------------------
(* aggregate_assignment_coverage *)

AggregateError(n) ==
    IF ~WellFormedRow(rows[n]) THEN "invalid_coverage"
    ELSE IF \E m \in 1..(n - 1) : rows[m].run = rows[n].run /\ rows[m].id = rows[n].id
    THEN "duplicate_run_assignment" ELSE "none"

Aggregate ==
    LET errors == SelectSeq([n \in DOMAIN rows |-> AggregateError(n)], LAMBDA error : error # "none")
        ids == Once(IdsOf(rows))
        Of(id) == SelectSeq(rows, LAMBDA row : row.id = id)
    IN  IF errors # << >> THEN [status |-> errors[1], assignments |-> << >>]
        ELSE [status |-> "aggregated",
              assignments |-> [k \in DOMAIN ids |->
                  [id |-> ids[k],
                   stages |-> [s \in Stages |-> [n \in DOMAIN Of(ids[k]) |->
                       [run |-> Of(ids[k])[n].run, observation |-> Of(ids[k])[n].stages[s]]]]]]]

-----------------------------------------------------------------------------
Init ==
    /\ inventory = << >> /\ rows = << >>
    /\ summary = << >> /\ report = << >> /\ aggregation = << >>

Open == summary = << >> /\ report = << >> /\ aggregation = << >>

Observe(a) ==
    /\ Open /\ Len(inventory) < MaxObservations
    /\ inventory' = Append(inventory, a) /\ UNCHANGED <<rows, summary, report, aggregation>>

AddRow(row) ==
    /\ Open /\ Len(rows) < MaxRows
    /\ rows' = Append(rows, row) /\ UNCHANGED <<inventory, summary, report, aggregation>>

AskInventory(reference) ==
    /\ Open /\ summary' = <<reference, SummarizeInventory(reference, inventory)>>
    /\ UNCHANGED <<inventory, rows, report, aggregation>>

AskCoverage(request) ==
    /\ Open /\ report' = <<request, SummarizeCoverage(request, inventory)>>
    /\ UNCHANGED <<inventory, rows, summary, aggregation>>

AskAggregation ==
    /\ Open /\ aggregation' = <<Aggregate>>
    /\ UNCHANGED <<inventory, rows, summary, report>>

Next ==
    \/ \E a \in Observations : Observe(a)
    \/ \E row \in Rows : AddRow(row)
    \/ \E reference \in References : AskInventory(reference)
    \/ \E request \in Requests : AskCoverage(request)
    \/ AskAggregation

Spec == Init /\ [][Next]_vars

-----------------------------------------------------------------------------
(***************************************************************************)
(* Every assignment that was observed is counted once, in the one state    *)
(* all its observations agree on, or no state is counted; nothing that was *)
(* only partly looked at is given a total.  (summarize_assignment_         *)
(* inventory.)                                                             *)
(***************************************************************************)
InventoryAddsUp ==
    summary # << >> /\ summary[2].status \in {"summarized", "conflicting_duplicate"} =>
        LET s == summary[2]
            ids == {a.id : a \in ToSet(inventory)}
            In(load) == {id \in ids : \E a \in ToSet(inventory) : a.id = id /\ a.load = load}
        IN  /\ s.observed = Cardinality(ids) /\ s.observed + s.duplicates = Len(inventory)
            /\ (s.loads = Unknown) <=> (Cardinality(ToSet(inventory)) > Cardinality(ids))
            /\ s.loads # Unknown => \A load \in Loads : s.loads[1][load] = Cardinality(In(load))
            /\ s.matches # Unknown => summary[1].extent = "complete"

(***************************************************************************)
(* An assignment of the inventory is pending or some row of the run saw a  *)
(* stage of it, never both, however often it was observed, and the runs of *)
(* an aggregation are the rows, none lost, doubled or put under another    *)
(* assignment.  (summarize_assignment_coverage, aggregate_assignment_      *)
(* coverage.)                                                              *)
(***************************************************************************)
EveryAssignmentIsPlaced ==
    /\ report # << >> /\ report[2].status = "summarized" =>
        LET pending == report[2].pending
            Seen(id) == \E row \in ToSet(rows) : /\ row.id = id /\ row.run = report[1].run
                            /\ \E s \in Heard : row.stages[s].count \notin {<< >>, <<0>>}
        IN  /\ \A a \in ToSet(inventory) :
                   Cardinality({n \in DOMAIN pending : pending[n] = a.id}) = IF Seen(a.id) THEN 0 ELSE 1
            /\ report[2].detected + Len(pending) = Cardinality({a.id : a \in ToSet(inventory)})
    /\ aggregation # << >> /\ aggregation[1].status = "aggregated" =>
        \A s \in Stages :
            LET all == UNION {{<<a.id, o>> : o \in ToSet(a.stages[s])} : a \in ToSet(aggregation[1].assignments)}
            IN  /\ all = {<<row.id, [run |-> row.run, observation |-> row.stages[s]]>> : row \in ToSet(rows)}
                /\ Len(rows) = FoldLeft(LAMBDA n, a : n + Len(a.stages[s]), 0, aggregation[1].assignments)
================================================================================
