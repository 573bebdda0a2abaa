------------------------ MODULE CheckSupervisorProofs ------------------------
(***************************************************************************)
(* Proofs about CheckSupervisor for every number of invocations, requests, *)
(* takes and faults.  Its states are well formed, the answers are true and *)
(* the Runtimes are accounted for, however many supervisors run at once.   *)
(* As long as no check is started while another one is active on the same  *)
(* destination, a request is executed at most once, the ledger is sound    *)
(* and a closed run is final.                                              *)
(***************************************************************************)
EXTENDS CheckSupervisor, RequestArbiterProofs, FiniteSetTheorems

-----------------------------------------------------------------------------
\* The inductive invariants.

\* What each supervisor knows at the step it is about to take.
KnowsItsStep(s) ==
    /\ pc[s] \in {"recover", "recover_close"} => mem[s].todo \subseteq Used(mem[s].view)
    /\ pc[s] = "recover_close" => mem[s].todo # {}
    /\ pc[s] = "known" => mem[s].view[req[s]] # NoEntry
    /\ pc[s] \in {"playing", "running"} =>
         mem[s].arb = BeginTake(NewArbiter) /\ Slot(s) \in 1..TakeCount

TypeInv == TypeOK /\ \A s \in Supervisors : KnowsItsStep(s)

\* Which run the durable ledger has for a request, as its supervisor sees it.
Running == {"takes", "playing", "running", "summary"}
Reading == {"recover", "recover_close", "register", "known"} \cup Running

Alone == \A s, t \in Supervisors : Active(s) /\ Active(t) => s = t

ViewIsCurrent ==
    \A s \in Supervisors : pc[s] \in Reading =>
        \A r \in Requests : mem[s].view[r].id = ledger[r].id

RunIsRegistered == \A s \in Supervisors : pc[s] \in Running => ledger[req[s]].id = s

RegistersOnlyNew ==
    \A s \in Supervisors : pc[s] = "register" => mem[s].view[req[s]].id = Nobody

ExecutedIsRegistered == \A p \in launched : ledger[req[p[1]]].id = p[1]

IdInv ==
    /\ Alone
    /\ ViewIsCurrent
    /\ RunIsRegistered
    /\ RegistersOnlyNew
    /\ ExecutedIsRegistered

-----------------------------------------------------------------------------
\* Typing.

\* Facts about values that many steps store.
LEMMA ValueTypes ==
    /\ NoMemory \in Memories
    /\ NoOutcome \in Outcomes
    /\ \A run \in Entries : Interrupted(run) \in Entries
    /\ \A run \in Entries : [run EXCEPT !.evidence = "incomplete"] \in Entries
<1>1. EmptyLedger \in Ledgers
  BY DEF EmptyLedger, Ledgers
<1>2. NoMemory \in Memories
  <2>1. <<>> \in Seq(Rows) /\ {} \in SUBSET Requests
    OBVIOUS
  <2>. QED  BY <1>1, <2>1, ArbiterTypes, Zenon DEF NoMemory, Memories
<1>3. NoOutcome \in Outcomes
  <2>1. 0 \in {0, 2, 3, 4}
    OBVIOUS
  <2>. QED  BY <2>1, Zenon DEF NoOutcome, Outcomes
<1>4. \A run \in Entries : [run EXCEPT !.evidence = "incomplete"] \in Entries
  BY DEF Entries
<1>5. \A run \in Entries : Interrupted(run) \in Entries
  BY Zenon DEF Interrupted, Entries
<1>. QED  BY <1>2, <1>3, <1>4, <1>5

\* A step of supervisor s says nothing about the others.
LEMMA OthersKnow ==
    ASSUME TypeInv, NEW s \in Supervisors, req' = req,
           \A t \in Supervisors : t # s => pc'[t] = pc[t] /\ mem'[t] = mem[t],
           KnowsItsStep(s)'
    PROVE  \A t \in Supervisors : KnowsItsStep(t)'
<1> SUFFICES ASSUME NEW t \in Supervisors, t # s
             PROVE  KnowsItsStep(t)'
  OBVIOUS
<1>1. KnowsItsStep(t)
  BY DEF TypeInv
<1>. QED  BY <1>1 DEF KnowsItsStep, Slot

\* finish() and a crash: the supervisor is gone and knows nothing.
LEMMA LeaveTypes ==
    ASSUME TypeInv, NEW s \in Supervisors, NEW step \in {"closed", "crashed"},
           Leave(s, step), UNCHANGED input
    PROVE  /\ pc' \in [Supervisors -> Steps]
           /\ mem' \in [Supervisors -> Memories]
           /\ lock' \in Supervisors \cup {Nobody}
           /\ \A t \in Supervisors : KnowsItsStep(t)'
<1>1. /\ pc' \in [Supervisors -> Steps]
      /\ mem' \in [Supervisors -> Memories]
      /\ lock' \in Supervisors \cup {Nobody}
  BY ValueTypes DEF TypeInv, TypeOK, Leave, Steps
<1>2. KnowsItsStep(s)'
  BY DEF TypeInv, TypeOK, Leave, KnowsItsStep
<1>3. req' = req /\ \A t \in Supervisors : t # s => pc'[t] = pc[t] /\ mem'[t] = mem[t]
  BY DEF TypeInv, TypeOK, Leave, input
<1>. QED  BY <1>1, <1>2, <1>3, OthersKnow

\* Ending an invocation with a well-typed answer keeps the types: execute's
\* every return statement passes through Finish.
LEMMA FinishTypes ==
    ASSUME TypeInv, NEW s \in Supervisors, UNCHANGED input,
           NEW status, NEW exit, NEW confirmed,
           [status |-> status, exit |-> exit, confirmed |-> confirmed] \in Outcomes,
           Finish(s, status, exit, confirmed)
    PROVE  /\ pc' \in [Supervisors -> Steps]
           /\ mem' \in [Supervisors -> Memories]
           /\ lock' \in Supervisors \cup {Nobody}
           /\ outcome' \in [Supervisors -> Outcomes]
           /\ \A t \in Supervisors : KnowsItsStep(t)'
<1>1. outcome' \in [Supervisors -> Outcomes]
  BY DEF TypeInv, TypeOK, Finish
<1>. QED  BY <1>1, LeaveTypes DEF Finish

\* Memory moves on with a new view, and a new list of runs to recover.
LEMMA MemoryTypes ==
    ASSUME TypeInv, NEW s \in Supervisors,
           NEW view \in Ledgers, NEW todo \in SUBSET Requests,
           NEW new, new = [mem EXCEPT ![s].view = view, ![s].todo = todo]
    PROVE  /\ new \in [Supervisors -> Memories]
           /\ new[s].view = view /\ new[s].todo = todo
           /\ \A t \in Supervisors : t # s => new[t] = mem[t]
BY DEF TypeInv, TypeOK, Memories

\* The same when only the view of the ledger moves on, after a record is saved.
LEMMA ViewTypes ==
    ASSUME TypeInv, NEW s \in Supervisors, NEW view \in Ledgers,
           NEW new, new = [mem EXCEPT ![s].view = view]
    PROVE  /\ new \in [Supervisors -> Memories]
           /\ new[s].view = view /\ new[s].todo = mem[s].todo
           /\ \A t \in Supervisors : t # s => new[t] = mem[t]
BY DEF TypeInv, TypeOK, Memories

\* The initial state is well formed.
LEMMA TypeInit == Init => TypeInv
<1> SUFFICES ASSUME Init PROVE TypeInv
  OBVIOUS
<1>1. EmptyLedger \in Ledgers
  BY DEF EmptyLedger, Ledgers
<1>2. TypeOK
  BY <1>1, ValueTypes DEF Init, TypeOK, Steps
<1>3. \A s \in Supervisors : KnowsItsStep(s)
  BY DEF Init, KnowsItsStep
<1>. QED  BY <1>2, <1>3 DEF TypeInv

\* A publication leaves a well formed ledger and a well formed view.
LEMMA PublishTypes ==
    ASSUME TypeInv, NEW s \in Supervisors, NEW entries \in Ledgers, NEW result
    PROVE  LedgerAfter(s, entries, result) \in Ledgers /\ ViewAfter(s, entries, result) \in Ledgers
BY DEF TypeInv, TypeOK, LedgerAfter, ViewAfter, Memories

\* Replacing an entry by another one keeps the ledger and the requests it knows.
LEMMA EntryReplaced ==
    ASSUME NEW view \in Ledgers, NEW r \in Requests, NEW e \in Entries
    PROVE  /\ e # NoEntry
           /\ [view EXCEPT ![r] = e] \in Ledgers
           /\ Used([view EXCEPT ![r] = e]) = Used(view) \cup {r}
<1>1. e # NoEntry
  <2>1. e.id \in Supervisors /\ NoEntry.id = Nobody
    BY DEF Entries, NoEntry
  <2>. QED  BY <2>1, NobodyAssumption
<1>2. [view EXCEPT ![r] = e] \in Ledgers
  BY DEF Ledgers
<1>. QED  BY <1>1, <1>2 DEF Used, Ledgers

\* The steps before admission: start, lock, ledger and recovery.
LEMMA TypeRecovery ==
    ASSUME TypeInv, NEW s \in Supervisors,
           \/ Reject(s) \/ Start(s) \/ OpenLedger(s) \/ LedgerUnavailable(s)
           \/ RecoverMark(s) \/ RecoverClose(s)
    PROVE  TypeInv'
<1> USE DEF TypeInv
<1>1. CASE Reject(s)
  <2>1. [status |-> "rejected", exit |-> 3, confirmed |-> FALSE] \in Outcomes
    BY SMT DEF Outcomes
  <2>. QED  BY <1>1, <2>1, FinishTypes DEF Reject, TypeOK, input, runtimes
<1>2. CASE Start(s)
  <2>1. TypeOK'
    BY <1>2 DEF Start, TypeOK, input, runtimes, Steps
  <2>2. KnowsItsStep(s)'
    BY <1>2 DEF Start, TypeOK, KnowsItsStep
  <2>3. req' = req /\ \A t \in Supervisors : t # s => pc'[t] = pc[t] /\ mem'[t] = mem[t]
    BY <1>2 DEF Start, TypeOK, input
  <2>. QED  BY <2>1, <2>2, <2>3, OthersKnow
<1>3. CASE OpenLedger(s)
  <2>1. Open(ledger) \in SUBSET Requests /\ Open(ledger) \subseteq Used(ledger)
    BY DEF Open, Used
  <2> DEFINE todo == IF lock = s THEN Open(ledger) ELSE {}
  <2>2. mem' \in [Supervisors -> Memories]
    <3>1. todo \in SUBSET Requests /\ ledger \in Ledgers
      BY <2>1 DEF TypeOK
    <3>2. mem' = [mem EXCEPT ![s].view = ledger, ![s].todo = todo]
      BY <1>3 DEF OpenLedger
    <3> HIDE DEF todo
    <3>. QED  BY <3>1, <3>2, MemoryTypes
  <2>3. TypeOK'
    BY <1>3, <2>2 DEF OpenLedger, Goto, TypeOK, input, runtimes, Steps
  <2>4. mem'[s].view = ledger /\ mem'[s].todo \subseteq Used(ledger) /\ pc'[s] = "recover"
    BY <1>3, <2>1 DEF OpenLedger, Goto, TypeOK, Memories
  <2>5. KnowsItsStep(s)'
    BY <2>4 DEF KnowsItsStep
  <2>6. req' = req /\ \A t \in Supervisors : t # s => pc'[t] = pc[t] /\ mem'[t] = mem[t]
    BY <1>3 DEF OpenLedger, Goto, TypeOK, input
  <2>. QED  BY <2>3, <2>5, <2>6, OthersKnow
<1>4. CASE LedgerUnavailable(s)
  <2>1. [status |-> "unavailable", exit |-> 4, confirmed |-> FALSE] \in Outcomes
    BY SMT DEF Outcomes
  <2>. QED  BY <1>4, <2>1, FinishTypes DEF LedgerUnavailable, TypeOK, input, runtimes
<1>5. ASSUME RecoverMark(s) \/ RecoverClose(s)
      PROVE  /\ Recovered(s) \in Used(mem[s].view)
             /\ mem[s].view \in Ledgers /\ mem[s].todo \in SUBSET Requests
             /\ mem[s].view[Recovered(s)] \in Entries
  <2>1. mem[s].todo # {} /\ mem[s].todo \subseteq Used(mem[s].view)
    BY <1>5 DEF RecoverMark, RecoverClose, KnowsItsStep
  <2>2. Recovered(s) \in mem[s].todo
    BY <2>1, Zenon DEF Recovered
  <2>3. mem[s].view \in Ledgers /\ mem[s].todo \in SUBSET Requests
    BY DEF TypeOK, Memories
  <2>. QED  BY <2>1, <2>2, <2>3 DEF Used, Ledgers
<1>6. CASE RecoverMark(s)
  <2> DEFINE r == Recovered(s)
             view == mem[s].view
             marked == [view EXCEPT ![r].evidence = "incomplete"]
  <2>1. PICK result \in PublishResults \cup {"preserved"} :
           /\ ledger' = LedgerAfter(s, marked, result)
           /\ mem' = [mem EXCEPT ![s].view = ViewAfter(s, marked, result)]
    BY <1>6 DEF RecoverMark
  <2>2. marked \in Ledgers /\ Used(marked) = Used(view)
    <3>1. marked = [view EXCEPT ![r] = [view[r] EXCEPT !.evidence = "incomplete"]]
      OBVIOUS
    <3>2. [view[r] EXCEPT !.evidence = "incomplete"] \in Entries
      BY <1>5, <1>6, ValueTypes
    <3>. QED  BY <1>5, <1>6, <3>1, <3>2, EntryReplaced DEF Used
  <2> HIDE DEF marked, r, view
  <2>3. ViewAfter(s, marked, result) \in {marked, view}
    BY DEF ViewAfter, view
  <2>4. mem' \in [Supervisors -> Memories] /\ ledger' \in Ledgers
    BY <2>1, <2>2, PublishTypes DEF TypeOK, Memories
  <2>5. TypeOK'
    BY <1>6, <2>4 DEF RecoverMark, Goto, TypeOK, input, runtimes, Steps
  <2>6. /\ mem'[s].todo = mem[s].todo /\ mem'[s].view \in {marked, view}
        /\ pc'[s] = "recover_close" /\ mem[s].todo # {} /\ mem[s].todo \subseteq Used(view)
    BY <1>6, <2>1, <2>3 DEF RecoverMark, Goto, TypeOK, Memories, KnowsItsStep, view
  <2>7. KnowsItsStep(s)'
    BY <2>2, <2>6 DEF KnowsItsStep
  <2>8. req' = req /\ \A t \in Supervisors : t # s => pc'[t] = pc[t] /\ mem'[t] = mem[t]
    BY <1>6, <2>1 DEF RecoverMark, Goto, TypeOK, input
  <2>. QED  BY <2>5, <2>7, <2>8, OthersKnow
<1>7. CASE RecoverClose(s)
  <2> DEFINE r == Recovered(s)
             view == mem[s].view
             closed == [view EXCEPT ![r] = Interrupted(view[r])]
  <2>1. PICK result \in PublishResults :
           /\ ledger' = LedgerAfter(s, closed, result)
           /\ mem' = [mem EXCEPT ![s].view = ViewAfter(s, closed, result),
                                 ![s].todo = mem[s].todo \ {r}]
    BY <1>7 DEF RecoverClose
  <2>2. closed \in Ledgers /\ Used(closed) = Used(view)
    BY <1>5, <1>7, ValueTypes, EntryReplaced DEF Used
  <2> HIDE DEF closed, r, view
  <2>3. ViewAfter(s, closed, result) \in {closed, view}
    BY DEF ViewAfter, view
  <2>4. mem' \in [Supervisors -> Memories] /\ ledger' \in Ledgers
    <3>1. ViewAfter(s, closed, result) \in Ledgers /\ mem[s].todo \ {r} \in SUBSET Requests
      BY <1>5, <1>7, <2>2, PublishTypes
    <3>. QED  BY <2>1, <2>2, <3>1, PublishTypes, MemoryTypes
  <2>5. TypeOK'
    BY <1>7, <2>4 DEF RecoverClose, Goto, TypeOK, input, runtimes, Steps
  <2>6. /\ mem'[s].todo \subseteq mem[s].todo /\ mem'[s].view \in {closed, view}
        /\ pc'[s] = "recover" /\ mem[s].todo \subseteq Used(view)
    <3>1. mem'[s].todo = mem[s].todo \ {r} /\ mem'[s].view = ViewAfter(s, closed, result)
      <4>1. ViewAfter(s, closed, result) \in Ledgers /\ mem[s].todo \ {r} \in SUBSET Requests
        BY <1>5, <1>7, <2>2, PublishTypes
      <4>. QED  BY <2>1, <4>1, MemoryTypes
    <3>. QED  BY <1>7, <2>3, <3>1 DEF RecoverClose, Goto, TypeOK, KnowsItsStep, view
  <2>7. KnowsItsStep(s)'
    BY <2>2, <2>6 DEF KnowsItsStep
  <2>8. req' = req /\ \A t \in Supervisors : t # s => pc'[t] = pc[t] /\ mem'[t] = mem[t]
    BY <1>7, <2>1 DEF RecoverClose, Goto, TypeOK, input
  <2>. QED  BY <2>5, <2>7, <2>8, OthersKnow
<1>. QED  BY <1>1, <1>2, <1>3, <1>4, <1>6, <1>7

\* Admission, the answer to a known request, and the registration of a new one.
LEMMA TypeAdmission ==
    ASSUME TypeInv, NEW s \in Supervisors,
           Refuse(s) \/ Admit(s) \/ ReportKnown(s) \/ Register(s)
    PROVE  TypeInv'
<1> USE DEF TypeInv
<1>1. CASE Refuse(s)
  <2>1. Refusal(s) \in {"inconsistent", "conflict", "capacity", "busy"}
    BY <1>1 DEF Refuse, Refusal
  <2>2. \A status \in {"inconsistent", "conflict", "capacity", "busy"}, exit \in {3, 4} :
           [status |-> status, exit |-> exit, confirmed |-> FALSE] \in Outcomes
    BY SMT DEF Outcomes
  <2> DEFINE exit == IF Refusal(s) = "inconsistent" THEN 4 ELSE 3
  <2>3. [status |-> Refusal(s), exit |-> exit, confirmed |-> FALSE] \in Outcomes
    BY <2>1, <2>2
  <2>4. Finish(s, Refusal(s), exit, FALSE)
    BY <1>1 DEF Refuse
  <2> HIDE DEF exit
  <2>. QED  BY <1>1, <2>3, <2>4, FinishTypes DEF Refuse, TypeOK, input, runtimes
<1>2. CASE Admit(s)
  <2>1. TypeOK'
    BY <1>2 DEF Admit, Goto, TypeOK, input, runtimes, Steps
  <2>2. KnowsItsStep(s)'
    BY <1>2 DEF Admit, Goto, TypeOK, KnowsItsStep, Known, input
  <2>3. req' = req /\ \A t \in Supervisors : t # s => pc'[t] = pc[t] /\ mem'[t] = mem[t]
    BY <1>2 DEF Admit, Goto, TypeOK, input
  <2>. QED  BY <2>1, <2>2, <2>3, OthersKnow
<1>3. CASE ReportKnown(s)
  <2> DEFINE run == mem[s].view[req[s]]
             doc == summary[run.id]
  <2>1. PICK status \in {"summary", "unreadable", "unconfirmed", "in_progress"},
             exit \in {0, 2, 4}, confirmed \in BOOLEAN :
           Finish(s, status, exit, confirmed)
    <3>1. run \in Entries
      BY <1>3 DEF ReportKnown, KnowsItsStep, TypeOK, Memories, Ledgers
    <3>2. doc \in Summaries \cup {NoSummary}
      BY <3>1 DEF TypeOK, Entries
    <3>3. doc.exit \in {0, 2}
      BY <3>2 DEF Summaries, NoSummary
    <3>. QED  BY <1>3, <3>3 DEF ReportKnown
  <2>2. [status |-> status, exit |-> exit, confirmed |-> confirmed] \in Outcomes
    BY SMT DEF Outcomes
  <2>. QED  BY <1>3, <2>1, <2>2, FinishTypes DEF ReportKnown, TypeOK, input, runtimes
<1>4. CASE Register(s)
  <2> DEFINE entries == [mem[s].view EXCEPT ![req[s]] = NewEntry(s)]
  <2>1. PICK result \in PublishResults :
           /\ ledger' = LedgerAfter(s, entries, result)
           /\ IF result = "published"
                THEN mem' = [mem EXCEPT ![s].view = entries] /\ Goto(s, "takes")
                ELSE Finish(s, "unpublished", 4, FALSE)
    BY <1>4 DEF Register
  <2>2. entries \in Ledgers
    <3>1. NewEntry(s) \in Entries
      BY DEF NewEntry, Entries, TypeOK
    <3>2. req[s] \in Requests /\ mem[s].view \in Ledgers
      BY DEF TypeOK, Memories
    <3>. QED  BY <3>1, <3>2, EntryReplaced
  <2> HIDE DEF entries
  <2>3. ledger' \in Ledgers
    BY <2>1, <2>2, PublishTypes
  <2>4. CASE result = "published"
    <3>1. mem' \in [Supervisors -> Memories]
      BY <2>1, <2>2, <2>4, ViewTypes
    <3>2. TypeOK'
      BY <1>4, <2>1, <2>3, <2>4, <3>1 DEF Register, Goto, TypeOK, input, runtimes, Steps
    <3>3. KnowsItsStep(s)'
      BY <2>1, <2>4 DEF Goto, TypeOK, KnowsItsStep
    <3>4. req' = req /\ \A t \in Supervisors : t # s => pc'[t] = pc[t] /\ mem'[t] = mem[t]
      BY <1>4, <2>1, <2>4 DEF Register, Goto, TypeOK, input
    <3>. QED  BY <3>2, <3>3, <3>4, OthersKnow
  <2>5. CASE result # "published"
    <3>1. [status |-> "unpublished", exit |-> 4, confirmed |-> FALSE] \in Outcomes
      BY SMT DEF Outcomes
    <3>. QED  BY <1>4, <2>1, <2>3, <2>5, <3>1, FinishTypes
             DEF Register, TypeOK, input, runtimes
  <2>. QED  BY <2>4, <2>5
<1>. QED  BY <1>1, <1>2, <1>3, <1>4

\* The end of a take: the row and the arbiter are well formed.
LEMMA EndTakeTypes ==
    ASSUME TypeInv, NEW s \in Supervisors, pc[s] \in {"playing", "running"},
           NEW a \in Arbiters, Playback(a) \in PlaybackKinds,
           NEW complete \in BOOLEAN, NEW ceased \in BOOLEAN,
           EndTake(s, a, complete, ceased)
    PROVE  TypeInv'
<1> USE DEF TypeInv
<1> DEFINE row == [playback |-> Playback(a), reason |-> "none",
                   complete |-> complete /\ Playback(a) = "natural_end"]
           m == mem[s]
           new == [m EXCEPT !.arb = a, !.ceased = m.ceased /\ ceased,
                            !.rows = Append(m.rows, row)]
<1>1. m \in Memories /\ m.rows \in Seq(Rows)
  BY DEF TypeOK, Memories
<1>2. row \in Rows
  <2>1. (complete /\ Playback(a) = "natural_end") \in BOOLEAN
    OBVIOUS
  <2>2. Playback(a) \in PlaybackKinds \cup {"not_started"}
        /\ "none" \in NotStartedReasons \cup {"none"}
    OBVIOUS
  <2>. QED  BY <2>1, <2>2, Zenon DEF Rows
<1>3. new \in Memories
  <2>1. Append(m.rows, row) \in Seq(Rows)
    BY <1>1, <1>2
  <2>2. (m.ceased /\ ceased) \in BOOLEAN
    OBVIOUS
  <2> HIDE DEF row, m
  <2>. QED  BY <1>1, <2>1, <2>2, Zenon DEF Memories
<1>4. mem' = [mem EXCEPT ![s] = new]
  BY Zenon DEF EndTake
<1> HIDE DEF new
<1>5. mem' \in [Supervisors -> Memories]
  BY <1>3, <1>4 DEF TypeOK
<1>6. TypeOK'
  BY <1>5 DEF EndTake, Goto, TypeOK, input, runtimes, Steps
<1>7. KnowsItsStep(s)'
  BY DEF EndTake, Goto, TypeOK, KnowsItsStep
<1>8. req' = req /\ \A t \in Supervisors : t # s => pc'[t] = pc[t] /\ mem'[t] = mem[t]
  BY <1>4 DEF EndTake, Goto, TypeOK, input
<1>. QED  BY <1>6, <1>7, <1>8, OthersKnow

\* The takes.
LEMMA TypeTakes ==
    ASSUME TypeInv, NEW s \in Supervisors,
           \/ SkipTake(s) \/ StartTake(s) \/ Launch(s) \/ MaterialChanged(s) \/ NotLaunched(s)
           \/ ReturnEvidence(s) \/ ReturnError(s)
    PROVE  TypeInv'
<1> USE DEF TypeInv
<1> DEFINE m == mem[s]
           b == BeginTake(NewArbiter)
<1>0. /\ m \in Memories /\ m.rows \in Seq(Rows) /\ m.arb \in Arbiters
      /\ Len(m.rows) \in Nat /\ cancel[s] \in BOOLEAN
  BY DEF TypeOK, Memories
<1>1. b \in Arbiters /\ b.active /\ ~b.confirmed
  BY ArbiterTypes DEF BeginTake, NewArbiter
<1>2. CASE SkipTake(s)
  <2> DEFINE a == BeforeTake(s)
             row == [playback |-> "not_started", complete |-> FALSE,
                     reason |-> NotStartedReason(a)]
             new == [m EXCEPT !.arb = a, !.rows = Append(m.rows, row)]
  <2>1. a \in Arbiters /\ a.stop \in {"cancellation", "failure"}
    BY <1>0, <1>2, ArbiterTypes DEF SkipTake, BeforeTake, StopRequested, Arbiters, StopReasons
  <2> HIDE DEF a
  <2>2. row \in Rows
    <3>1. NotStartedReason(a) \in NotStartedReasons
      BY <2>1 DEF NotStartedReason, NotStartedReasons
    <3>. QED  BY <3>1, Zenon DEF Rows
  <2>3. new \in Memories
    <3>1. Append(m.rows, row) \in Seq(Rows)
      BY <1>0, <2>2
    <3> HIDE DEF row, m
    <3>. QED  BY <1>0, <2>1, <3>1 DEF Memories
  <2>4. mem' = [mem EXCEPT ![s] = new]
    BY <1>2, Zenon DEF SkipTake, a
  <2> HIDE DEF new
  <2>5. TypeOK'
    BY <1>2, <2>3, <2>4 DEF SkipTake, TypeOK, input, runtimes
  <2>6. KnowsItsStep(s)'
    BY <1>2 DEF SkipTake, KnowsItsStep
  <2>7. req' = req /\ \A t \in Supervisors : t # s => pc'[t] = pc[t] /\ mem'[t] = mem[t]
    BY <1>2, <2>4 DEF SkipTake, TypeOK, input
  <2>. QED  BY <2>5, <2>6, <2>7, OthersKnow
<1>3. CASE StartTake(s)
  <2>1. m.arb.stop = "none"
    BY <1>0, <1>3 DEF StartTake, BeforeTake, StopRequested, Cancel, Stopped, CancelDecides,
                      DiscardControls, Arbiters
  <2>2. BeginTake(m.arb) = b
    BY <2>1, Zenon DEF BeginTake, NewArbiter
  <2>3. mem' = [mem EXCEPT ![s].arb = b]
    BY <1>3, <2>2 DEF StartTake
  <2> HIDE DEF b
  <2>4. mem' \in [Supervisors -> Memories]
    BY <1>1, <2>3 DEF TypeOK, Memories
  <2>5. TypeOK'
    BY <1>3, <2>4 DEF StartTake, Goto, TypeOK, input, runtimes, Steps
  <2>6. KnowsItsStep(s)'
    <3>1. mem'[s].arb = b /\ mem'[s].rows = m.rows
      BY <2>3 DEF TypeOK, Memories
    <3>2. Len(m.rows) + 1 \in 1..TakeCount
      BY <1>0, <1>3, TakeCountAssumption DEF StartTake, TakesDone
    <3>. QED  BY <1>3, <3>1, <3>2 DEF StartTake, Goto, TypeOK, KnowsItsStep, Slot, b
  <2>7. req' = req /\ \A t \in Supervisors : t # s => pc'[t] = pc[t] /\ mem'[t] = mem[t]
    BY <1>3, <2>3 DEF StartTake, Goto, TypeOK, input
  <2>. QED  BY <2>5, <2>6, <2>7, OthersKnow
<1>4. CASE Launch(s)
  <2>1. Slot(s) \in 1..TakeCount
    BY <1>4 DEF Launch, KnowsItsStep
  <2>2. TypeOK'
    BY <1>4, <2>1 DEF Launch, Goto, TypeOK, input, Steps
  <2>3. KnowsItsStep(s)'
    BY <1>4 DEF Launch, Goto, TypeOK, KnowsItsStep, Slot
  <2>4. req' = req /\ \A t \in Supervisors : t # s => pc'[t] = pc[t] /\ mem'[t] = mem[t]
    BY <1>4 DEF Launch, Goto, TypeOK, input
  <2>. QED  BY <2>2, <2>3, <2>4, OthersKnow
<1>5. ASSUME pc[s] \in {"playing", "running"}
      PROVE  m.arb = b
  BY <1>5 DEF KnowsItsStep
<1>6. CASE MaterialChanged(s)
  <2> DEFINE a == Settle(b, FALSE, "error")
  <2>1. a \in Arbiters /\ Playback(a) \in PlaybackKinds
    BY <1>1, SettledTake
  <2>2. Confirm(Fail(b, "failed")) = a
    BY DEF Settle, FailureKinds
  <2>3. EndTake(s, a, FALSE, TRUE) /\ pc[s] = "playing"
    BY <1>5, <1>6, <2>2 DEF MaterialChanged
  <2> HIDE DEF a
  <2>. QED  BY <2>1, <2>3, EndTakeTypes
<1>7. CASE NotLaunched(s)
  <2> DEFINE a == Settle(b, cancel[s], "error")
  <2>1. a \in Arbiters /\ Playback(a) \in PlaybackKinds
    BY <1>0, <1>1, SettledTake
  <2>2. EndTake(s, a, FALSE, TRUE) /\ pc[s] = "playing"
    BY <1>5, <1>7 DEF NotLaunched
  <2> HIDE DEF a
  <2>. QED  BY <2>1, <2>2, EndTakeTypes
<1>8. CASE ReturnEvidence(s)
  <2>1. PICK p \in PlaybackKinds, complete \in BOOLEAN :
           EndTake(s, Settle(b, cancel[s], p), complete, TRUE)
    BY <1>5, <1>8 DEF ReturnEvidence
  <2> DEFINE a == Settle(b, cancel[s], p)
  <2>2. a \in Arbiters /\ Playback(a) \in PlaybackKinds
    BY <1>0, <1>1, SettledTake
  <2>3. pc[s] = "running"
    BY <1>8 DEF ReturnEvidence
  <2>4. EndTake(s, a, complete, TRUE)
    BY <2>1
  <2> HIDE DEF a
  <2>. QED  BY <2>2, <2>3, <2>4, EndTakeTypes
<1>9. CASE ReturnError(s)
  <2> DEFINE a == Settle(b, cancel[s], "error")
  <2>1. PICK ceased \in BOOLEAN : EndTake(s, a, FALSE, ceased)
    BY <1>5, <1>9 DEF ReturnError
  <2>2. a \in Arbiters /\ Playback(a) \in PlaybackKinds
    BY <1>0, <1>1, SettledTake
  <2>3. pc[s] = "running"
    BY <1>9 DEF ReturnError
  <2> HIDE DEF a
  <2>. QED  BY <2>1, <2>2, <2>3, EndTakeTypes
<1>. QED  BY <1>2, <1>3, <1>4, <1>6, <1>7, <1>8, <1>9

\* Closing the run and publishing its summary.
LEMMA TypeClosing ==
    ASSUME TypeInv, NEW s \in Supervisors, CloseRun(s) \/ WriteSummary(s)
    PROVE  TypeInv'
<1> USE DEF TypeInv
<1>0. [status |-> "unpublished", exit |-> 4, confirmed |-> FALSE] \in Outcomes
  BY SMT DEF Outcomes
<1>1. CASE CloseRun(s)
  <2> DEFINE entries == [mem[s].view EXCEPT ![req[s]] = FinalRun(s)]
  <2>1. PICK result \in PublishResults :
           /\ ledger' = LedgerAfter(s, entries, result)
           /\ IF result = "published"
                THEN mem' = [mem EXCEPT ![s].view = entries] /\ Goto(s, "summary")
                ELSE Finish(s, "unpublished", 4, FALSE)
    BY <1>1 DEF CloseRun
  <2>2. entries \in Ledgers
    <3>1. FinalRun(s) \in Entries
      <4>1. content[s] \in Contents /\ mem[s].ceased \in BOOLEAN
        BY DEF TypeOK, Memories
      <4>. QED  BY <4>1 DEF FinalRun, Entries
    <3>2. req[s] \in Requests /\ mem[s].view \in Ledgers
      BY DEF TypeOK, Memories
    <3>. QED  BY <3>1, <3>2, EntryReplaced
  <2> HIDE DEF entries
  <2>3. ledger' \in Ledgers
    BY <2>1, <2>2, PublishTypes
  <2>4. CASE result = "published"
    <3>1. /\ mem' \in [Supervisors -> Memories]
          /\ \A t \in Supervisors : t # s => mem'[t] = mem[t]
      BY <2>1, <2>2, <2>4, ViewTypes
    <3>2. TypeOK'
      BY <1>1, <2>1, <2>3, <2>4, <3>1 DEF CloseRun, Goto, TypeOK, input, runtimes, Steps
    <3>3. KnowsItsStep(s)'
      BY <2>1, <2>4 DEF Goto, TypeOK, KnowsItsStep
    <3>4. req' = req /\ \A t \in Supervisors : t # s => pc'[t] = pc[t] /\ mem'[t] = mem[t]
      BY <1>1, <2>1, <2>4, <3>1 DEF CloseRun, Goto, TypeOK, input
    <3>. QED  BY <3>2, <3>3, <3>4, OthersKnow
  <2>5. CASE result # "published"
    BY <1>0, <1>1, <2>1, <2>3, <2>5, FinishTypes DEF CloseRun, TypeOK, input, runtimes
  <2>. QED  BY <2>4, <2>5
<1>2. CASE WriteSummary(s)
  <2>1. PICK result \in PublishResults :
           /\ summary' = IF result = "preserved" THEN summary
                         ELSE [summary EXCEPT ![s] = SummaryOf(s)]
           /\ IF result = "published"
                THEN Finish(s, "summary", ExitCode(mem[s].rows), TRUE)
                ELSE Finish(s, "unpublished", 4, FALSE)
    BY <1>2 DEF WriteSummary
  <2>2. ExitCode(mem[s].rows) \in {0, 2}
    BY DEF ExitCode
  <2>3. SummaryOf(s) \in Summaries
    BY <2>2 DEF SummaryOf, Summaries, TypeOK, Memories
  <2>4. summary' \in [Supervisors -> Summaries \cup {NoSummary}]
    BY <2>1, <2>3 DEF TypeOK
  <2>5. [status |-> "summary", exit |-> ExitCode(mem[s].rows), confirmed |-> TRUE] \in Outcomes
    BY <2>2, SMT DEF Outcomes
  <2>. QED  BY <1>0, <1>2, <2>1, <2>4, <2>5, FinishTypes DEF WriteSummary, TypeOK, input, runtimes
<1>. QED  BY <1>1, <1>2

\* A cancellation, a crash, and the end of a Runtime.
LEMMA TypeEnvironment ==
    ASSUME TypeInv,
           RuntimeExits \/ \E s \in Supervisors : RequestCancel(s) \/ Crash(s)
    PROVE  TypeInv'
<1> USE DEF TypeInv
<1>1. CASE RuntimeExits
  <2>1. TypeOK'
    BY <1>1 DEF RuntimeExits, TypeOK, input
  <2>. QED  BY <1>1, <2>1 DEF RuntimeExits, input, KnowsItsStep, Slot
<1>2. ASSUME NEW s \in Supervisors, RequestCancel(s) PROVE TypeInv'
  <2>1. TypeOK'
    BY <1>2 DEF RequestCancel, TypeOK, input, runtimes
  <2>. QED  BY <1>2, <2>1 DEF RequestCancel, input, KnowsItsStep, Slot
<1>3. ASSUME NEW s \in Supervisors, Crash(s) PROVE TypeInv'
  BY <1>3, LeaveTypes DEF Crash, TypeOK, input, runtimes
<1>. QED  BY <1>1, <1>2, <1>3

\* Every step keeps the states well formed.
LEMMA TypeStep == TypeInv /\ [Next]_vars => TypeInv'
<1> SUFFICES ASSUME TypeInv, [Next]_vars PROVE TypeInv'
  OBVIOUS
<1>1. CASE UNCHANGED vars
  BY <1>1 DEF vars, input, runtimes, TypeInv, TypeOK, KnowsItsStep, Slot
<1>2. CASE Next
  BY <1>2, TypeRecovery, TypeAdmission, TypeTakes, TypeClosing, TypeEnvironment DEF Next, Run
<1>. QED  BY <1>1, <1>2

(***************************************************************************)
(* Every state of the supervisors, of their memories and of the durable    *)
(* documents is well formed, whatever crashes or fails to be published.    *)
(***************************************************************************)
THEOREM TypeCorrect == Spec => []TypeOK
<1>1. TypeInv => TypeOK
  BY DEF TypeInv
<1>. QED  BY TypeInit, TypeStep, <1>1, PTL DEF Spec

-----------------------------------------------------------------------------
\* A request is executed at most once.

\* Nothing is registered and nothing runs at first.
LEMMA IdInit == Init => IdInv
BY DEF Init, IdInv, Alone, ViewIsCurrent, RunIsRegistered, RegistersOnlyNew,
       ExecutedIsRegistered, Active, Running, Reading

\* What a step of the only active supervisor has to keep.
LEMMA OneSupervisorSteps ==
    ASSUME TypeInv, IdInv, NEW s \in Supervisors, Active(s), req' = req,
           \A t \in Supervisors : t # s => pc'[t] = pc[t],
           \A r \in Requests : ledger[r].id # Nobody => ledger'[r].id = ledger[r].id,
           pc'[s] \in Reading => \A r \in Requests : mem'[s].view[r].id = ledger'[r].id,
           pc'[s] \in Running => ledger'[req[s]].id = s,
           pc'[s] = "register" => mem'[s].view[req[s]].id = Nobody,
           \A p \in launched' : p \in launched \/ (p[1] = s /\ ledger'[req[s]].id = s)
    PROVE  IdInv'
<1> USE DEF IdInv
<1>1. \A t \in Supervisors : t # s => pc'[t] \in {"idle", "closed", "crashed"}
  BY DEF Alone, Active
<1>2. Alone'
  BY <1>1 DEF Alone, Active
<1>3. ViewIsCurrent'
  BY <1>1 DEF ViewIsCurrent, Reading, Running
<1>4. RunIsRegistered'
  BY <1>1 DEF RunIsRegistered, Running
<1>5. RegistersOnlyNew'
  BY <1>1 DEF RegistersOnlyNew
<1>6. ExecutedIsRegistered'
  <2> SUFFICES ASSUME NEW p \in launched'
               PROVE  ledger'[req[p[1]]].id = p[1]
    BY DEF ExecutedIsRegistered
  <2>1. CASE p \in launched
    <3>1. p[1] \in Supervisors /\ req[p[1]] \in Requests
      BY <2>1 DEF TypeInv, TypeOK
    <3>2. ledger[req[p[1]]].id = p[1]
      BY <2>1 DEF ExecutedIsRegistered
    <3>. QED  BY <3>1, <3>2, NobodyAssumption
  <2>2. CASE p[1] = s /\ ledger'[req[s]].id = s
    BY <2>2
  <2>. QED  BY <2>1, <2>2
<1>. QED  BY <1>2, <1>3, <1>4, <1>5, <1>6

\* A publication changes no run when the entries published change none.
LEMMA PublishKeepsRuns ==
    ASSUME NEW s \in Supervisors, NEW entries, NEW result,
           \A r \in Requests : mem[s].view[r].id = ledger[r].id,
           \A r \in Requests : entries[r].id = mem[s].view[r].id
    PROVE  \A r \in Requests :
             /\ LedgerAfter(s, entries, result)[r].id = ledger[r].id
             /\ ViewAfter(s, entries, result)[r].id = ledger[r].id
BY DEF LedgerAfter, ViewAfter

\* Recovery closes runs and keeps their identities.
LEMMA IdRecovery ==
    ASSUME TypeInv, IdInv, NEW s \in Supervisors, RecoverMark(s) \/ RecoverClose(s)
    PROVE  IdInv'
<1> USE DEF TypeInv, IdInv
<1> DEFINE r == Recovered(s)
           view == mem[s].view
<1>1. /\ \A q \in Requests : view[q].id = ledger[q].id
      /\ mem[s].todo # {} /\ mem[s].todo \subseteq Used(view)
  BY DEF RecoverMark, RecoverClose, ViewIsCurrent, Reading, KnowsItsStep
<1>2. r \in mem[s].todo
  BY <1>1, Zenon DEF Recovered
<1>3. r \in Requests /\ view \in Ledgers /\ view[r] \in Entries
  BY <1>1, <1>2 DEF TypeOK, Memories, Ledgers, Used
<1>4. Active(s)
  BY DEF RecoverMark, RecoverClose, Active
<1>5. \A q \in Requests : ledger'[q].id = ledger[q].id /\ mem'[s].view[q].id = ledger[q].id
  <2>1. CASE RecoverMark(s)
    <3> DEFINE e == [view[r] EXCEPT !.evidence = "incomplete"]
               entries == [view EXCEPT ![r] = e]
    <3>1. e \in Entries /\ e.id = view[r].id
      BY <1>3, ValueTypes DEF Entries
    <3>2. entries \in Ledgers /\ \A q \in Requests : entries[q].id = view[q].id
      BY <1>3, <3>1, EntryReplaced DEF Ledgers
    <3>3. PICK result \in PublishResults \cup {"preserved"} :
             /\ ledger' = LedgerAfter(s, entries, result)
             /\ mem' = [mem EXCEPT ![s].view = ViewAfter(s, entries, result)]
      BY <2>1 DEF RecoverMark
    <3> HIDE DEF entries
    <3>4. mem'[s].view = ViewAfter(s, entries, result)
      BY <3>3 DEF TypeOK, Memories
    <3>. QED  BY <1>1, <3>2, <3>3, <3>4, PublishKeepsRuns
  <2>2. CASE RecoverClose(s)
    <3> DEFINE entries == [view EXCEPT ![r] = Interrupted(view[r])]
    <3>1. Interrupted(view[r]) \in Entries /\ Interrupted(view[r]).id = view[r].id
      <4>1. Interrupted(view[r]).id = view[r].id
        BY <1>3 DEF Interrupted, Entries
      <4>. QED  BY <1>3, <4>1, ValueTypes
    <3>2. entries \in Ledgers /\ \A q \in Requests : entries[q].id = view[q].id
      BY <1>3, <3>1, EntryReplaced DEF Ledgers
    <3>3. PICK result \in PublishResults :
             /\ ledger' = LedgerAfter(s, entries, result)
             /\ mem' = [mem EXCEPT ![s].view = ViewAfter(s, entries, result),
                                   ![s].todo = mem[s].todo \ {r}]
      BY <2>2 DEF RecoverClose
    <3> HIDE DEF entries, r
    <3>4. mem'[s].view = ViewAfter(s, entries, result)
      BY <3>3 DEF TypeOK, Memories
    <3>. QED  BY <1>1, <3>2, <3>3, <3>4, PublishKeepsRuns
  <2>. QED  BY <2>1, <2>2
<1>6. /\ req' = req /\ launched' = launched /\ pc'[s] \in {"recover", "recover_close"}
      /\ \A t \in Supervisors : t # s => pc'[t] = pc[t]
  BY DEF RecoverMark, RecoverClose, Goto, input, runtimes, TypeOK
<1>. QED  BY <1>4, <1>5, <1>6, OneSupervisorSteps DEF Running

\* A new request is registered only when the durable ledger did not have it.
LEMMA IdRegister ==
    ASSUME TypeInv, IdInv, NEW s \in Supervisors, Register(s)
    PROVE  IdInv'
<1> USE DEF TypeInv, IdInv
<1> DEFINE entries == [mem[s].view EXCEPT ![req[s]] = NewEntry(s)]
<1>1. PICK result \in PublishResults :
         /\ ledger' = LedgerAfter(s, entries, result)
         /\ IF result = "published"
              THEN mem' = [mem EXCEPT ![s].view = entries] /\ Goto(s, "takes")
              ELSE Finish(s, "unpublished", 4, FALSE)
  BY DEF Register
<1>2. /\ req[s] \in Requests /\ mem[s].view \in Ledgers /\ Active(s)
      /\ mem[s].view[req[s]].id = Nobody
      /\ \A r \in Requests : mem[s].view[r].id = ledger[r].id
  BY DEF Register, TypeOK, Memories, RegistersOnlyNew, ViewIsCurrent, Reading, Active
<1>3. /\ \A r \in Requests : r # req[s] => entries[r].id = ledger[r].id
      /\ entries[req[s]].id = s
  BY <1>2 DEF Ledgers, NewEntry
<1>4. entries # mem[s].view
  BY <1>2, <1>3, NobodyAssumption
<1>5. \A r \in Requests : ledger[r].id # Nobody => ledger'[r].id = ledger[r].id
  BY <1>1, <1>2, <1>3 DEF LedgerAfter
<1> HIDE DEF entries
<1>6. CASE result = "published"
  <2>1. ledger' = entries /\ mem'[s].view = entries
    BY <1>1, <1>4, <1>6 DEF LedgerAfter, TypeOK, Memories
  <2>2. /\ req' = req /\ launched' = launched /\ pc'[s] = "takes"
        /\ \A t \in Supervisors : t # s => pc'[t] = pc[t]
    BY <1>1, <1>6 DEF Register, Goto, input, runtimes, TypeOK
  <2>. QED  BY <1>2, <1>3, <1>5, <2>1, <2>2, OneSupervisorSteps
<1>7. CASE result # "published"
  <2>1. /\ req' = req /\ launched' = launched /\ pc'[s] = "closed"
        /\ \A t \in Supervisors : t # s => pc'[t] = pc[t]
    BY <1>1, <1>7 DEF Register, Finish, Leave, input, runtimes, TypeOK
  <2>. QED  BY <1>2, <1>5, <2>1, OneSupervisorSteps DEF Reading, Running
<1>. QED  BY <1>6, <1>7

\* The run is closed under its own identity.
LEMMA IdClose ==
    ASSUME TypeInv, IdInv, NEW s \in Supervisors, CloseRun(s)
    PROVE  IdInv'
<1> USE DEF TypeInv, IdInv
<1> DEFINE entries == [mem[s].view EXCEPT ![req[s]] = FinalRun(s)]
<1>1. PICK result \in PublishResults :
         /\ ledger' = LedgerAfter(s, entries, result)
         /\ IF result = "published"
              THEN mem' = [mem EXCEPT ![s].view = entries] /\ Goto(s, "summary")
              ELSE Finish(s, "unpublished", 4, FALSE)
  BY DEF CloseRun
<1>2. /\ req[s] \in Requests /\ mem[s].view \in Ledgers /\ Active(s)
      /\ ledger[req[s]].id = s
      /\ \A r \in Requests : mem[s].view[r].id = ledger[r].id
  BY DEF CloseRun, TypeOK, Memories, RunIsRegistered, Running, ViewIsCurrent, Reading, Active
<1>3. \A r \in Requests : entries[r].id = mem[s].view[r].id
  BY <1>2 DEF Ledgers, FinalRun
<1> HIDE DEF entries
<1>4. \A r \in Requests : ledger'[r].id = ledger[r].id
  BY <1>1, <1>2, <1>3, PublishKeepsRuns
<1>5. CASE result = "published"
  <2>1. mem'[s].view = entries
    BY <1>1, <1>5 DEF TypeOK, Memories
  <2>2. /\ req' = req /\ launched' = launched /\ pc'[s] = "summary"
        /\ \A t \in Supervisors : t # s => pc'[t] = pc[t]
    BY <1>1, <1>5 DEF CloseRun, Goto, input, runtimes, TypeOK
  <2>. QED  BY <1>2, <1>3, <1>4, <2>1, <2>2, OneSupervisorSteps
<1>6. CASE result # "published"
  <2>1. /\ req' = req /\ launched' = launched /\ pc'[s] = "closed"
        /\ \A t \in Supervisors : t # s => pc'[t] = pc[t]
    BY <1>1, <1>6 DEF CloseRun, Finish, Leave, input, runtimes, TypeOK
  <2>. QED  BY <1>2, <1>4, <2>1, OneSupervisorSteps DEF Reading, Running
<1>. QED  BY <1>5, <1>6

\* The takes leave the ledger and the view alone; a Runtime is launched only for a
\* run that the ledger has.
LEMMA IdTakes ==
    ASSUME TypeInv, IdInv, NEW s \in Supervisors,
           \/ SkipTake(s) \/ StartTake(s) \/ Launch(s) \/ MaterialChanged(s) \/ NotLaunched(s)
           \/ ReturnEvidence(s) \/ ReturnError(s)
    PROVE  IdInv'
<1> USE DEF TypeInv, IdInv
<1>1. /\ pc[s] \in Running /\ Active(s)
      /\ ledger[req[s]].id = s
      /\ \A r \in Requests : mem[s].view[r].id = ledger[r].id
  <2>1. pc[s] \in {"takes", "playing", "running"}
    BY DEF SkipTake, StartTake, Launch, MaterialChanged, NotLaunched, ReturnEvidence, ReturnError
  <2>. QED  BY <2>1 DEF Running, Reading, Active, RunIsRegistered, ViewIsCurrent
<1>2. \A a, complete, ceased : EndTake(s, a, complete, ceased) =>
         /\ mem'[s].view = mem[s].view /\ pc'[s] = "takes"
         /\ UNCHANGED <<req, ledger, launched>>
         /\ \A t \in Supervisors : t # s => pc'[t] = pc[t]
  BY DEF EndTake, Goto, TypeOK, Memories, input, runtimes
<1>3. /\ mem'[s].view = mem[s].view /\ pc'[s] \in {"takes", "playing", "running"}
      /\ UNCHANGED <<req, ledger>>
      /\ \A t \in Supervisors : t # s => pc'[t] = pc[t]
      /\ \A p \in launched' : p \in launched \/ p[1] = s
  <2>1. CASE SkipTake(s)
    BY <2>1 DEF SkipTake, TypeOK, Memories, input, runtimes
  <2>2. CASE StartTake(s)
    BY <2>2 DEF StartTake, Goto, TypeOK, Memories, input, runtimes
  <2>3. CASE Launch(s)
    BY <2>3 DEF Launch, Goto, TypeOK, Memories, input
  <2>4. CASE MaterialChanged(s)
    BY <1>2, <2>4 DEF MaterialChanged
  <2>5. CASE NotLaunched(s)
    BY <1>2, <2>5 DEF NotLaunched
  <2>6. CASE ReturnEvidence(s)
    BY <1>2, <2>6 DEF ReturnEvidence
  <2>7. CASE ReturnError(s)
    BY <1>2, <2>7 DEF ReturnError
  <2>. QED  BY <2>1, <2>2, <2>3, <2>4, <2>5, <2>6, <2>7
<1>. QED  BY <1>1, <1>3, OneSupervisorSteps

\* A supervisor that ends or crashes changes nothing durable.
LEMMA IdLeave ==
    ASSUME TypeInv, IdInv, NEW s \in Supervisors,
           UNCHANGED <<req, ledger, launched>>,
           NEW step \in {"closed", "crashed"}, pc' = [pc EXCEPT ![s] = step],
           mem' = [mem EXCEPT ![s] = NoMemory]
    PROVE  IdInv'
<1> USE DEF TypeInv, IdInv
<1>1. /\ pc'[s] \in {"closed", "crashed"}
      /\ \A t \in Supervisors : t # s => pc'[t] = pc[t] /\ mem'[t] = mem[t]
  BY DEF TypeOK
<1>2. Alone'
  BY <1>1 DEF Alone, Active
<1>3. ViewIsCurrent'
  BY <1>1 DEF ViewIsCurrent, Reading, Running
<1>4. RunIsRegistered'
  BY <1>1 DEF RunIsRegistered, Running
<1>5. RegistersOnlyNew'
  BY <1>1 DEF RegistersOnlyNew
<1>6. ExecutedIsRegistered'
  BY DEF ExecutedIsRegistered
<1>. QED  BY <1>2, <1>3, <1>4, <1>5, <1>6

\* Every step keeps the runs of the ledger, if no two supervisors are active.
LEMMA IdStep ==
    ASSUME Exclusive, TypeInv, IdInv, [Next]_vars
    PROVE  IdInv'
<1> USE DEF TypeInv, IdInv
<1>1. CASE UNCHANGED vars
  BY <1>1 DEF vars, input, runtimes, Alone, Active, ViewIsCurrent, RunIsRegistered,
              RegistersOnlyNew, ExecutedIsRegistered
<1>2. CASE RuntimeExits
  BY <1>2 DEF RuntimeExits, input, Alone, Active, ViewIsCurrent, RunIsRegistered,
              RegistersOnlyNew, ExecutedIsRegistered
<1>3. ASSUME NEW s \in Supervisors, Start(s) PROVE IdInv'
  <2>1. /\ \A t \in Supervisors : ~Active(t)
        /\ pc'[s] = "open" /\ \A t \in Supervisors : t # s => pc'[t] = pc[t]
        /\ UNCHANGED <<req, ledger, launched, mem>>
    BY <1>3 DEF Start, TypeOK, input, runtimes
  <2>2. Alone'
    BY <2>1 DEF Alone, Active
  <2>3. ViewIsCurrent' /\ RunIsRegistered' /\ RegistersOnlyNew'
    BY <2>1 DEF ViewIsCurrent, RunIsRegistered, RegistersOnlyNew, Reading, Running
  <2>. QED  BY <2>1, <2>2, <2>3 DEF ExecutedIsRegistered
<1>4. ASSUME NEW s \in Supervisors, OpenLedger(s) PROVE IdInv'
  <2>1. /\ mem'[s].view = ledger /\ pc'[s] = "recover" /\ Active(s)
        /\ \A t \in Supervisors : t # s => pc'[t] = pc[t]
        /\ UNCHANGED <<req, ledger, launched>>
    BY <1>4 DEF OpenLedger, Goto, TypeOK, Memories, input, runtimes, Active
  <2>. QED  BY <2>1, OneSupervisorSteps DEF Running
<1>5. ASSUME NEW s \in Supervisors, Admit(s) PROVE IdInv'
  <2>1. /\ pc'[s] = (IF Known(s) THEN "known" ELSE "register") /\ Active(s)
        /\ \A t \in Supervisors : t # s => pc'[t] = pc[t]
        /\ UNCHANGED <<req, ledger, launched, mem>>
        /\ \A r \in Requests : mem[s].view[r].id = ledger[r].id
    BY <1>5 DEF Admit, Goto, TypeOK, input, runtimes, Active, ViewIsCurrent, Reading
  <2>2. ~Known(s) => mem[s].view[req[s]].id = Nobody
    BY DEF Known, NoEntry
  <2>. QED  BY <2>1, <2>2, OneSupervisorSteps DEF Running
<1>6. ASSUME NEW s \in Supervisors,
             \/ Reject(s) \/ LedgerUnavailable(s) \/ Refuse(s) \/ ReportKnown(s)
             \/ WriteSummary(s) \/ Crash(s)
      PROVE  IdInv'
  <2>1. UNCHANGED <<req, ledger, launched>>
    BY <1>6 DEF Reject, LedgerUnavailable, Refuse, ReportKnown, WriteSummary, Crash,
                input, runtimes
  <2>2. Leave(s, "closed") \/ Leave(s, "crashed")
    BY <1>6 DEF Reject, LedgerUnavailable, Refuse, ReportKnown, WriteSummary, Crash, Finish
  <2>. QED  BY <2>1, <2>2, IdLeave DEF Leave
<1>7. ASSUME NEW s \in Supervisors, RequestCancel(s) PROVE IdInv'
  BY <1>7 DEF RequestCancel, input, runtimes, Alone, Active, ViewIsCurrent, RunIsRegistered,
              RegistersOnlyNew, ExecutedIsRegistered
<1>. QED  BY <1>1, <1>2, <1>3, <1>4, <1>5, <1>6, <1>7, IdRecovery, IdRegister, IdClose, IdTakes
         DEF Next, Run

(***************************************************************************)
(* RF-2.3, RNF-5: with one supervisor at a time, no request is executed    *)
(* twice, whatever crashes and whatever fails to be published.             *)
(***************************************************************************)
THEOREM ExecutedOnce ==
    ASSUME Exclusive
    PROVE  Spec => []RequestExecutedOnce
<1>1. Init => TypeInv /\ IdInv
  BY TypeInit, IdInit
<1>2. TypeInv /\ IdInv /\ [Next]_vars => (TypeInv /\ IdInv)'
  BY TypeStep, IdStep
<1>3. TypeInv /\ IdInv => RequestExecutedOnce
  BY DEF TypeInv, TypeOK, IdInv, ExecutedIsRegistered, RequestExecutedOnce, Executed
<1>. QED  BY <1>1, <1>2, <1>3, PTL DEF Spec

-----------------------------------------------------------------------------
\* What a step of one supervisor leaves alone.

\* One step of one invocation, its cancellation and its crash included.
Moves(s) == Reject(s) \/ Start(s) \/ Run(s) \/ RequestCancel(s) \/ Crash(s)

\* The end of a take changes the arbiter, the rows and the cessation in memory.
LEMMA EndTakeMemory ==
    ASSUME TypeInv, NEW s \in Supervisors, NEW a, NEW complete, NEW ceased,
           EndTake(s, a, complete, ceased)
    PROVE  /\ mem'[s].view = mem[s].view
           /\ mem'[s].arb = a
           /\ mem'[s].ceased = (mem[s].ceased /\ ceased)
           /\ mem'[s].rows = Append(mem[s].rows,
                [playback |-> Playback(a), reason |-> "none",
                 complete |-> complete /\ Playback(a) = "natural_end"])
           /\ \A t \in Supervisors : t # s => mem'[t] = mem[t] /\ pc'[t] = pc[t]
           /\ pc'[s] = "takes"
           /\ UNCHANGED <<req, content, cancel, lock, ledger, summary, outcome, launched, alive>>
BY DEF EndTake, Goto, TypeInv, TypeOK, Memories, input, runtimes

\* The four ways in which a take ends.
Ends(s) == MaterialChanged(s) \/ NotLaunched(s) \/ ReturnEvidence(s) \/ ReturnError(s)

\* Whatever ends a take does it by EndTake.
LEMMA EndsIsEndTake ==
    ASSUME NEW s \in Supervisors, Ends(s)
    PROVE  \E a, complete, ceased : EndTake(s, a, complete, ceased)
BY DEF Ends, MaterialChanged, NotLaunched, ReturnEvidence, ReturnError

\* A supervisor changes its own state, its own summary and the Runtimes it launched.
LEMMA OthersAreLeft ==
    ASSUME TypeInv, NEW s \in Supervisors, Moves(s)
    PROVE  /\ UNCHANGED input
           /\ \A t \in Supervisors : t # s =>
                /\ pc'[t] = pc[t] /\ mem'[t] = mem[t] /\ cancel'[t] = cancel[t]
                /\ summary'[t] = summary[t] /\ outcome'[t] = outcome[t]
           /\ cancel[s] => cancel'[s]
<1> USE DEF TypeInv, TypeOK, input, runtimes
<1>1. CASE Ends(s)
  BY <1>1, EndsIsEndTake, EndTakeMemory
<1>2. CASE Reject(s) \/ LedgerUnavailable(s) \/ Refuse(s) \/ ReportKnown(s) \/ Crash(s)
  BY <1>2 DEF Reject, LedgerUnavailable, Refuse, ReportKnown, Crash, Finish, Leave
<1>3. CASE Start(s) \/ OpenLedger(s) \/ Admit(s) \/ RequestCancel(s)
  BY <1>3 DEF Start, OpenLedger, Admit, RequestCancel, Goto
<1>4. CASE RecoverMark(s) \/ RecoverClose(s)
  BY <1>4 DEF RecoverMark, RecoverClose, Goto
<1>5. CASE Register(s) \/ CloseRun(s)
  BY <1>5 DEF Register, CloseRun, Goto, Finish, Leave
<1>6. CASE SkipTake(s) \/ StartTake(s) \/ Launch(s)
  BY <1>6 DEF SkipTake, StartTake, Launch, Goto
<1>7. CASE WriteSummary(s)
  BY <1>7 DEF WriteSummary, Finish, Leave
<1>. QED  BY <1>1, <1>2, <1>3, <1>4, <1>5, <1>6, <1>7 DEF Moves, Run, Ends

\* Steps after which the supervisor is gone, and what is left of its memory.
LEMMA GoneMemory ==
    ASSUME TypeInv, NEW s \in Supervisors, NEW step \in {"closed", "crashed"}, Leave(s, step)
    PROVE  mem'[s] = NoMemory /\ pc'[s] = step
BY DEF Leave, TypeInv, TypeOK

-----------------------------------------------------------------------------
\* What an invocation answers is true.

\* NotStartedTakesSayWhy of one invocation.
SaysWhy(s) ==
    LET takes == mem[s].rows IN
        \A i \in Played(takes, "not_started") :
            /\ \A j \in i..Len(takes) :
                 takes[j].playback = "not_started" /\ takes[j].reason = takes[i].reason
            /\ i = 1 => cancel[s] /\ takes[i].reason = "not_started_after_cancellation"
            /\ i > 1 /\ takes[i - 1].playback \in FailureKinds =>
                 takes[i].reason = "not_started_after_failure"
            /\ i > 1 /\ takes[i - 1].playback \in {"natural_end", "cancelled"} =>
                 takes[i].reason = "not_started_after_cancellation"

\* How the last row and the stop of the request go together: a request goes on only
\* after natural ends.
StopFollowsRows(s) ==
    LET takes == mem[s].rows
        stop  == mem[s].arb.stop
    IN  /\ takes = <<>> => stop = "none"
        /\ stop = "none" => \A i \in DOMAIN takes : takes[i].playback = "natural_end"
        /\ takes # <<>> =>
             LET last == takes[Len(takes)]
             IN  /\ last.playback = "not_started" =>
                      stop # "none" /\ last.reason = NotStartedReason(mem[s].arb)
                 /\ last.playback \in FailureKinds => stop = "failure"
                 /\ last.playback \in {"natural_end", "cancelled"} => stop # "failure"

\* An entry carries the request and the content of its run.
Belong(entries) ==
    \A r \in Used(entries) :
        req[entries[r].id] = r /\ entries[r].content = content[entries[r].id]

\* A summary is that of its run, whose invocation is over.
SummariesBelong ==
    \A s \in Supervisors : summary[s] # NoSummary =>
        pc[s] = "closed" /\ summary[s].request = req[s] /\ summary[s].content = content[s]

RowsInv == \A s \in Supervisors : SaysWhy(s) /\ StopFollowsRows(s)

AnswerInv ==
    /\ ConfirmedIsDurable
    /\ SummariesBelong
    /\ Belong(ledger)
    /\ \A s \in Supervisors : Belong(mem[s].view)
    /\ \A s \in Supervisors : pc[s] = "known" => ~Conflict(s)

\* Steps that leave the rows of an invocation as they are, or forget them.
LEMMA RowsStay ==
    ASSUME TypeInv, RowsInv, NEW s \in Supervisors, cancel[s] => cancel'[s],
           \/ mem'[s].rows = mem[s].rows /\ mem'[s].arb.stop = mem[s].arb.stop
           \/ mem'[s] = NoMemory
    PROVE  SaysWhy(s)' /\ StopFollowsRows(s)'
<1>1. CASE mem'[s] = NoMemory
  BY <1>1 DEF SaysWhy, StopFollowsRows, Played, NoMemory, NewArbiter
<1>2. CASE mem'[s].rows = mem[s].rows /\ mem'[s].arb.stop = mem[s].arb.stop
  <2>1. SaysWhy(s) /\ StopFollowsRows(s)
    BY DEF RowsInv
  <2>2. NotStartedReason(mem[s].arb)' = NotStartedReason(mem[s].arb)
    BY <1>2 DEF NotStartedReason
  <2>3. SaysWhy(s)'
    BY <1>2, <2>1 DEF SaysWhy, Played
  <2>4. StopFollowsRows(s)'
    BY <1>2, <2>1, <2>2 DEF StopFollowsRows
  <2>. QED  BY <2>3, <2>4
<1>. QED  BY <1>1, <1>2

\* A take that ran adds the row of its arbiter, which says whether the request stops.
LEMMA RowOfEndedTake ==
    ASSUME TypeInv, RowsInv, NEW s \in Supervisors, Ends(s)
    PROVE  SaysWhy(s)' /\ StopFollowsRows(s)'
<1> DEFINE takes == mem[s].rows
           n == Len(takes)
<1>1. /\ mem[s].arb = BeginTake(NewArbiter) /\ takes \in Seq(Rows) /\ cancel[s] \in BOOLEAN
  BY DEF Ends, MaterialChanged, NotLaunched, ReturnEvidence, ReturnError, TypeInv, TypeOK,
         Memories, KnowsItsStep
<1>2. PICK c \in BOOLEAN, p \in PlaybackKinds \cup {"error"},
              complete \in BOOLEAN, ceased \in BOOLEAN :
         EndTake(s, Settle(BeginTake(NewArbiter), c, p), complete, ceased)
  <2>1. CASE MaterialChanged(s)
    <3>1. Confirm(Fail(mem[s].arb, "failed")) = Settle(mem[s].arb, FALSE, "error")
      BY DEF Settle, FailureKinds
    <3>. QED  BY <1>1, <2>1, <3>1 DEF MaterialChanged
  <2>2. CASE NotLaunched(s)
    BY <1>1, <2>2 DEF NotLaunched
  <2>3. CASE ReturnEvidence(s)
    BY <1>1, <2>3 DEF ReturnEvidence
  <2>4. CASE ReturnError(s)
    BY <1>1, <2>4 DEF ReturnError
  <2>. QED  BY <2>1, <2>2, <2>3, <2>4 DEF Ends
<1> DEFINE a == Settle(BeginTake(NewArbiter), c, p)
           row == [playback |-> Playback(a), reason |-> "none",
                   complete |-> complete /\ Playback(a) = "natural_end"]
<1>3. /\ mem'[s].arb = a /\ mem'[s].rows = Append(takes, row)
      /\ cancel' = cancel
  BY <1>2, EndTakeMemory
<1>4. /\ Playback(a) = "natural_end" => a.stop = "none"
      /\ Playback(a) = "cancelled" => a.stop = "cancellation"
      /\ Playback(a) \in FailureKinds => a.stop = "failure"
      /\ Playback(a) \in PlaybackKinds
  <2>1. /\ BeginTake(NewArbiter) \in Arbiters /\ BeginTake(NewArbiter).active
        /\ ~BeginTake(NewArbiter).confirmed
    BY ArbiterTypes DEF BeginTake, NewArbiter
  <2>. QED  BY <2>1, SettledReason, SettledTake
<1>5. row.playback = Playback(a)
  OBVIOUS
<1> HIDE DEF a, row
\* Takes run only while every earlier one came to its natural end.
<1>6. \A i \in 1..n : takes[i].playback = "natural_end"
  <2>1. BeginTake(NewArbiter).stop = "none"
    BY DEF BeginTake, NewArbiter
  <2>. QED  BY <1>1, <2>1 DEF RowsInv, StopFollowsRows
<1>7. /\ n \in Nat /\ Len(mem'[s].rows) = n + 1 /\ mem'[s].rows # <<>>
      /\ DOMAIN mem'[s].rows = 1..(n + 1)
      /\ mem'[s].rows[n + 1] = row
      /\ \A i \in 1..n : mem'[s].rows[i] = takes[i]
  <2>1. row \in Rows
    <3>1. mem'[s].rows \in Seq(Rows)
      BY TypeTakes DEF Ends, TypeInv, TypeOK, Memories
    <3>2. Len(Append(takes, row)) = n + 1 /\ Append(takes, row)[n + 1] = row /\ n \in Nat
      BY <1>1
    <3>. QED  BY <1>3, <3>1, <3>2
  <2>. QED  BY <1>1, <1>3, <2>1
<1>8. row.playback \in PlaybackKinds /\ row.playback # "not_started"
  BY <1>4, <1>5 DEF PlaybackKinds
<1> HIDE DEF n, takes
<1>9. SaysWhy(s)'
  <2>1. \A i \in 1..(n + 1) : mem'[s].rows[i].playback # "not_started"
    BY <1>6, <1>7, <1>8
  <2>. QED  BY <1>7, <2>1 DEF SaysWhy, Played
<1>10. StopFollowsRows(s)'
  <2>1. a.stop = "none" => \A i \in 1..(n + 1) : mem'[s].rows[i].playback = "natural_end"
    BY <1>4, <1>5, <1>6, <1>7 DEF PlaybackKinds, FailureKinds
  <2>. QED  BY <1>3, <1>4, <1>5, <1>7, <1>8, <2>1 DEF StopFollowsRows, PlaybackKinds, FailureKinds
<1>. QED  BY <1>9, <1>10

\* A take that does not start gives the reason of the stop, as those after it will.
LEMMA RowOfSkippedTake ==
    ASSUME TypeInv, RowsInv, NEW s \in Supervisors, SkipTake(s)
    PROVE  SaysWhy(s)' /\ StopFollowsRows(s)'
<1> DEFINE takes == mem[s].rows
           n == Len(takes)
           a == BeforeTake(s)
           row == [playback |-> "not_started", complete |-> FALSE, reason |-> NotStartedReason(a)]
<1>1. /\ takes \in Seq(Rows) /\ mem[s].arb \in Arbiters /\ cancel' = cancel
      /\ cancel[s] \in BOOLEAN
  BY DEF SkipTake, TypeInv, TypeOK, Memories
<1>2. mem'[s].arb = a /\ mem'[s].rows = Append(takes, row)
  BY DEF SkipTake, TypeInv, TypeOK, Memories
\* The stop that was there stays; a cancellation is one when there was none.
<1>3. /\ a.stop \in {"cancellation", "failure"}
      /\ mem[s].arb.stop # "none" => a.stop = mem[s].arb.stop
      /\ mem[s].arb.stop = "none" => cancel[s] /\ a.stop = "cancellation"
  <2>1. CASE ~cancel[s]
    BY <1>1, <2>1 DEF SkipTake, BeforeTake, StopRequested, Arbiters, StopReasons
  <2>2. CASE cancel[s]
    <3> DEFINE x == IF CancelDecides(mem[s].arb)
                      THEN [DiscardControls(mem[s].arb) EXCEPT !.cancelled = TRUE]
                      ELSE mem[s].arb
    <3>1. x \in Arbiters
      BY <1>1, DiscardTypes, Zenon DEF Arbiters
    <3>2. x.stop = mem[s].arb.stop
      BY <1>1, DiscardTypes DEF DiscardControls, Arbiters
    <3>3. a = Stopped(x, "cancellation")
      BY <2>2 DEF BeforeTake, Cancel
    <3> HIDE DEF x, a
    <3>4. x.stop \in StopReasons
      BY <3>1 DEF Arbiters
    <3>. QED  BY <2>2, <3>1, <3>2, <3>3, <3>4 DEF Stopped, Arbiters, StopReasons
  <2>. QED  BY <1>1, <2>1, <2>2
<1>4. row.playback = "not_started" /\ row.reason = NotStartedReason(a)
  OBVIOUS
<1>5. /\ NotStartedReason(a) \in NotStartedReasons
      /\ a.stop = "cancellation" => NotStartedReason(a) = "not_started_after_cancellation"
      /\ a.stop = "failure" => NotStartedReason(a) = "not_started_after_failure"
  BY <1>3 DEF NotStartedReason, NotStartedReasons
<1>6. row \in Rows
  BY <1>5, Zenon DEF Rows
<1> HIDE DEF a, row
<1>7. /\ n \in Nat /\ Len(mem'[s].rows) = n + 1 /\ mem'[s].rows # <<>>
      /\ DOMAIN mem'[s].rows = 1..(n + 1)
      /\ mem'[s].rows[n + 1] = row
      /\ \A i \in 1..n : mem'[s].rows[i] = takes[i]
      /\ DOMAIN takes = 1..n /\ (takes = <<>> <=> n = 0)
      /\ \A i \in 1..n : takes[i].playback \in PlaybackKinds \cup {"not_started"}
  <2>1. /\ n \in Nat /\ DOMAIN takes = 1..n /\ (takes = <<>> <=> n = 0)
        /\ \A i \in 1..n : takes[i] \in Rows
    BY <1>1
  <2>2. ASSUME NEW x \in Rows PROVE x.playback \in PlaybackKinds \cup {"not_started"}
    BY DEF Rows
  <2>3. /\ Len(Append(takes, row)) = n + 1 /\ Append(takes, row) # <<>>
        /\ DOMAIN Append(takes, row) = 1..(n + 1) /\ Append(takes, row)[n + 1] = row
        /\ \A i \in 1..n : Append(takes, row)[i] = takes[i]
    BY <1>1, <1>6
  <2>. QED  BY <1>2, <2>1, <2>2, <2>3
<1>8. SaysWhy(s) /\ StopFollowsRows(s)
  BY DEF RowsInv
\* What the last row before this one says of the stop.
<1>9. n > 0 =>
        /\ takes[n].playback = "not_started" => takes[n].reason = NotStartedReason(a)
        /\ takes[n].playback \in FailureKinds => a.stop = "failure"
        /\ takes[n].playback \in {"natural_end", "cancelled"} => a.stop = "cancellation"
  <2> SUFFICES ASSUME n > 0
               PROVE  /\ takes[n].playback = "not_started" => takes[n].reason = NotStartedReason(a)
                      /\ takes[n].playback \in FailureKinds => a.stop = "failure"
                      /\ takes[n].playback \in {"natural_end", "cancelled"} => a.stop = "cancellation"
    OBVIOUS
  <2>1. /\ takes[n].playback = "not_started" =>
             mem[s].arb.stop # "none" /\ takes[n].reason = NotStartedReason(mem[s].arb)
        /\ takes[n].playback \in FailureKinds => mem[s].arb.stop = "failure"
        /\ takes[n].playback \in {"natural_end", "cancelled"} => mem[s].arb.stop # "failure"
    BY <1>7, <1>8 DEF StopFollowsRows
  <2>2. mem[s].arb.stop # "none" => NotStartedReason(a) = NotStartedReason(mem[s].arb)
    BY <1>3 DEF NotStartedReason
  <2>. QED  BY <1>3, <2>1, <2>2
<1> HIDE DEF n, takes
\* Every earlier row that did not start gives the reason that this one gives.
<1>10. \A i \in 1..n : takes[i].playback = "not_started" =>
          /\ takes[i].reason = NotStartedReason(a)
          /\ \A j \in i..n : takes[j].playback = "not_started" /\ takes[j].reason = takes[i].reason
  <2> SUFFICES ASSUME NEW i \in 1..n, takes[i].playback = "not_started"
               PROVE  /\ takes[i].reason = NotStartedReason(a)
                      /\ \A j \in i..n : takes[j].playback = "not_started"
                                         /\ takes[j].reason = takes[i].reason
    OBVIOUS
  <2>1. \A j \in i..n : takes[j].playback = "not_started" /\ takes[j].reason = takes[i].reason
    BY <1>7, <1>8 DEF SaysWhy, Played, takes, n
  <2>. QED  BY <1>7, <1>9, <2>1
<1>11. SaysWhy(s)'
  <2> DEFINE new == mem'[s].rows
  <2> SUFFICES ASSUME NEW i \in 1..(n + 1), new[i].playback = "not_started"
               PROVE  /\ \A j \in i..(n + 1) :
                           new[j].playback = "not_started" /\ new[j].reason = new[i].reason
                      /\ i = 1 => cancel[s] /\ new[i].reason = "not_started_after_cancellation"
                      /\ i > 1 /\ new[i - 1].playback \in FailureKinds =>
                           new[i].reason = "not_started_after_failure"
                      /\ i > 1 /\ new[i - 1].playback \in {"natural_end", "cancelled"} =>
                           new[i].reason = "not_started_after_cancellation"
    BY <1>1, <1>7 DEF SaysWhy, Played
  <2>1. CASE i \in 1..n
    <3>1. \A j \in i..n : new[j].playback = "not_started" /\ new[j].reason = new[i].reason
      BY <1>7, <1>10, <2>1
    <3>2. new[n + 1].playback = "not_started" /\ new[n + 1].reason = new[i].reason
      BY <1>4, <1>7, <1>10, <2>1
    <3>3. \A j \in i..(n + 1) : j \in i..n \/ j = n + 1
      BY <1>7
    <3>4. /\ i = 1 => cancel[s] /\ takes[i].reason = "not_started_after_cancellation"
          /\ i > 1 /\ takes[i - 1].playback \in FailureKinds =>
               takes[i].reason = "not_started_after_failure"
          /\ i > 1 /\ takes[i - 1].playback \in {"natural_end", "cancelled"} =>
               takes[i].reason = "not_started_after_cancellation"
      BY <1>7, <1>8, <2>1 DEF SaysWhy, Played, takes, n
    <3>5. i > 1 => i - 1 \in 1..n
      BY <1>7, <2>1
    <3>. QED  BY <1>7, <2>1, <3>1, <3>2, <3>3, <3>4, <3>5
  <2>2. CASE i = n + 1
    <3>1. \A j \in i..(n + 1) : j = i
      BY <1>7, <2>2
    <3>2. i = 1 => cancel[s] /\ a.stop = "cancellation"
      BY <1>3, <1>7, <1>8, <2>2 DEF StopFollowsRows, takes
    <3>3. i > 1 => n > 0 /\ new[i - 1] = takes[n]
      BY <1>7, <2>2
    <3>. QED  BY <1>4, <1>5, <1>7, <1>9, <2>2, <3>1, <3>2, <3>3
  <2>. QED  BY <1>7, <2>1, <2>2
<1>12. StopFollowsRows(s)'
  BY <1>2, <1>3, <1>4, <1>7 DEF StopFollowsRows, FailureKinds
<1>. QED  BY <1>11, <1>12

\* Every step keeps what the rows say.
LEMMA RowsStep ==
    ASSUME TypeInv, RowsInv, [Next]_vars
    PROVE  RowsInv'
<1>1. ASSUME NEW s \in Supervisors, Moves(s) PROVE RowsInv'
  <2>1. \A t \in Supervisors : t # s => mem'[t] = mem[t] /\ cancel'[t] = cancel[t]
    BY <1>1, OthersAreLeft
  <2>2. cancel[s] => cancel'[s]
    BY <1>1, OthersAreLeft
  <2>3. SaysWhy(s)' /\ StopFollowsRows(s)'
    <3> USE DEF TypeInv, TypeOK, Memories
    <3>1. CASE Ends(s)
      BY <3>1, RowOfEndedTake
    <3>2. CASE SkipTake(s)
      BY <3>2, RowOfSkippedTake
    <3>3. CASE Reject(s) \/ LedgerUnavailable(s) \/ Refuse(s) \/ ReportKnown(s) \/ Crash(s)
               \/ WriteSummary(s)
      <4>1. mem'[s] = NoMemory
        BY <3>3 DEF Reject, LedgerUnavailable, Refuse, ReportKnown, Crash, WriteSummary, Finish,
                    Leave
      <4>. QED  BY <2>2, <4>1, RowsStay
    <3>4. CASE Start(s) \/ Admit(s) \/ RequestCancel(s) \/ Launch(s)
      <4>1. mem' = mem
        BY <3>4 DEF Start, Admit, RequestCancel, Launch
      <4>. QED  BY <2>2, <4>1, RowsStay
    <3>5. CASE OpenLedger(s) \/ RecoverMark(s) \/ RecoverClose(s)
      <4>1. mem'[s].rows = mem[s].rows /\ mem'[s].arb = mem[s].arb
        <5>1. ASSUME NEW view, NEW todo,
                     \/ mem' = [mem EXCEPT ![s].view = view]
                     \/ mem' = [mem EXCEPT ![s].view = view, ![s].todo = todo]
              PROVE  mem'[s].rows = mem[s].rows /\ mem'[s].arb = mem[s].arb
          BY <5>1
        <5>. QED  BY <3>5, <5>1 DEF OpenLedger, RecoverMark, RecoverClose
      <4>. QED  BY <2>2, <4>1, RowsStay
    <3>6. CASE Register(s) \/ CloseRun(s)
      <4>1. \/ mem'[s] = NoMemory
            \/ mem'[s].rows = mem[s].rows /\ mem'[s].arb = mem[s].arb
        BY <3>6 DEF Register, CloseRun, Finish, Leave
      <4>. QED  BY <2>2, <4>1, RowsStay
    <3>7. CASE StartTake(s)
      <4>1. mem'[s].rows = mem[s].rows /\ mem'[s].arb = BeginTake(mem[s].arb)
        BY <3>7 DEF StartTake
      <4>2. BeginTake(mem[s].arb).stop = mem[s].arb.stop
        BY DEF BeginTake, NewArbiter
      <4>. QED  BY <2>2, <4>1, <4>2, RowsStay
    <3>. QED  BY <1>1, <3>1, <3>2, <3>3, <3>4, <3>5, <3>6, <3>7 DEF Moves, Run, Ends
  <2>4. ASSUME NEW t \in Supervisors, t # s PROVE SaysWhy(t)' /\ StopFollowsRows(t)'
    BY <2>1, <2>4, RowsStay
  <2>. QED  BY <2>3, <2>4 DEF RowsInv
<1>2. CASE UNCHANGED <<mem, cancel>>
  <2>1. ASSUME NEW t \in Supervisors PROVE SaysWhy(t)' /\ StopFollowsRows(t)'
    BY <1>2, RowsStay
  <2>. QED  BY <2>1 DEF RowsInv
<1>. QED  BY <1>1, <1>2 DEF Next, Moves, RuntimeExits, vars

\* The entries that a supervisor writes are entries.
LEMMA WrittenEntries ==
    ASSUME TypeInv, NEW s \in Supervisors
    PROVE  NewEntry(s) \in Entries /\ FinalRun(s) \in Entries
<1>1. content[s] \in Contents /\ mem[s].ceased \in BOOLEAN
  BY DEF TypeInv, TypeOK, Memories
<1>2. NewEntry(s) \in Entries
  BY <1>1 DEF NewEntry, Entries
<1> DEFINE playback == IF Played(mem[s].rows, "cancelled") # {} THEN "cancelled"
                       ELSE IF Played(mem[s].rows, "natural_end") = DOMAIN mem[s].rows
                              THEN "natural_end"
                       ELSE "error"
           evidence == IF ExitCode(mem[s].rows) = 0 THEN "complete" ELSE "incomplete"
<1>3. /\ playback \in {"not_started", "natural_end", "cancelled", "error"}
      /\ evidence \in {"pending", "complete", "incomplete"}
  OBVIOUS
<1>4. FinalRun(s) = [id |-> s, content |-> content[s], phase |-> "closed", playback |-> playback,
                     evidence |-> evidence, ceased |-> mem[s].ceased]
  BY DEF FinalRun
<1> HIDE DEF playback, evidence
<1>5. FinalRun(s) \in Entries
  BY <1>1, <1>3, <1>4 DEF Entries
<1>. QED  BY <1>2, <1>5

\* What a recovery does to an entry: it keeps the run, and never confirms its cessation.
Recovers(s, r, e) ==
    /\ pc[s] \in {"recover", "recover_close"} /\ r \in mem[s].todo
    /\ mem[s].view[r] \in Entries
    /\ e.id = mem[s].view[r].id /\ e.content = mem[s].view[r].content
    /\ e.ceased => mem[s].view[r].ceased

\* Every step that publishes replaces one entry of the view, in the ledger, in the
\* memory, in both or in none.
LEMMA OneEntryChanges ==
    ASSUME TypeInv, NEW s \in Supervisors, Moves(s)
    PROVE  \/ ledger' = ledger /\ mem'[s].view \in {mem[s].view, ledger, EmptyLedger}
           \/ \E r \in Requests, e \in Entries :
                /\ ledger' \in {ledger, [mem[s].view EXCEPT ![r] = e]}
                /\ mem'[s].view \in {mem[s].view, [mem[s].view EXCEPT ![r] = e], EmptyLedger}
                /\ \/ Recovers(s, r, e)
                   \/ Register(s) /\ r = req[s] /\ e = NewEntry(s)
                   \/ CloseRun(s) /\ r = req[s] /\ e = FinalRun(s)
<1> DEFINE view == mem[s].view
<1>0. /\ view \in Ledgers /\ mem[s].todo \in SUBSET Requests /\ req[s] \in Requests
      /\ \A step : Leave(s, step) => mem'[s].view = EmptyLedger
  BY DEF TypeInv, TypeOK, Memories, Leave, NoMemory
<1>1. CASE Ends(s)
  BY <1>1, EndsIsEndTake, EndTakeMemory
<1>2. CASE Reject(s) \/ LedgerUnavailable(s) \/ Refuse(s) \/ ReportKnown(s) \/ Crash(s)
           \/ WriteSummary(s)
  BY <1>0, <1>2 DEF Reject, LedgerUnavailable, Refuse, ReportKnown, Crash, WriteSummary, Finish
<1>3. CASE Start(s) \/ Admit(s) \/ RequestCancel(s) \/ Launch(s)
  BY <1>3 DEF Start, Admit, RequestCancel, Launch
<1>4. CASE OpenLedger(s) \/ SkipTake(s) \/ StartTake(s)
  BY <1>4 DEF OpenLedger, SkipTake, StartTake, TypeInv, TypeOK, Memories
<1>5. ASSUME RecoverMark(s) \/ RecoverClose(s)
      PROVE  /\ Recovered(s) \in Requests /\ Recovered(s) \in mem[s].todo
             /\ view[Recovered(s)] \in Entries
  <2>1. mem[s].todo # {} /\ mem[s].todo \subseteq Used(view)
    BY <1>5 DEF RecoverMark, RecoverClose, KnowsItsStep, TypeInv
  <2>2. Recovered(s) \in mem[s].todo
    BY <2>1, Zenon DEF Recovered
  <2>. QED  BY <1>0, <2>1, <2>2 DEF Used, Ledgers
<1> DEFINE r == Recovered(s)
<1>6. CASE RecoverMark(s)
  <2> DEFINE e == [view[r] EXCEPT !.evidence = "incomplete"]
             entries == [view EXCEPT ![r] = e]
  <2>1. e \in Entries /\ Recovers(s, r, e)
    BY <1>5, <1>6, ValueTypes DEF Entries, Recovers, RecoverMark
  <2>2. PICK result :
           /\ ledger' = LedgerAfter(s, entries, result)
           /\ mem' = [mem EXCEPT ![s].view = ViewAfter(s, entries, result)]
    BY <1>6 DEF RecoverMark
  <2> HIDE DEF e, entries, r
  <2>3. mem'[s].view = ViewAfter(s, entries, result)
    BY <2>2 DEF TypeInv, TypeOK, Memories
  <2>4. ledger' \in {ledger, entries} /\ mem'[s].view \in {view, entries}
    BY <2>2, <2>3 DEF LedgerAfter, ViewAfter
  <2>. QED  BY <1>5, <1>6, <2>1, <2>4 DEF entries, r
<1>7. CASE RecoverClose(s)
  <2> DEFINE e == Interrupted(view[r])
             entries == [view EXCEPT ![r] = e]
  <2>1. e \in Entries /\ Recovers(s, r, e)
    <3>1. e.id = view[r].id /\ e.content = view[r].content /\ ~e.ceased
      BY <1>5, <1>7 DEF Interrupted, Entries
    <3>. QED  BY <1>5, <1>7, <3>1, ValueTypes DEF Recovers, RecoverClose
  <2>2. PICK result :
           /\ ledger' = LedgerAfter(s, entries, result)
           /\ mem' = [mem EXCEPT ![s].view = ViewAfter(s, entries, result),
                                 ![s].todo = mem[s].todo \ {r}]
    BY <1>7 DEF RecoverClose
  <2> HIDE DEF e, entries, r
  <2>3. mem'[s].view = ViewAfter(s, entries, result)
    BY <2>2 DEF TypeInv, TypeOK, Memories
  <2>4. ledger' \in {ledger, entries} /\ mem'[s].view \in {view, entries}
    BY <2>2, <2>3 DEF LedgerAfter, ViewAfter
  <2>. QED  BY <1>5, <1>7, <2>1, <2>4 DEF entries, r
<1>8. CASE Register(s)
  <2> DEFINE entries == [view EXCEPT ![req[s]] = NewEntry(s)]
  <2>1. PICK result \in PublishResults :
           /\ ledger' = LedgerAfter(s, entries, result)
           /\ IF result = "published"
                THEN mem' = [mem EXCEPT ![s].view = entries] /\ Goto(s, "takes")
                ELSE Finish(s, "unpublished", 4, FALSE)
    BY <1>8 DEF Register
  <2> HIDE DEF entries
  <2>2. ledger' \in {ledger, entries} /\ mem'[s].view \in {entries, EmptyLedger}
    BY <1>0, <2>1 DEF LedgerAfter, Finish, TypeInv, TypeOK, Memories
  <2>. QED  BY <1>0, <1>8, <2>2, WrittenEntries DEF entries
<1>9. CASE CloseRun(s)
  <2> DEFINE entries == [view EXCEPT ![req[s]] = FinalRun(s)]
  <2>1. PICK result \in PublishResults :
           /\ ledger' = LedgerAfter(s, entries, result)
           /\ IF result = "published"
                THEN mem' = [mem EXCEPT ![s].view = entries] /\ Goto(s, "summary")
                ELSE Finish(s, "unpublished", 4, FALSE)
    BY <1>9 DEF CloseRun
  <2> HIDE DEF entries
  <2>2. ledger' \in {ledger, entries} /\ mem'[s].view \in {entries, EmptyLedger}
    BY <1>0, <2>1 DEF LedgerAfter, Finish, TypeInv, TypeOK, Memories
  <2>. QED  BY <1>0, <1>9, <2>2, WrittenEntries DEF entries
<1>. QED  BY <1>1, <1>2, <1>3, <1>4, <1>6, <1>7, <1>8, <1>9 DEF Moves, Run, Ends

\* At first nobody answered anything and the ledger is empty.
LEMMA AnswerInit == Init => RowsInv /\ AnswerInv
<1> SUFFICES ASSUME Init PROVE RowsInv /\ AnswerInv
  OBVIOUS
<1>1. RowsInv
  BY DEF Init, RowsInv, SaysWhy, StopFollowsRows, Played, NoMemory, NewArbiter
<1>2. AnswerInv
  BY DEF Init, AnswerInv, ConfirmedIsDurable, SummariesBelong, Belong, Used, NoMemory, NoOutcome,
         EmptyLedger
<1>. QED  BY <1>1, <1>2

\* The entries that a step writes belong to the request and the content of their run.
LEMMA BelongStep ==
    ASSUME TypeInv, AnswerInv, NEW s \in Supervisors, Moves(s)
    PROVE  Belong(ledger)' /\ Belong(mem[s].view)'
<1>1. Belong(ledger) /\ Belong(mem[s].view) /\ Belong(EmptyLedger)
  BY DEF AnswerInv, Belong, Used, EmptyLedger
<1>2. req' = req /\ content' = content
  BY OthersAreLeft DEF input
<1>3. CASE ledger' = ledger /\ mem'[s].view \in {mem[s].view, ledger, EmptyLedger}
  BY <1>1, <1>2, <1>3 DEF Belong, Used
<1>4. ASSUME NEW r \in Requests, NEW e \in Entries,
             ledger' \in {ledger, [mem[s].view EXCEPT ![r] = e]},
             mem'[s].view \in {mem[s].view, [mem[s].view EXCEPT ![r] = e], EmptyLedger},
             \/ Recovers(s, r, e)
             \/ Register(s) /\ r = req[s] /\ e = NewEntry(s)
             \/ CloseRun(s) /\ r = req[s] /\ e = FinalRun(s)
      PROVE  Belong(ledger)' /\ Belong(mem[s].view)'
  <2> DEFINE entries == [mem[s].view EXCEPT ![r] = e]
  <2>1. mem[s].view \in Ledgers
    BY DEF TypeInv, TypeOK, Memories
  <2>2. req[e.id] = r /\ e.content = content[e.id]
    <3>1. CASE Recovers(s, r, e)
      <4>1. mem[s].view[r] # NoEntry
        BY <2>1, <3>1, EntryReplaced DEF Recovers
      <4>. QED  BY <1>1, <3>1, <4>1 DEF Recovers, Belong, Used
    <3>2. CASE r = req[s] /\ e \in {NewEntry(s), FinalRun(s)}
      BY <3>2 DEF NewEntry, FinalRun
    <3>. QED  BY <1>4, <3>1, <3>2
  <2>3. Belong(entries)
    <3>1. \A q \in Requests : entries[q] = IF q = r THEN e ELSE mem[s].view[q]
      BY <2>1 DEF Ledgers
    <3> HIDE DEF entries
    <3>. QED  BY <1>1, <2>2, <3>1 DEF Belong, Used
  <2> HIDE DEF entries
  <2>4. ledger' \in {ledger, entries} /\ mem'[s].view \in {mem[s].view, entries, EmptyLedger}
    BY <1>4 DEF entries
  <2>. QED  BY <1>1, <1>2, <2>3, <2>4 DEF Belong, Used
<1>. QED  BY <1>3, <1>4, OneEntryChanges

\* A summary is written by the invocation of its run, which ends there.
LEMMA SummaryStep ==
    ASSUME TypeInv, AnswerInv, NEW s \in Supervisors, Moves(s)
    PROVE  /\ summary[s] = NoSummary
           /\ \A t \in Supervisors : summary[t] # NoSummary => summary'[t] = summary[t]
           /\ SummariesBelong'
<1>1. pc[s] # "closed"
  BY DEF Moves, Run, Reject, Start, OpenLedger, LedgerUnavailable, RecoverMark, RecoverClose,
         Refuse, Admit, ReportKnown, Register, SkipTake, StartTake, Launch, MaterialChanged,
         NotLaunched, ReturnEvidence, ReturnError, CloseRun, WriteSummary, RequestCancel, Crash,
         Active
<1>2. summary[s] = NoSummary
  BY <1>1 DEF AnswerInv, SummariesBelong
<1>3. \/ summary'[s] = summary[s]
      \/ summary'[s] = SummaryOf(s) /\ pc'[s] = "closed"
  <2>1. CASE WriteSummary(s)
    BY <2>1 DEF WriteSummary, Finish, Leave, TypeInv, TypeOK
  <2>2. CASE Ends(s)
    BY <2>2, EndsIsEndTake, EndTakeMemory
  <2>3. CASE ~WriteSummary(s) /\ ~Ends(s)
    BY <2>3 DEF Ends, Moves, Run, Reject, Start, OpenLedger, LedgerUnavailable, RecoverMark,
                RecoverClose, Refuse, Admit, ReportKnown, Register, SkipTake, StartTake, Launch,
                CloseRun, RequestCancel, Crash
  <2>. QED  BY <2>1, <2>2, <2>3
<1>4. /\ req' = req /\ content' = content
      /\ \A t \in Supervisors : t # s => pc'[t] = pc[t] /\ summary'[t] = summary[t]
  BY OthersAreLeft DEF input
<1>5. SummariesBelong'
  <2>1. SummaryOf(s).request = req[s] /\ SummaryOf(s).content = content[s]
    BY DEF SummaryOf
  <2>. QED  BY <1>2, <1>3, <1>4, <2>1 DEF AnswerInv, SummariesBelong
<1>. QED  BY <1>2, <1>4, <1>5

\* The answers that an invocation may give when it ends.
LEMMA OutcomeStep ==
    ASSUME TypeInv, AnswerInv, NEW s \in Supervisors, Moves(s), outcome'[s].confirmed
    PROVE  \E t \in Supervisors :
             /\ summary'[t] # NoSummary
             /\ summary'[t].request = req[s]
             /\ summary'[t].content = content[s]
             /\ summary'[t].exit = outcome'[s].exit
<1>1. \A status, exit, confirmed : Finish(s, status, exit, confirmed) =>
         outcome'[s].confirmed = confirmed /\ outcome'[s].exit = exit
  BY DEF Finish, TypeInv, TypeOK
<1>2. CASE outcome' = outcome
  BY <1>2, SummaryStep DEF AnswerInv, ConfirmedIsDurable
<1>3. CASE ReportKnown(s)
  <2> DEFINE run == mem[s].view[req[s]]
  <2>1. run \in Entries /\ run.content = content[s] /\ req[run.id] = req[s]
        /\ run.content = content[run.id]
    <3>1. mem[s].view \in Ledgers /\ req[s] \in Requests /\ run # NoEntry
      BY <1>3 DEF ReportKnown, TypeInv, TypeOK, KnowsItsStep, Memories
    <3>2. run.content = content[s]
      BY <1>3, <3>1 DEF ReportKnown, AnswerInv, Conflict, Known
    <3>3. req[run.id] = req[s] /\ run.content = content[run.id]
      BY <3>1 DEF AnswerInv, Belong, Used
    <3>. QED  BY <3>1, <3>2, <3>3 DEF Ledgers
  <2>2. run.id \in Supervisors
    BY <2>1 DEF Entries
  <2>3. summary[run.id] # NoSummary /\ outcome'[s].exit = summary[run.id].exit
    BY <1>1, <1>3 DEF ReportKnown
  <2>4. /\ summary[run.id].request = req[run.id] /\ summary[run.id].content = content[run.id]
    BY <2>2, <2>3 DEF AnswerInv, SummariesBelong
  <2>5. summary'[run.id] = summary[run.id]
    BY <2>2, <2>3, SummaryStep
  <2> HIDE DEF run
  <2>. QED  BY <2>1, <2>2, <2>3, <2>4, <2>5
<1>4. CASE WriteSummary(s)
  <2>1. summary'[s] = SummaryOf(s) /\ outcome'[s].exit = ExitCode(mem[s].rows)
    BY <1>1, <1>4 DEF WriteSummary, TypeInv, TypeOK
  <2>2. SummaryOf(s) # NoSummary
    <3>1. "request" \in DOMAIN SummaryOf(s) /\ "request" \notin DOMAIN NoSummary
      BY DEF SummaryOf, NoSummary
    <3>. QED  BY <3>1
  <2>3. /\ SummaryOf(s).request = req[s] /\ SummaryOf(s).content = content[s]
        /\ SummaryOf(s).exit = ExitCode(mem[s].rows)
    BY DEF SummaryOf
  <2>. QED  BY <2>1, <2>2, <2>3
<1>5. CASE Reject(s) \/ LedgerUnavailable(s) \/ Refuse(s)
  BY <1>1, <1>5 DEF Reject, LedgerUnavailable, Refuse
<1>6. CASE Register(s) \/ CloseRun(s)
  <2>1. outcome' = outcome \/ Finish(s, "unpublished", 4, FALSE)
    BY <1>6 DEF Register, CloseRun, Goto
  <2>. QED  BY <1>1, <1>2, <2>1
<1>7. CASE Ends(s)
  BY <1>2, <1>7, EndsIsEndTake, EndTakeMemory
<1>8. CASE \/ Start(s) \/ OpenLedger(s) \/ RecoverMark(s) \/ RecoverClose(s) \/ Admit(s)
           \/ SkipTake(s) \/ StartTake(s) \/ Launch(s) \/ RequestCancel(s) \/ Crash(s)
  BY <1>2, <1>8 DEF Start, OpenLedger, RecoverMark, RecoverClose, Admit, SkipTake, StartTake,
                    Launch, RequestCancel, Crash, Goto
<1>. QED  BY <1>3, <1>4, <1>5, <1>6, <1>7, <1>8 DEF Moves, Run, Ends

\* Only admission lets an invocation answer for a known request, of the same content.
LEMMA KnownStep ==
    ASSUME TypeInv, AnswerInv, NEW s \in Supervisors, Moves(s), pc'[s] = "known"
    PROVE  ~Conflict(s)'
<1>1. req' = req /\ content' = content
  BY OthersAreLeft DEF input
<1>2. CASE Admit(s)
  BY <1>1, <1>2 DEF Admit, Refusal, Goto, TypeInv, TypeOK, Conflict, Known
<1>3. CASE RequestCancel(s)
  BY <1>1, <1>3 DEF RequestCancel, AnswerInv, Conflict, Known
<1>4. CASE Ends(s)
  BY <1>4, EndsIsEndTake, EndTakeMemory
<1>5. CASE \/ Reject(s) \/ LedgerUnavailable(s) \/ Refuse(s) \/ ReportKnown(s) \/ Crash(s)
           \/ WriteSummary(s)
  BY <1>5 DEF Reject, LedgerUnavailable, Refuse, ReportKnown, Crash, WriteSummary, Finish, Leave,
              TypeInv, TypeOK
<1>6. CASE \/ Start(s) \/ OpenLedger(s) \/ RecoverMark(s) \/ RecoverClose(s) \/ SkipTake(s)
           \/ StartTake(s) \/ Launch(s)
  BY <1>6 DEF Start, OpenLedger, RecoverMark, RecoverClose, SkipTake, StartTake, Launch, Goto,
              TypeInv, TypeOK
<1>7. CASE Register(s) \/ CloseRun(s)
  BY <1>7 DEF Register, CloseRun, Finish, Leave, Goto, TypeInv, TypeOK
<1>. QED  BY <1>2, <1>3, <1>4, <1>5, <1>6, <1>7 DEF Moves, Run, Ends

\* Every step keeps the answers true.
LEMMA AnswerStep ==
    ASSUME TypeInv, AnswerInv, [Next]_vars
    PROVE  AnswerInv'
<1>1. ASSUME NEW s \in Supervisors, Moves(s) PROVE AnswerInv'
  <2>1. /\ req' = req /\ content' = content
        /\ \A t \in Supervisors : t # s =>
             pc'[t] = pc[t] /\ mem'[t] = mem[t] /\ outcome'[t] = outcome[t]
    BY <1>1, OthersAreLeft DEF input
  <2>2. ConfirmedIsDurable'
    <3> SUFFICES ASSUME NEW u \in Supervisors, outcome'[u].confirmed
                 PROVE  \E t \in Supervisors :
                          /\ summary'[t] # NoSummary
                          /\ summary'[t].request = req'[u]
                          /\ summary'[t].content = content'[u]
                          /\ summary'[t].exit = outcome'[u].exit
      BY DEF ConfirmedIsDurable
    <3>1. CASE u = s
      BY <1>1, <2>1, <3>1, OutcomeStep
    <3>2. CASE u # s
      <4>1. PICK t \in Supervisors :
              /\ summary[t] # NoSummary
              /\ summary[t].request = req[u]
              /\ summary[t].content = content[u]
              /\ summary[t].exit = outcome[u].exit
        BY <2>1, <3>2 DEF AnswerInv, ConfirmedIsDurable
      <4>. QED  BY <1>1, <2>1, <3>2, <4>1, SummaryStep
    <3>. QED  BY <3>1, <3>2
  <2>3. \A t \in Supervisors : Belong(mem[t].view)'
    <3>1. ASSUME NEW t \in Supervisors, t # s PROVE Belong(mem[t].view)'
      BY <2>1, <3>1 DEF AnswerInv, Belong, Used
    <3>. QED  BY <1>1, <3>1, BelongStep
  <2>4. \A t \in Supervisors : pc'[t] = "known" => ~Conflict(t)'
    <3>1. ASSUME NEW t \in Supervisors, t # s, pc'[t] = "known" PROVE ~Conflict(t)'
      BY <2>1, <3>1 DEF AnswerInv, Conflict, Known
    <3>. QED  BY <1>1, <3>1, KnownStep
  <2>. QED  BY <1>1, <2>2, <2>3, <2>4, BelongStep, SummaryStep DEF AnswerInv
<1>2. CASE UNCHANGED <<pc, input, ledger, summary, mem, outcome>>
  BY <1>2 DEF AnswerInv, ConfirmedIsDurable, SummariesBelong, Belong, Used, Conflict, Known, input
<1>. QED  BY <1>1, <1>2 DEF Next, Moves, RuntimeExits, vars

(***************************************************************************)
(* RF-2.3, RF-2.5: whatever the supervisors of the same destination do at  *)
(* once, whatever crashes or is not published, a confirmed outcome is that *)
(* of a durable summary, and the takes that did not start say why.         *)
(***************************************************************************)
THEOREM AnswersAreTrue == Spec => []OutcomesAreTrue
<1>1. Init => TypeInv /\ RowsInv /\ AnswerInv
  BY TypeInit, AnswerInit
<1>2. TypeInv /\ RowsInv /\ AnswerInv /\ [Next]_vars => (TypeInv /\ RowsInv /\ AnswerInv)'
  BY TypeStep, RowsStep, AnswerStep
<1>3. RowsInv /\ AnswerInv => OutcomesAreTrue
  BY DEF RowsInv, AnswerInv, OutcomesAreTrue, NotStartedTakesSayWhy, SaysWhy
<1>. QED  BY <1>1, <1>2, <1>3, PTL DEF Spec

-----------------------------------------------------------------------------
\* The Runtimes of a request are accounted for.

\* Runs whose takes are over, and those that have not begun any.
Past == {"summary", "closed", "crashed"}
Coming == {"idle", "open", "recover", "recover_close", "register", "known"}

RuntimesOf(s) == {p \in alive : p[1] = s}

\* A take is started when every Runtime of the earlier ones is gone.
RuntimesFollow(s) ==
    /\ pc[s] \in Coming => \A p \in launched : p[1] # s
    /\ pc[s] \in {"takes", "playing"} /\ mem[s].arb.stop = "none" => RuntimesOf(s) = {}
    /\ pc[s] = "running" => RuntimesOf(s) \subseteq {<<s, Slot(s)>>}
    /\ pc[s] \in {"takes", "summary"} /\ mem[s].ceased => RuntimesOf(s) = {}

\* An entry confirms a cessation only once its run is over and its Runtimes are gone.
Gone(entries) ==
    \A r \in Used(entries) : entries[r].ceased =>
        pc[entries[r].id] \in Past /\ RuntimesOf(entries[r].id) = {}

RuntimeInv ==
    /\ TakesDoNotOverlap
    /\ \A s \in Supervisors : RuntimesFollow(s)
    /\ Gone(ledger)
    /\ \A s \in Supervisors : Gone(mem[s].view)

\* At first no Runtime exists.
LEMMA RuntimeInit == Init => RuntimeInv
BY DEF Init, RuntimeInv, TakesDoNotOverlap, RuntimesFollow, RuntimesOf, Gone, Used, NoMemory,
       EmptyLedger

\* Only a launch adds a Runtime, and a run whose takes are over starts none.
LEMMA RuntimesMove ==
    ASSUME TypeInv, NEW s \in Supervisors, Moves(s)
    PROVE  /\ pc[s] \in Past => pc'[s] \in Past /\ ~Launch(s)
           /\ ~Launch(s) => UNCHANGED <<launched, alive>>
           /\ Launch(s) => /\ launched' = launched \cup {<<s, Slot(s)>>}
                           /\ alive' = alive \cup {<<s, Slot(s)>>}
<1>1. pc[s] \in Past => pc'[s] \in Past /\ ~Launch(s)
  BY DEF Past, Moves, Run, Reject, Start, OpenLedger, LedgerUnavailable, RecoverMark, RecoverClose,
         Refuse, Admit, ReportKnown, Register, SkipTake, StartTake, Launch, MaterialChanged,
         NotLaunched, ReturnEvidence, ReturnError, CloseRun, WriteSummary, RequestCancel, Crash,
         Active, Finish, Leave, TypeInv, TypeOK
<1>2. ~Launch(s) => UNCHANGED <<launched, alive>>
  <2>1. CASE Ends(s)
    BY <2>1, EndsIsEndTake, EndTakeMemory
  <2>. QED  BY <2>1 DEF Ends, Moves, Run, Reject, Start, OpenLedger, LedgerUnavailable, RecoverMark,
                  RecoverClose, Refuse, Admit, ReportKnown, Register, SkipTake, StartTake,
                  CloseRun, WriteSummary, RequestCancel, Crash, runtimes
<1>3. Launch(s) => /\ launched' = launched \cup {<<s, Slot(s)>>}
                   /\ alive' = alive \cup {<<s, Slot(s)>>}
  BY DEF Launch
<1>. QED  BY <1>1, <1>2, <1>3

\* A take that ends leaves no Runtime when the request goes on, and none when its
\* cessation was seen.
LEMMA RuntimesOfEndedTake ==
    ASSUME TypeInv, RuntimeInv, NEW s \in Supervisors, Ends(s)
    PROVE  /\ mem'[s].arb.stop = "none" => RuntimesOf(s)' = {}
           /\ mem'[s].ceased => RuntimesOf(s)' = {}
<1>1. /\ mem[s].arb = BeginTake(NewArbiter) /\ cancel[s] \in BOOLEAN
      /\ mem[s].arb.stop = "none"
  BY DEF Ends, MaterialChanged, NotLaunched, ReturnEvidence, ReturnError, TypeInv, TypeOK,
         Memories, KnowsItsStep, BeginTake, NewArbiter
<1>2. alive' = alive
  BY EndsIsEndTake, EndTakeMemory
<1>3. \A c \in BOOLEAN, p \in PlaybackKinds \cup {"error"} :
         Settle(BeginTake(NewArbiter), c, p).stop = "none" => p = "natural_end"
  <2> SUFFICES ASSUME NEW c \in BOOLEAN, NEW p \in PlaybackKinds \cup {"error"},
                      Settle(BeginTake(NewArbiter), c, p).stop = "none"
               PROVE  p = "natural_end"
    OBVIOUS
  <2> DEFINE a == Settle(BeginTake(NewArbiter), c, p)
  <2>1. /\ BeginTake(NewArbiter) \in Arbiters /\ BeginTake(NewArbiter).active
        /\ ~BeginTake(NewArbiter).confirmed
    BY ArbiterTypes DEF BeginTake, NewArbiter
  <2>2. Playback(a) \in PlaybackKinds
    BY <2>1, SettledTake
  <2>3. /\ Playback(a) = "natural_end" => p = "natural_end"
        /\ Playback(a) = "cancelled" => a.stop = "cancellation"
        /\ Playback(a) \in FailureKinds => a.stop = "failure"
    BY SettledReason
  <2>4. a.stop = "none"
    OBVIOUS
  <2> HIDE DEF a
  <2>. QED  BY <2>2, <2>3, <2>4 DEF PlaybackKinds, FailureKinds
<1>4. CASE MaterialChanged(s) \/ NotLaunched(s)
  <2>1. RuntimesOf(s) = {}
    BY <1>1, <1>4 DEF MaterialChanged, NotLaunched, RuntimeInv, RuntimesFollow
  <2>. QED  BY <1>2, <2>1 DEF RuntimesOf
<1>5. CASE ReturnEvidence(s)
  <2>1. RuntimesOf(s) = {}
    BY <1>5 DEF ReturnEvidence, RuntimeInv, RuntimesFollow, RuntimesOf
  <2>. QED  BY <1>2, <2>1 DEF RuntimesOf
<1>6. CASE ReturnError(s)
  <2>1. PICK exited \in BOOLEAN, closed \in BOOLEAN :
          /\ exited => <<s, Slot(s)>> \notin alive
          /\ EndTake(s, Settle(mem[s].arb, cancel[s], "error"), FALSE, exited /\ closed)
    BY <1>6 DEF ReturnError
  <2>2. mem'[s].arb.stop # "none"
    <3>1. mem'[s].arb = Settle(BeginTake(NewArbiter), cancel[s], "error")
      BY <1>1, <2>1, EndTakeMemory
    <3>. QED  BY <1>1, <1>3, <3>1
  <2>3. mem'[s].ceased => exited
    <3>1. mem'[s].ceased = (mem[s].ceased /\ (exited /\ closed))
      BY <2>1, EndTakeMemory
    <3>. QED  BY <3>1
  <2>4. exited => RuntimesOf(s) = {}
    BY <1>6, <2>1 DEF ReturnError, RuntimeInv, RuntimesFollow, RuntimesOf
  <2>. QED  BY <1>2, <2>2, <2>3, <2>4 DEF RuntimesOf
<1>. QED  BY <1>4, <1>5, <1>6 DEF Ends

\* What a step says of the Runtimes of its own run.
LEMMA RuntimesFollowStep ==
    ASSUME TypeInv, RuntimeInv, NEW s \in Supervisors, Moves(s)
    PROVE  RuntimesFollow(s)'
<1> USE DEF TypeInv, TypeOK
<1>1. RuntimesFollow(s) /\ mem[s] \in Memories
  BY DEF RuntimeInv
<1>2. CASE Ends(s)
  <2>1. pc'[s] = "takes"
    BY <1>2, EndsIsEndTake, EndTakeMemory
  <2>. QED  BY <1>2, <2>1, RuntimesOfEndedTake DEF RuntimesFollow, Coming
<1>3. CASE Launch(s)
  <2>1. RuntimesOf(s) = {} /\ pc'[s] = "running" /\ mem' = mem
    BY <1>1, <1>3 DEF Launch, Goto, RuntimesFollow, KnowsItsStep, BeginTake, NewArbiter
  <2>2. RuntimesOf(s)' \subseteq {<<s, Slot(s)>>}
    BY <1>3, <2>1 DEF Launch, RuntimesOf
  <2>3. Slot(s)' = Slot(s)
    BY <2>1 DEF Slot
  <2>. QED  BY <2>1, <2>2, <2>3 DEF RuntimesFollow, Coming
<1>4. CASE ~Launch(s) /\ pc'[s] \in Past \ {"summary"}
  BY <1>4 DEF RuntimesFollow, Coming, Past
<1>5. CASE Start(s) \/ OpenLedger(s) \/ RecoverMark(s) \/ RecoverClose(s) \/ Admit(s)
  BY <1>1, <1>5 DEF Start, OpenLedger, RecoverMark, RecoverClose, Admit, Goto, RuntimesFollow,
                    Coming, runtimes
<1>6. CASE Register(s) /\ pc'[s] = "takes"
  <2>1. \A p \in launched : p[1] # s
    BY <1>1, <1>6 DEF Register, RuntimesFollow, Coming
  <2>2. alive' = alive
    BY <1>6 DEF Register, runtimes
  <2>3. RuntimesOf(s)' = {}
    BY <2>1, <2>2 DEF RuntimesOf
  <2>. QED  BY <1>6, <2>3 DEF RuntimesFollow, Coming
<1>7. CASE SkipTake(s)
  <2>1. pc'[s] = "takes" /\ alive' = alive
    BY <1>7 DEF SkipTake, runtimes
  <2>2. mem'[s].ceased = mem[s].ceased /\ mem'[s].arb = BeforeTake(s)
    BY <1>7 DEF SkipTake, Memories
  <2>3. BeforeTake(s).stop # "none"
    BY <1>7 DEF SkipTake, StopRequested
  <2>4. mem[s].ceased => RuntimesOf(s) = {}
    BY <1>1, <1>7 DEF SkipTake, RuntimesFollow
  <2>. QED  BY <2>1, <2>2, <2>3, <2>4 DEF RuntimesFollow, Coming, RuntimesOf
<1>8. CASE StartTake(s)
  <2>1. pc'[s] = "playing" /\ alive' = alive
    BY <1>8 DEF StartTake, Goto, runtimes
  <2>2. mem'[s].arb.stop = mem[s].arb.stop
    BY <1>8 DEF StartTake, Memories, BeginTake, NewArbiter
  <2>. QED  BY <1>1, <1>8, <2>1, <2>2 DEF StartTake, RuntimesFollow, Coming, RuntimesOf
<1>9. CASE CloseRun(s) /\ pc'[s] = "summary"
  <2>1. mem'[s].ceased = mem[s].ceased /\ alive' = alive
    <3>1. mem' = [mem EXCEPT ![s].view = [mem[s].view EXCEPT ![req[s]] = FinalRun(s)]]
      BY <1>9 DEF CloseRun, Finish, Leave
    <3>. QED  BY <1>9, <3>1 DEF CloseRun, Memories, runtimes
  <2>. QED  BY <1>1, <1>9, <2>1 DEF CloseRun, RuntimesFollow, Coming, RuntimesOf
<1>10. CASE RequestCancel(s)
  BY <1>1, <1>10 DEF RequestCancel, RuntimesFollow, RuntimesOf, Slot, runtimes
<1>11. \/ Reject(s) \/ LedgerUnavailable(s) \/ Refuse(s) \/ ReportKnown(s) \/ Crash(s)
       \/ WriteSummary(s) \/ (Register(s) /\ pc'[s] # "takes") \/ (CloseRun(s) /\ pc'[s] # "summary")
       => pc'[s] \in Past \ {"summary"} /\ ~Launch(s)
  BY DEF Reject, LedgerUnavailable, Refuse, ReportKnown, Crash, WriteSummary, Register, CloseRun,
         Goto, Finish, Leave, Launch, Past, Active
<1>. QED  BY <1>2, <1>3, <1>4, <1>5, <1>6, <1>7, <1>8, <1>9, <1>10, <1>11 DEF Moves, Run, Ends

\* Every step keeps the account of the Runtimes.
LEMMA RuntimeStep ==
    ASSUME TypeInv, RuntimeInv, [Next]_vars
    PROVE  RuntimeInv'
<1>1. ASSUME NEW s \in Supervisors, Moves(s) PROVE RuntimeInv'
  <2>1. \A t \in Supervisors : t # s => pc'[t] = pc[t] /\ mem'[t] = mem[t]
    BY <1>1, OthersAreLeft
  <2>2. \A t \in Supervisors : pc[t] \in Past => pc'[t] \in Past /\ RuntimesOf(t)' = RuntimesOf(t)
    BY <1>1, <2>1, RuntimesMove DEF RuntimesOf
  <2>3. TakesDoNotOverlap'
    <3>1. CASE ~Launch(s)
      BY <1>1, <3>1, RuntimesMove DEF RuntimeInv, TakesDoNotOverlap
    <3>2. CASE Launch(s)
      <4>1. RuntimesOf(s) = {}
        BY <3>2 DEF Launch, RuntimeInv, RuntimesFollow, TypeInv, KnowsItsStep, BeginTake, NewArbiter
      <4>. QED  BY <1>1, <3>2, <4>1, RuntimesMove DEF RuntimeInv, TakesDoNotOverlap, RuntimesOf
    <3>. QED  BY <3>1, <3>2
  <2>4. \A t \in Supervisors : RuntimesFollow(t)'
    <3>1. ASSUME NEW t \in Supervisors, t # s PROVE RuntimesFollow(t)'
      <4>1. /\ RuntimesOf(t)' = RuntimesOf(t)
            /\ \A p \in launched' : p \in launched \/ p[1] # t
        BY <1>1, <3>1, RuntimesMove DEF RuntimesOf
      <4>2. Slot(t)' = Slot(t)
        BY <2>1, <3>1 DEF Slot
      <4>. QED  BY <2>1, <3>1, <4>1, <4>2 DEF RuntimeInv, RuntimesFollow
    <3>. QED  BY <1>1, <3>1, RuntimesFollowStep
  \* What an entry confirmed stays true, whatever the step is.
  <2>5. ASSUME NEW e \in Entries, pc[e.id] \in Past /\ RuntimesOf(e.id) = {}
        PROVE  pc'[e.id] \in Past /\ RuntimesOf(e.id)' = {}
    <3>1. e.id \in Supervisors
      BY DEF Entries
    <3> DEFINE t == e.id
    <3>2. t \in Supervisors /\ pc[t] \in Past /\ RuntimesOf(t) = {}
      BY <2>5, <3>1
    <3>3. pc'[t] \in Past /\ RuntimesOf(t)' = {}
      BY <2>2, <3>2
    <3>. QED  BY <3>3 DEF RuntimesOf
  <2>6. \A entries \in Ledgers : \A r \in Used(entries) : entries[r] \in Entries
    BY DEF Used, Ledgers
  <2>7. ledger \in Ledgers /\ \A t \in Supervisors : mem[t].view \in Ledgers
    BY DEF TypeInv, TypeOK, Memories
  <2>8. ASSUME NEW entries \in Ledgers, Gone(entries)
        PROVE  \A r \in Used(entries) : entries[r].ceased =>
                  pc'[entries[r].id] \in Past /\ RuntimesOf(entries[r].id)' = {}
    BY <2>5, <2>6, <2>8 DEF Gone
  <2>9. ASSUME NEW t \in Supervisors, t # s PROVE Gone(mem[t].view)'
    <3>1. mem'[t].view = mem[t].view /\ Gone(mem[t].view)
      BY <2>1, <2>9 DEF RuntimeInv
    <3>. QED  BY <2>7, <2>8, <3>1 DEF Gone, Used, RuntimesOf
  <2>10. CASE ledger' = ledger /\ mem'[s].view \in {mem[s].view, ledger, EmptyLedger}
    <3>1. Gone(ledger) /\ Gone(mem[s].view) /\ Gone(EmptyLedger) /\ EmptyLedger \in Ledgers
      BY DEF RuntimeInv, Gone, Used, EmptyLedger, Ledgers
    <3>2. Gone(ledger)' /\ Gone(mem[s].view)'
      BY <2>7, <2>8, <2>10, <3>1 DEF Gone, Used, RuntimesOf
    <3>. QED  BY <2>3, <2>4, <2>9, <3>2 DEF RuntimeInv
  <2>11. ASSUME NEW r \in Requests, NEW e \in Entries,
                ledger' \in {ledger, [mem[s].view EXCEPT ![r] = e]},
                mem'[s].view \in {mem[s].view, [mem[s].view EXCEPT ![r] = e], EmptyLedger},
                \/ Recovers(s, r, e)
                \/ Register(s) /\ r = req[s] /\ e = NewEntry(s)
                \/ CloseRun(s) /\ r = req[s] /\ e = FinalRun(s)
         PROVE  RuntimeInv'
    <3>0. PICK entries \in Ledgers : entries = [mem[s].view EXCEPT ![r] = e]
      BY <2>7, EntryReplaced
    <3>1. e.ceased => pc'[e.id] \in Past /\ RuntimesOf(e.id)' = {}
      <4>1. CASE Recovers(s, r, e)
        <5>1. r \in Used(mem[s].view)
          BY <2>7, <4>1, EntryReplaced DEF Recovers, Used
        <5>. QED  BY <2>5, <4>1, <5>1 DEF Recovers, RuntimeInv, Gone
      <4>2. CASE e = NewEntry(s)
        BY <4>2 DEF NewEntry
      <4>3. CASE CloseRun(s) /\ e = FinalRun(s)
        <5>1. e.id = s /\ e.ceased = mem[s].ceased
          BY <4>3 DEF FinalRun
        <5>2. pc'[s] \in Past /\ alive' = alive /\ pc[s] = "takes"
          BY <4>3 DEF CloseRun, Finish, Leave, Goto, Past, TypeInv, TypeOK, runtimes
        <5>3. mem[s].ceased => RuntimesOf(s) = {}
          BY <5>2 DEF RuntimeInv, RuntimesFollow
        <5>. QED  BY <5>1, <5>2, <5>3 DEF RuntimesOf
      <4>. QED  BY <2>11, <4>1, <4>2, <4>3
    <3>2. /\ Gone(ledger) /\ Gone(mem[s].view) /\ Gone(EmptyLedger)
          /\ EmptyLedger \in Ledgers
      BY DEF RuntimeInv, Gone, Used, EmptyLedger, Ledgers
    <3>3. \A q \in Used(entries) : entries[q].ceased =>
             pc'[entries[q].id] \in Past /\ RuntimesOf(entries[q].id)' = {}
      <4>1. \A q \in Requests : entries[q] = IF q = r THEN e ELSE mem[s].view[q]
        BY <2>7, <3>0 DEF Ledgers
      <4>2. ASSUME NEW q \in Used(entries), q # r, entries[q].ceased
            PROVE  pc'[entries[q].id] \in Past /\ RuntimesOf(entries[q].id)' = {}
        <5>1. q \in Used(mem[s].view) /\ entries[q] = mem[s].view[q]
          BY <4>1, <4>2 DEF Used
        <5>2. mem[s].view[q] \in Entries /\ mem[s].view[q].ceased
          BY <2>6, <2>7, <4>2, <5>1
        <5>3. entries[q] \in Entries /\ pc[entries[q].id] \in Past /\ RuntimesOf(entries[q].id) = {}
          BY <3>2, <5>1, <5>2 DEF Gone
        <5>. QED  BY <2>5, <5>3
      <4>. QED  BY <3>1, <4>1, <4>2 DEF Used
    <3>4. ledger' \in {ledger, entries} /\ mem'[s].view \in {mem[s].view, entries, EmptyLedger}
      BY <2>11, <3>0
    <3>5. \A new \in {ledger, mem[s].view, EmptyLedger, entries} : \A q \in Used(new) :
             new[q].ceased => pc'[new[q].id] \in Past /\ {p \in alive' : p[1] = new[q].id} = {}
      BY <2>7, <2>8, <3>2, <3>3 DEF RuntimesOf
    <3>6. Gone(ledger)' /\ Gone(mem[s].view)'
      BY <3>4, <3>5 DEF Gone, Used, RuntimesOf
    <3>. QED  BY <2>3, <2>4, <2>9, <3>6 DEF RuntimeInv
  <2>. QED  BY <1>1, <2>10, <2>11, OneEntryChanges
<1>2. CASE RuntimeExits
  <2>1. /\ alive' \subseteq alive
        /\ UNCHANGED <<pc, mem, ledger, launched>>
    BY <1>2 DEF RuntimeExits
  <2>2. \A t : RuntimesOf(t)' \subseteq RuntimesOf(t)
    BY <2>1 DEF RuntimesOf
  <2>3. TakesDoNotOverlap'
    BY <2>1 DEF RuntimeInv, TakesDoNotOverlap
  <2>4. \A t \in Supervisors : RuntimesFollow(t)'
    BY <2>1, <2>2 DEF RuntimeInv, RuntimesFollow, Slot
  <2>5. Gone(ledger)' /\ \A t \in Supervisors : Gone(mem[t].view)'
    BY <2>1, <2>2 DEF RuntimeInv, Gone, Used
  <2>. QED  BY <2>3, <2>4, <2>5 DEF RuntimeInv
<1>3. CASE UNCHANGED vars
  BY <1>3 DEF vars, runtimes, RuntimeInv, TakesDoNotOverlap, RuntimesFollow, RuntimesOf, Gone, Used,
              Slot
<1>. QED  BY <1>1, <1>2, <1>3 DEF Next, Moves

(***************************************************************************)
(* RNF-5: the ledger confirms a cessation only when no Runtime of the run  *)
(* is left, and the Runtimes of two takes of a request never overlap,      *)
(* however many supervisors run at once and whatever crashes.              *)
(***************************************************************************)
THEOREM RuntimesAccounted == Spec => []RuntimesAreAccountedFor
<1>1. Init => TypeInv /\ RuntimeInv
  BY TypeInit, RuntimeInit
<1>2. TypeInv /\ RuntimeInv /\ [Next]_vars => (TypeInv /\ RuntimeInv)'
  BY TypeStep, RuntimeStep
<1>3. RuntimeInv => RuntimesAreAccountedFor
  BY DEF RuntimeInv, Gone, RuntimesOf, RuntimesAreAccountedFor, CessationMeansGone
<1>. QED  BY <1>1, <1>2, <1>3, PTL DEF Spec

-----------------------------------------------------------------------------
\* The ledger that the next invocation finds.

OneOpen(entries) == \A q, r \in Open(entries) : q = r

\* What the memory of the active supervisor and the durable ledger have in common.
MemoryFollows(s) ==
    LET view == mem[s].view
        todo == mem[s].todo
    IN  /\ pc[s] \in {"recover", "recover_close"} =>
             /\ OneOpen(view)
             /\ todo \subseteq Open(view)
             /\ \A r \in Requests \ Open(view) : ledger[r] = view[r]
        /\ pc[s] = "recover" /\ todo # {} => ledger = view
        /\ pc[s] = "recover_close" => todo \subseteq Open(ledger)
        /\ pc[s] = "register" => ledger = view /\ Open(ledger) = {}
        /\ pc[s] \in Running => ledger = view
        /\ pc[s] \in Running \ {"summary"} => req[s] \in Open(ledger)
        /\ pc[s] = "summary" => ledger[req[s]] = FinalRun(s)

LedgerInv ==
    /\ OneOpen(ledger)
    /\ SummaryAgreesWithLedger
    /\ \A s \in Supervisors : MemoryFollows(s)

\* At first the ledger is empty and no summary exists.
LEMMA LedgerInit == Init => LedgerInv
BY DEF Init, LedgerInv, OneOpen, Open, Used, EmptyLedger, SummaryAgreesWithLedger, MemoryFollows,
       Running

\* Whatever is published, the ledger takes a new run when none is open, or a new state
\* of the run that is open.
LEMMA LedgerChanges ==
    ASSUME TypeInv, IdInv, LedgerInv, NEW s \in Supervisors, Moves(s)
    PROVE  \/ ledger' = ledger
           \/ \E r \in Requests, e \in Entries :
                /\ ledger' = [ledger EXCEPT ![r] = e]
                /\ \/ Open(ledger) = {} /\ ledger[r] = NoEntry
                   \/ r \in Open(ledger) /\ e.id = ledger[r].id
<1>1. MemoryFollows(s) /\ mem[s].view \in Ledgers /\ ledger \in Ledgers /\ req[s] \in Requests
  BY DEF LedgerInv, TypeInv, TypeOK, Memories
<1>2. ASSUME NEW r \in Requests, NEW e \in Entries,
             ledger' = [mem[s].view EXCEPT ![r] = e],
             \/ Recovers(s, r, e)
             \/ Register(s) /\ r = req[s] /\ e = NewEntry(s)
             \/ CloseRun(s) /\ r = req[s] /\ e = FinalRun(s)
      PROVE  /\ ledger' = [ledger EXCEPT ![r] = e]
             /\ \/ Open(ledger) = {} /\ ledger[r] = NoEntry
                \/ r \in Open(ledger) /\ e.id = ledger[r].id
  <2>1. CASE Recovers(s, r, e)
    <3>1. /\ r \in Open(mem[s].view) /\ r \in Open(ledger)
          /\ \A q \in Requests : q # r => ledger[q] = mem[s].view[q]
      BY <1>1, <2>1 DEF Recovers, MemoryFollows, OneOpen
    <3>2. [mem[s].view EXCEPT ![r] = e] = [ledger EXCEPT ![r] = e]
      BY <1>1, <3>1 DEF Ledgers
    <3>3. e.id = ledger[r].id
      BY <2>1 DEF Recovers, IdInv, ViewIsCurrent, Reading
    <3>. QED  BY <1>2, <3>1, <3>2, <3>3
  <2>2. CASE Register(s) /\ r = req[s]
    <3>1. ledger = mem[s].view /\ Open(ledger) = {} /\ mem[s].view[r].id = Nobody
      BY <1>1, <2>2 DEF Register, MemoryFollows, IdInv, RegistersOnlyNew
    <3>2. ledger[r] = NoEntry
      <4>1. ledger[r] \in Entries => ledger[r].id # Nobody
        BY NobodyAssumption DEF Entries
      <4>. QED  BY <1>1, <3>1, <4>1 DEF Ledgers
    <3>. QED  BY <1>2, <3>1, <3>2
  <2>3. CASE CloseRun(s) /\ r = req[s] /\ e = FinalRun(s)
    <3>1. ledger = mem[s].view /\ r \in Open(ledger) /\ ledger[r].id = s
      BY <1>1, <2>3 DEF CloseRun, MemoryFollows, Running, IdInv, RunIsRegistered
    <3>2. e.id = s
      BY <2>3 DEF FinalRun
    <3>. QED  BY <1>2, <3>1, <3>2
  <2>. QED  BY <1>2, <2>1, <2>2, <2>3
<1>. QED  BY <1>2, OneEntryChanges

\* The entries a step does not touch, and what it may not do to the others.
LEMMA LedgerMoves ==
    ASSUME TypeInv, IdInv, LedgerInv, NEW s \in Supervisors, Moves(s)
    PROVE  /\ OneOpen(ledger)'
           /\ \A r \in Used(ledger) :
                /\ ledger'[r] # NoEntry
                /\ ledger'[r].id = ledger[r].id
                /\ ledger[r].phase = "closed" => ledger'[r] = ledger[r]
<1>1. CASE ledger' = ledger
  BY <1>1 DEF LedgerInv, OneOpen, Open, Used
<1>2. ASSUME NEW r \in Requests, NEW e \in Entries,
             ledger' = [ledger EXCEPT ![r] = e],
             \/ Open(ledger) = {} /\ ledger[r] = NoEntry
             \/ r \in Open(ledger) /\ e.id = ledger[r].id
      PROVE  /\ OneOpen(ledger)'
             /\ \A q \in Used(ledger) :
                  /\ ledger'[q] # NoEntry
                  /\ ledger'[q].id = ledger[q].id
                  /\ ledger[q].phase = "closed" => ledger'[q] = ledger[q]
  <2>1. e # NoEntry /\ ledger \in Ledgers
    BY EntryReplaced DEF TypeInv, TypeOK
  <2>2. \A q \in Requests : ledger'[q] = IF q = r THEN e ELSE ledger[q]
    BY <1>2, <2>1 DEF Ledgers
  <2>3. Open(ledger)' \subseteq Open(ledger) \cup {r}
    BY <2>2 DEF Open, Used
  <2>. QED  BY <1>2, <2>1, <2>2, <2>3 DEF LedgerInv, OneOpen, Open, Used
<1>. QED  BY <1>1, <1>2, LedgerChanges

\* The memory of the supervisor that moves goes on following the ledger.
LEMMA MemoryFollowsStep ==
    ASSUME TypeInv, IdInv, LedgerInv, NEW s \in Supervisors, Moves(s)
    PROVE  MemoryFollows(s)'
<1> USE DEF TypeInv, TypeOK
<1> DEFINE view == mem[s].view
           todo == mem[s].todo
<1>0. /\ MemoryFollows(s) /\ mem[s] \in Memories /\ view \in Ledgers /\ ledger \in Ledgers
      /\ todo \in SUBSET Requests /\ req[s] \in Requests /\ OneOpen(ledger)
  BY DEF LedgerInv, Memories
<1>1. CASE OpenLedger(s)
  <2>1. /\ pc'[s] = "recover" /\ mem'[s].view = ledger /\ ledger' = ledger
        /\ mem'[s].todo \subseteq Open(ledger)
    BY <1>0, <1>1 DEF OpenLedger, Goto, Memories
  <2>. QED  BY <1>0, <2>1 DEF MemoryFollows, Running, OneOpen, Open, Used
<1>2. ASSUME RecoverMark(s) \/ RecoverClose(s)
      PROVE  /\ Recovered(s) \in todo /\ view[Recovered(s)] \in Entries
             /\ todo = {Recovered(s)} /\ Open(view) = todo
  <2>1. todo # {} /\ todo \subseteq Used(view)
    BY <1>2 DEF RecoverMark, RecoverClose, KnowsItsStep
  <2>2. Recovered(s) \in todo
    BY <2>1, Zenon DEF Recovered
  <2>3. todo \subseteq Open(view) /\ OneOpen(view)
    BY <1>0, <1>2 DEF RecoverMark, RecoverClose, MemoryFollows
  <2>. QED  BY <1>0, <2>1, <2>2, <2>3 DEF Used, Ledgers, OneOpen
<1>3. CASE RecoverMark(s)
  <2> DEFINE r == Recovered(s)
             e == [view[r] EXCEPT !.evidence = "incomplete"]
             entries == [view EXCEPT ![r] = e]
  <2>1. e \in Entries /\ e.phase = view[r].phase
    BY <1>2, <1>3, ValueTypes DEF Entries
  <2>2. /\ \A q \in Requests : entries[q] = IF q = r THEN e ELSE view[q]
        /\ Open(entries) = Open(view)
    <3>1. entries \in Ledgers /\ Used(entries) = Used(view) \cup {r}
      BY <1>0, <1>2, <1>3, <2>1, EntryReplaced
    <3>2. \A q \in Requests : entries[q] = IF q = r THEN e ELSE view[q]
      BY <1>0 DEF Ledgers
    <3> HIDE DEF e, entries, r
    <3>3. r \in Used(view) /\ r \in Open(view)
      BY <1>2, <1>3 DEF r, Open
    <3>. QED  BY <2>1, <3>1, <3>2, <3>3 DEF Open, Used
  <2>3. PICK result :
           /\ ledger' = LedgerAfter(s, entries, result)
           /\ mem' = [mem EXCEPT ![s].view = ViewAfter(s, entries, result)]
    BY <1>3 DEF RecoverMark
  <2>4. ledger = view /\ Open(view) = {r} /\ r \in Requests
    BY <1>0, <1>2, <1>3 DEF RecoverMark, MemoryFollows
  <2> HIDE DEF e, entries, r
  <2>5. mem'[s].view = ViewAfter(s, entries, result) /\ mem'[s].todo = todo
    BY <1>0, <2>3 DEF Memories
  <2>6. /\ ledger' \in {view, entries} /\ mem'[s].view \in {view, entries}
        /\ pc'[s] = "recover_close"
    BY <1>3, <2>3, <2>4, <2>5 DEF LedgerAfter, ViewAfter, RecoverMark, Goto
  <2>7. Open(ledger)' = {r} /\ Open(mem[s].view)' = {r}
    BY <2>2, <2>4, <2>6 DEF Open, Used
  <2>8. \A q \in Requests \ {r} : ledger'[q] = mem'[s].view[q]
    BY <2>2, <2>6
  <2>9. mem'[s].todo = {r}
    BY <1>2, <1>3, <2>5 DEF r
  <2>. QED  BY <2>6, <2>7, <2>8, <2>9 DEF MemoryFollows, Running, OneOpen
<1>4. CASE RecoverClose(s)
  <2> DEFINE r == Recovered(s)
             e == Interrupted(view[r])
             entries == [view EXCEPT ![r] = e]
  <2>1. e \in Entries /\ e.phase = "closed"
    <3>1. e.phase = "closed"
      BY <1>2, <1>4 DEF Interrupted, Entries
    <3>. QED  BY <1>2, <1>4, <3>1, ValueTypes
  <2>2. Open(view) = {r} /\ r \in Requests /\ view[r].phase # "closed"
    BY <1>0, <1>2, <1>4 DEF Open
  <2>3. \A q \in Requests : entries[q] = IF q = r THEN e ELSE view[q]
    BY <1>0 DEF Ledgers
  <2>4. PICK result :
           /\ ledger' = LedgerAfter(s, entries, result)
           /\ mem' = [mem EXCEPT ![s].view = ViewAfter(s, entries, result),
                                 ![s].todo = todo \ {r}]
    BY <1>4 DEF RecoverClose
  <2>5. \A q \in Requests \ {r} : ledger[q] = view[q]
    BY <1>0, <1>4, <2>2 DEF RecoverClose, MemoryFollows
  <2>6. todo \ {r} = {}
    BY <1>2, <1>4
  <2> HIDE DEF e, entries, r
  <2>7. mem'[s].view = ViewAfter(s, entries, result) /\ mem'[s].todo = {}
    BY <1>0, <2>4, <2>6 DEF Memories
  <2>8. Open(entries) = {}
    BY <2>1, <2>2, <2>3 DEF Open, Used
  <2>9. \/ ledger' = entries /\ mem'[s].view = entries
        \/ ledger' \in {ledger, entries} /\ mem'[s].view = view
    BY <2>1, <2>2, <2>3, <2>4, <2>7 DEF LedgerAfter, ViewAfter
  <2>10. pc'[s] = "recover"
    BY <1>4 DEF RecoverClose, Goto
  <2>11. /\ Open(mem[s].view)' \subseteq {r}
         /\ \A q \in Requests \ Open(mem[s].view)' : ledger'[q] = mem'[s].view[q]
    BY <2>2, <2>3, <2>5, <2>8, <2>9 DEF Open, Used
  <2>. QED  BY <2>7, <2>10, <2>11 DEF MemoryFollows, Running, OneOpen
<1>5. CASE Admit(s)
  <2>1. /\ ledger' = ledger /\ mem' = mem /\ req' = req
        /\ pc'[s] = IF Known(s) THEN "known" ELSE "register"
    BY <1>5 DEF Admit, Goto, input
  <2>2. ~Known(s) => Open(view) = {}
    BY <1>5 DEF Admit, Refusal, Occupied
  <2>3. ~Known(s) => ledger = view
    BY <1>0, <1>5, <2>2 DEF Admit, MemoryFollows, Ledgers
  <2>. QED  BY <2>1, <2>2, <2>3 DEF MemoryFollows, Running, Open, Used
<1>6. CASE Register(s) /\ pc'[s] = "takes"
  <2> DEFINE entries == [view EXCEPT ![req[s]] = NewEntry(s)]
  <2>1. PICK result :
           /\ ledger' = LedgerAfter(s, entries, result)
           /\ mem' = [mem EXCEPT ![s].view = entries]
           /\ result = "published"
    BY <1>6 DEF Register, Finish, Leave
  <2>2. NewEntry(s) \in Entries /\ NewEntry(s).phase = "preparing" /\ NewEntry(s).id = s
    BY WrittenEntries DEF NewEntry
  <2>3. view[req[s]].id = Nobody
    BY <1>6 DEF Register, IdInv, RegistersOnlyNew
  <2>4. entries[req[s]] = NewEntry(s)
    BY <1>0 DEF Ledgers
  <2>5. entries # view
    BY <2>2, <2>3, <2>4, NobodyAssumption
  <2> HIDE DEF entries
  <2>6. ledger' = entries /\ mem'[s].view = entries /\ req' = req
    BY <1>0, <1>6, <2>1, <2>5 DEF LedgerAfter, Memories, Register, input
  <2>7. req[s] \in Open(entries)
    BY <1>0, <2>2, <2>4, EntryReplaced DEF Open, Used
  <2>8. Open(ledger)' = Open(entries)
    BY <2>6 DEF Open, Used
  <2>. QED  BY <1>6, <2>6, <2>7, <2>8 DEF MemoryFollows, Running
<1>7. CASE SkipTake(s) \/ StartTake(s) \/ Launch(s) \/ Ends(s)
  <2>1. /\ pc[s] \in Running \ {"summary"} /\ pc'[s] \in Running \ {"summary"}
        /\ ledger' = ledger /\ mem'[s].view = view /\ req' = req
    <3>1. CASE Ends(s)
      <4>1. pc[s] \in {"playing", "running"}
        BY <3>1 DEF Ends, MaterialChanged, NotLaunched, ReturnEvidence, ReturnError
      <4>. QED  BY <3>1, <4>1, EndsIsEndTake, EndTakeMemory DEF Running
    <3>2. CASE SkipTake(s)
      BY <1>0, <3>2 DEF SkipTake, Memories, Running, input
    <3>3. CASE StartTake(s) \/ Launch(s)
      BY <1>0, <3>3 DEF StartTake, Launch, Goto, Memories, Running, input
    <3>. QED  BY <1>7, <3>1, <3>2, <3>3
  <2>. QED  BY <1>0, <2>1 DEF MemoryFollows, Running, Open, Used
<1>8. CASE CloseRun(s) /\ pc'[s] = "summary"
  <2> DEFINE entries == [view EXCEPT ![req[s]] = FinalRun(s)]
  <2>1. PICK result :
           /\ ledger' = LedgerAfter(s, entries, result)
           /\ mem' = [mem EXCEPT ![s].view = entries]
           /\ result = "published"
    BY <1>8 DEF CloseRun, Finish, Leave
  <2>2. FinalRun(s).phase = "closed" /\ view[req[s]].phase # "closed"
    BY <1>0, <1>8 DEF CloseRun, FinalRun, MemoryFollows, Running, Open
  <2>3. entries[req[s]] = FinalRun(s)
    BY <1>0 DEF Ledgers
  <2>4. entries # view
    BY <2>2, <2>3
  <2> HIDE DEF entries
  <2>5. /\ ledger' = entries /\ mem'[s].view = entries /\ req' = req /\ content' = content
        /\ mem'[s].rows = mem[s].rows /\ mem'[s].ceased = mem[s].ceased
    BY <1>0, <1>8, <2>1, <2>4 DEF LedgerAfter, Memories, CloseRun, input
  <2>6. FinalRun(s)' = FinalRun(s)
    BY <2>5 DEF FinalRun
  <2>. QED  BY <1>8, <2>3, <2>5, <2>6 DEF MemoryFollows, Running
<1>9. CASE RequestCancel(s)
  <2>1. UNCHANGED <<pc, req, content, ledger, mem>>
    BY <1>9 DEF RequestCancel, input
  <2>2. FinalRun(s)' = FinalRun(s)
    BY <2>1 DEF FinalRun
  <2>. QED  BY <1>0, <2>1, <2>2 DEF MemoryFollows, OneOpen, Open, Used
<1>10. CASE pc'[s] \in {"idle", "open", "known", "closed", "crashed"}
  BY <1>10 DEF MemoryFollows, Running
<1>11. CASE \/ Reject(s) \/ Start(s) \/ LedgerUnavailable(s) \/ Refuse(s) \/ ReportKnown(s)
            \/ Crash(s) \/ WriteSummary(s) \/ (Register(s) /\ pc'[s] # "takes")
            \/ (CloseRun(s) /\ pc'[s] # "summary")
  <2>1. pc'[s] \in {"open", "closed", "crashed"}
    BY <1>11 DEF Reject, Start, LedgerUnavailable, Refuse, ReportKnown, Crash, WriteSummary,
                 Register, CloseRun, Goto, Finish, Leave
  <2>. QED  BY <1>10, <2>1
<1>. QED  BY <1>1, <1>3, <1>4, <1>5, <1>6, <1>7, <1>8, <1>9, <1>11 DEF Moves, Run, Ends

\* A summary is written for the run that the ledger has closed, and no entry that is
\* closed changes after that.
LEMMA SummaryFollowsStep ==
    ASSUME TypeInv, IdInv, AnswerInv, LedgerInv, NEW s \in Supervisors, Moves(s)
    PROVE  SummaryAgreesWithLedger'
<1> SUFFICES ASSUME NEW t \in Supervisors, summary'[t] # NoSummary
             PROVE  /\ ledger'[summary'[t].request] # NoEntry
                    /\ ledger'[summary'[t].request].id = t
                    /\ ledger'[summary'[t].request].phase = "closed"
                    /\ ledger'[summary'[t].request].content = summary'[t].content
                    /\ ledger'[summary'[t].request].evidence = "complete" <=> summary'[t].exit = 0
                    /\ ledger'[summary'[t].request].playback = "natural_end"
                         <=> Played(summary'[t].takes, "natural_end") = DOMAIN summary'[t].takes
  BY DEF SummaryAgreesWithLedger
<1>1. CASE summary[t] # NoSummary
  <2>1. summary'[t] = summary[t] /\ summary[t].request = req[t]
    BY <1>1, SummaryStep DEF AnswerInv, SummariesBelong
  <2>2. req[t] \in Used(ledger) /\ ledger[req[t]].phase = "closed"
    BY <1>1, <2>1 DEF LedgerInv, SummaryAgreesWithLedger, Used, TypeInv, TypeOK
  <2>3. ledger'[req[t]] = ledger[req[t]]
    BY <2>2, LedgerMoves
  <2>. QED  BY <1>1, <2>1, <2>3 DEF LedgerInv, SummaryAgreesWithLedger
<1>2. CASE summary[t] = NoSummary
  <2>1. t = s /\ WriteSummary(s)
    <3>1. t = s
      BY <1>2, OthersAreLeft
    <3>2. CASE Ends(s)
      BY <1>2, <3>1, <3>2, EndsIsEndTake, EndTakeMemory
    <3>3. CASE ~Ends(s) /\ ~WriteSummary(s)
      BY <1>2, <3>1, <3>3 DEF Ends, Moves, Run, Reject, Start, OpenLedger, LedgerUnavailable,
              RecoverMark, RecoverClose, Refuse, Admit, ReportKnown, Register, SkipTake, StartTake,
              Launch, CloseRun, RequestCancel, Crash
    <3>. QED  BY <3>1, <3>2, <3>3
  <2>2. summary'[s] = SummaryOf(s) /\ ledger' = ledger
    BY <1>2, <2>1 DEF WriteSummary, TypeInv, TypeOK
  <2>3. ledger[req[s]] = FinalRun(s)
    BY <2>1 DEF WriteSummary, LedgerInv, MemoryFollows
  <2>4. FinalRun(s) # NoEntry
    BY WrittenEntries, EntryReplaced DEF TypeInv, TypeOK
  <2> DEFINE takes == mem[s].rows
  <2>5. /\ SummaryOf(s).request = req[s] /\ SummaryOf(s).content = content[s]
        /\ SummaryOf(s).exit = ExitCode(takes) /\ SummaryOf(s).takes = takes
    BY DEF SummaryOf
  <2>6. /\ FinalRun(s).id = s /\ FinalRun(s).phase = "closed" /\ FinalRun(s).content = content[s]
        /\ FinalRun(s).evidence = "complete" <=> ExitCode(takes) = 0
        /\ FinalRun(s).playback = "natural_end" <=> Played(takes, "natural_end") = DOMAIN takes
    <3>1. Played(takes, "cancelled") # {} => Played(takes, "natural_end") # DOMAIN takes
      BY DEF Played
    <3>. QED  BY <3>1 DEF FinalRun
  <2> HIDE DEF takes
  <2>. QED  BY <2>1, <2>2, <2>3, <2>4, <2>5, <2>6
<1>. QED  BY <1>1, <1>2

\* Every step keeps the ledger sound when one supervisor runs at a time.
LEMMA LedgerStep ==
    ASSUME Exclusive, TypeInv, IdInv, AnswerInv, LedgerInv, [Next]_vars
    PROVE  LedgerInv'
<1>1. ASSUME NEW s \in Supervisors, Moves(s) PROVE LedgerInv'
  <2>1. ASSUME NEW t \in Supervisors, t # s PROVE MemoryFollows(t)'
    <3>1. /\ pc'[t] = pc[t] /\ mem'[t] = mem[t] /\ req' = req /\ content' = content
          /\ MemoryFollows(t)
      BY <1>1, <2>1, OthersAreLeft DEF input, LedgerInv
    <3>2. ledger' = ledger \/ ~Active(t)
      <4>1. CASE Active(s)
        BY <2>1, <4>1 DEF IdInv, Alone
      <4>2. CASE ~Active(s)
        BY <1>1, <4>2 DEF Moves, Run, Reject, Start, OpenLedger, LedgerUnavailable, RecoverMark,
                RecoverClose, Refuse, Admit, ReportKnown, Register, SkipTake, StartTake, Launch,
                MaterialChanged, NotLaunched, ReturnEvidence, ReturnError, CloseRun, WriteSummary,
                RequestCancel, Crash, Active
      <4>. QED  BY <4>1, <4>2
    <3>3. FinalRun(t)' = FinalRun(t)
      BY <3>1 DEF FinalRun
    <3>4. CASE ledger' = ledger
      BY <3>1, <3>3, <3>4 DEF MemoryFollows, OneOpen, Open, Used
    <3>5. CASE ~Active(t)
      BY <3>1, <3>5 DEF Active, MemoryFollows, Running
    <3>. QED  BY <3>2, <3>4, <3>5
  <2>. QED  BY <1>1, <2>1, LedgerMoves, MemoryFollowsStep, SummaryFollowsStep DEF LedgerInv
<1>2. CASE UNCHANGED <<pc, input, ledger, summary, mem>>
  <2>1. \A t \in Supervisors : FinalRun(t)' = FinalRun(t)
    BY <1>2 DEF FinalRun, input
  <2>. QED  BY <1>2, <2>1 DEF LedgerInv, OneOpen, Open, Used, SummaryAgreesWithLedger,
                              MemoryFollows, input
<1>. QED  BY <1>1, <1>2 DEF Next, Moves, RuntimeExits, vars

\* A set in which all elements are equal has at most one.
LEMMA OneOpenRuns ==
    ASSUME TypeInv, LedgerInv
    PROVE  OneOpenRun
<1>1. CASE Open(ledger) = {}
  BY <1>1, FS_EmptySet DEF OneOpenRun
<1>2. CASE Open(ledger) # {}
  <2>1. PICK r : r \in Open(ledger)
    BY <1>2
  <2>2. Open(ledger) = {r}
    BY <2>1 DEF LedgerInv, OneOpen
  <2>3. Cardinality(Open(ledger)) = 1
    BY <2>2, FS_Singleton
  <2>. QED  BY <2>3 DEF OneOpenRun
<1>. QED  BY <1>1, <1>2

(***************************************************************************)
(* With one supervisor at a time, the durable ledger has at most one open  *)
(* run and agrees with every durable summary, whatever crashes and         *)
(* whatever publication fails.                                             *)
(***************************************************************************)
THEOREM SoundLedger ==
    ASSUME Exclusive
    PROVE  Spec => []LedgerIsSound
<1>1. Init => TypeInv /\ IdInv /\ AnswerInv /\ LedgerInv
  BY TypeInit, IdInit, AnswerInit, LedgerInit
<1>2. TypeInv /\ IdInv /\ AnswerInv /\ LedgerInv /\ [Next]_vars
        => (TypeInv /\ IdInv /\ AnswerInv /\ LedgerInv)'
  BY TypeStep, IdStep, AnswerStep, LedgerStep
<1>3. TypeInv /\ LedgerInv => LedgerIsSound
  BY OneOpenRuns DEF LedgerInv, LedgerIsSound
<1>. QED  BY <1>1, <1>2, <1>3, PTL DEF Spec

(***************************************************************************)
(* With one supervisor at a time, no step reopens a closed run, changes    *)
(* its result or drops an entry.                                           *)
(***************************************************************************)
THEOREM FinalRuns ==
    ASSUME Exclusive
    PROVE  Spec => ClosedRunsAreFinal
<1> DEFINE Kept == \A r \in Used(ledger) :
                     /\ ledger'[r] # NoEntry
                     /\ ledger'[r].id = ledger[r].id
                     /\ ledger[r].phase = "closed" => ledger'[r] = ledger[r]
<1>1. Init => TypeInv /\ IdInv /\ AnswerInv /\ LedgerInv
  BY TypeInit, IdInit, AnswerInit, LedgerInit
<1>2. TypeInv /\ IdInv /\ AnswerInv /\ LedgerInv /\ [Next]_vars
        => (TypeInv /\ IdInv /\ AnswerInv /\ LedgerInv)'
  BY TypeStep, IdStep, AnswerStep, LedgerStep
<1>3. TypeInv /\ IdInv /\ LedgerInv /\ [Next]_vars => [Kept]_vars
  <2>1. CASE RuntimeExits
    BY <2>1 DEF RuntimeExits, Used
  <2>2. ASSUME TypeInv, IdInv, LedgerInv, NEW s \in Supervisors, Moves(s) PROVE Kept
    BY <2>2, LedgerMoves
  <2>. QED  BY <2>1, <2>2 DEF Next, Moves
<1>. QED  BY <1>1, <1>2, <1>3, PTL DEF Spec, ClosedRunsAreFinal
=============================================================================
