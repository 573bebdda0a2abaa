------------------------------- MODULE FactTrace -------------------------------
(****************************************************************************)
(* The causal trace of a run: ReplayFactTraceAccumulator, which the evidence *)
(* writer feeds fact by fact as the batches arrive, and the reference it has *)
(* to agree with, ReplayTraceCollector, which looks at the whole collection  *)
(* of facts at the end.                                                      *)
(*                                                                           *)
(* A fact is named by its producer and its sequence in that producer's lane. *)
(* The bridge keeps the order of a lane and no order between lanes, so a     *)
(* fact may arrive before its causes; it may be lost, or declared excluded   *)
(* by a silent recovery.  Which kinds of facts there are, and the causes     *)
(* they name, is chosen at the start from a family of small graphs.          *)
(****************************************************************************)
EXTENDS Integers, Sequences, FiniteSets, SequencesExt, FiniteSetsExt

CONSTANTS
    Lanes,          \* Lanes[p] = the kinds of the facts producer p emits, in order
    Graphs,         \* the causes and occurrences a behaviour may start with
    MaxLost,        \* bound on the facts lost in transport
    MaxExclusions   \* bound on the exclusions declared

VARIABLES
    graph,          \* [causes |-> [Ids -> Seq(Id)], occurrence |-> [Ids -> Nat]]
    next,           \* next[p] = sequence of the next fact of lane p
    arrived,        \* the facts consumed, in order of arrival
    lost,           \* facts that never reach the accumulator
    exclusions,     \* exclusions declared so far
    acc             \* ReplayFactTraceAccumulator::Impl
vars == <<graph, next, arrived, lost, exclusions, acc>>

Producers == DOMAIN Lanes
Ids == UNION {{<<p, n>> : n \in 1..Len(Lanes[p])} : p \in Producers}
Kind(id) == Lanes[id[1]][id[2]]

(****************************************************************************)
(* Tokens: what the accumulator knows of a sequence.  A positive token is    *)
(* the number of the chain the fact belongs to, 0 a fact outside any chain.  *)
(****************************************************************************)
Missing == -1
Unresolved == -2
Excluded == -3

Stages == <<"ingress", "candidate", "selection", "request", "decision", "effect", "mix">>
StageOf(kind) == LET S == {n \in 1..Len(Stages) : Stages[n] = kind}
                 IN  IF S = {} THEN 0 ELSE CHOOSE n \in S : TRUE
Before(kind) == CASE kind = "candidate" -> 1 [] kind = "selection" -> 2 [] kind = "request" -> 3
                  [] kind = "decision" -> 4  [] kind = "effect" -> 5    [] kind = "mix" -> 4

EmptyTrace == [tok |-> [id \in Ids |-> Missing], size |-> [p \in Producers |-> 0],
               chains |-> << >>, unresolved |-> {}, waiting |-> [id \in Ids |-> << >>],
               effects |-> << >>, mixes |-> << >>, stages |-> {}, connected |-> FALSE,
               count |-> 0, valid |-> TRUE]

\* What a cause counts as: a sequence nobody has seen waits, an excluded one carries no chain.
Token(a, id) == IF id \notin Ids \/ id[2] > a.size[id[1]] \/ a.tok[id] = Missing
                THEN Unresolved
                ELSE IF a.tok[id] = Excluded THEN 0 ELSE a.tok[id]

StageAt(a, t) == IF t = 0 THEN 0 ELSE a.chains[t].stage
RequestAncestor(a, t) == IF t = 0 THEN 0 ELSE a.chains[t].request

OccurrenceMatches(a, t, occurrence) ==
    LET r == RequestAncestor(a, t)
    IN  r # 0 /\ occurrence # 0 /\ a.chains[r].occurrence = occurrence

AddChain(a, stage, parent, occurrence) ==
    LET index == Len(a.chains) + 1
    IN  [a EXCEPT !.chains = Append(@,
            [stage |-> stage, parent |-> parent, occurrence |-> occurrence,
             request |-> IF Stages[stage] = "request" THEN index ELSE RequestAncestor(a, parent)])]

\* Causes of the main output's own PCM blocks are not facts of the trace.
CausesOf(id) == IF Kind(id) = "output_span"
                THEN SelectSeq(graph.causes[id], LAMBDA c : c \in Ids)
                ELSE graph.causes[id]

AllCausesResolved(a, id) == \A c \in ToSet(CausesOf(id)) : Token(a, c) # Unresolved

\* The first of the causes that have got furthest along a chain.
BestCause(a, id) ==
    LET tokens == [i \in DOMAIN CausesOf(id) |-> Token(a, CausesOf(id)[i])]
        top == Max({0} \cup {StageAt(a, tokens[i]) : i \in DOMAIN tokens})
    IN  IF top = 0 THEN 0
        ELSE tokens[Min({i \in DOMAIN tokens : StageAt(a, tokens[i]) = top})]

\* resolve: whether the fact starts or extends a chain, or only inherits its best cause's.
Extends(a, id, best) ==
    LET kind == Kind(id)
        occurrence == graph.occurrence[id]
    IN  \/ kind = "ingress"
        \/ kind \in {"candidate", "selection"} /\ StageAt(a, best) >= Before(kind)
        \/ kind = "request" /\ StageAt(a, best) >= Before(kind) /\ occurrence # 0
        \/ /\ kind \in {"decision", "effect", "mix"} /\ StageAt(a, best) >= Before(kind)
           /\ OccurrenceMatches(a, best, occurrence)

Resolve(a, id) ==
    LET best == BestCause(a, id)
    IN  IF Extends(a, id, best)
        THEN <<AddChain(a, StageOf(Kind(id)), IF Kind(id) = "ingress" THEN 0 ELSE best,
                        IF StageOf(Kind(id)) < 4 THEN 0 ELSE graph.occurrence[id]),
               Len(a.chains) + 1>>
        ELSE <<a, best>>

RECURSIVE Ancestry(_, _)
Ancestry(a, t) == IF t = 0 THEN {} ELSE {a.chains[t].stage} \cup Ancestry(a, a.chains[t].parent)

\* A request with an effect and a mix: the stages on the effect's chain, and whether all are there.
RememberComplete(a, r) ==
    IF a.connected \/ r \notin DOMAIN a.effects \/ r \notin DOMAIN a.mixes THEN a
    ELSE LET stages == a.stages \cup Ancestry(a, a.effects[r]) \cup {7}
         IN  [a EXCEPT !.stages = stages, !.connected = stages = 1..7]

TryEmplace(f, key, value) == IF key \in DOMAIN f THEN f ELSE f @@ (key :> value)

\* publish: the token is known, the effect or the mix of the request is kept if it is the first,
\* and the facts that waited on this one are ready again.
Publish(a, id, t) ==
    LET r == RequestAncestor(a, t)
        marked == [a EXCEPT !.tok[id] = t,
                            !.effects = IF StageAt(a, t) = 6 /\ r # 0 THEN TryEmplace(@, r, t) ELSE @,
                            !.mixes = IF StageAt(a, t) = 7 /\ r # 0 THEN TryEmplace(@, r, t) ELSE @]
        kept == IF r # 0 THEN RememberComplete(marked, r) ELSE marked
    IN  [kept EXCEPT !.unresolved = @ \ ToSet(a.waiting[id]), !.waiting[id] = << >>]

\* Every fact is made ready once, however often it was listed under the cause.
ReadyAfter(a, id) == SelectSeq(FoldLeft(LAMBDA s, d : IF Contains(s, d) THEN s ELSE Append(s, d),
                                        << >>, a.waiting[id]),
                               LAMBDA d : d \in a.unresolved)

\* Fault: the fact waits on its first cause only.
WaitsOnItsFirstCause(a, id) ==
    [a EXCEPT !.unresolved = @ \cup {id},
              !.waiting = [c \in Ids |-> IF c = CausesOf(id)[1] /\ Token(a, c) = Unresolved
                                         THEN Append(@[c], id) ELSE @[c]]]

\* defer: the fact waits on each of its causes that is not known yet.
Defer(a, id) ==
    [a EXCEPT !.unresolved = @ \cup {id},
              !.waiting = [c \in Ids |-> IF /\ c \in ToSet(CausesOf(id))
                                            /\ Token(a, c) = Unresolved
                                         THEN Append(@[c], id) ELSE @[c]]]

\* process: resolves every ready fact in order; the others wait.
RECURSIVE Process(_, _)
Process(a, ready) ==
    IF ready = << >> \/ ~a.valid THEN a
    ELSE LET id == Head(ready)
         IN  IF ~AllCausesResolved(a, id) THEN Process(Defer(a, id), Tail(ready))
             ELSE LET resolved == Resolve(a, id)
                  IN  Process(Publish(resolved[1], id, resolved[2]),
                              Tail(ready) \o ReadyAfter(a, id))

\* consume of an Engine fact: a sequence seen before breaks the trace.
Consumed(a, id) ==
    IF ~a.valid \/ a.tok[id] # Missing THEN [a EXCEPT !.valid = FALSE]
    ELSE Process([a EXCEPT !.tok[id] = Unresolved, !.size[id[1]] = Max({@, id[2]}),
                           !.count = @ + 1], <<id>>)

\* consume of a fact_exclusion: each sequence must be absent, and what waited on it is ready.
\* The waiting facts come out of a hash map, so in any order.
ExcludedFrom(a, p, from, to, order) ==
    LET range == {<<p, n>> : n \in from..to}
        sized == [a EXCEPT !.size[p] = Max({@, to}), !.count = @ + 1]
        marked == [sized EXCEPT !.tok = [id \in Ids |-> IF id \in range THEN Excluded ELSE @[id]],
                                !.unresolved = @ \ ToSet(order),
                                !.waiting = [id \in Ids |-> IF id \in range THEN << >> ELSE @[id]]]
    IN  IF ~a.valid THEN a
        ELSE IF \E id \in range : a.tok[id] # Missing THEN [sized EXCEPT !.valid = FALSE]
        ELSE Process(marked, order)

\* summarize, given what the transport says of its own losses.
SequencesComplete(a) == \A id \in Ids : id[2] <= a.size[id[1]] => a.tok[id] # Missing
LossFree(a, transport) == transport /\ a.valid /\ SequencesComplete(a) /\ a.unresolved = {}
Connected(a, transport) == LossFree(a, transport) /\ a.connected

(****************************************************************************)
(* The reference: ReplayTraceCollector::summarize over a collection of facts *)
(****************************************************************************)
RECURSIVE AncestorFrom(_, _, _, _)
AncestorFrom(facts, pending, visited, kind) ==
    IF pending = << >> THEN << >>
    ELSE LET id == Last(pending)
             rest == Front(pending)
         IN  IF id \in visited \/ id \notin facts
             THEN AncestorFrom(facts, rest, visited \cup {id}, kind)
             ELSE IF Kind(id) = kind THEN id
             ELSE AncestorFrom(facts, rest \o graph.causes[id], visited \cup {id}, kind)
Ancestor(facts, id, kind) == AncestorFrom(facts, graph.causes[id], {}, kind)

OfKind(trace, kind) == SelectSeq(trace, LAMBDA id : Kind(id) = kind)
SameOccurrence(id, r) == graph.occurrence[id] = graph.occurrence[r]

\* The request a mix goes back to, and the decisions of that request in order of arrival.
RequestOf(trace, mix) == Ancestor(ToSet(trace), mix, "request")
DecisionsOf(trace, request) ==
    SelectSeq(OfKind(trace, "decision"),
              LAMBDA d : /\ SameOccurrence(d, request)
                         /\ Ancestor(ToSet(trace), d, "request") = request)

\* A mix whose request had an effect by this decision and goes back to an ingress.
ConnectedBy(trace, mix, decision) ==
    LET facts == ToSet(trace)
        request == RequestOf(trace, mix)
        selection == Ancestor(facts, request, "selection")
        candidate == Ancestor(facts, selection, "candidate")
    IN  /\ graph.occurrence[request] # 0 /\ SameOccurrence(mix, request)
        /\ \E e \in ToSet(OfKind(trace, "effect")) :
             SameOccurrence(e, request) /\ Ancestor(facts, e, "decision") = decision
        /\ selection # << >> /\ candidate # << >>
        /\ Ancestor(facts, candidate, "ingress") # << >>

\* The mixes that go back to a request.  Of its decisions the collector takes the first.
MixesOf(trace) == {m \in ToSet(OfKind(trace, "mix")) : RequestOf(trace, m) # << >>}
CollectorConnected(trace) ==
    \E m \in MixesOf(trace) :
        LET decisions == DecisionsOf(trace, RequestOf(trace, m))
        IN  decisions # << >> /\ ConnectedBy(trace, m, decisions[1])

\* audit_fact_integrity over the stored fragments: no gap within a lane once its first fact was
\* seen, and every cause among the facts.  Facts without shared state have no order to audit.
AuditComplete(trace) ==
    /\ trace # << >>
    /\ \A p \in Producers : LET lane == SelectSeq(trace, LAMBDA id : id[1] = p)
                            IN  \A i \in 2..Len(lane) : lane[i][2] = lane[i - 1][2] + 1
    /\ \A id \in ToSet(trace) : ToSet(graph.causes[id]) \subseteq ToSet(trace)

--------------------------------------------------------------------------------
Init ==
    /\ graph \in Graphs
    /\ next = [p \in Producers |-> 1]
    /\ arrived = << >> /\ lost = {} /\ exclusions = 0
    /\ acc = EmptyTrace

\* The next fact of a lane reaches the writer.
Consume(p) ==
    /\ next[p] <= Len(Lanes[p])
    /\ next' = [next EXCEPT ![p] = @ + 1]
    /\ acc' = Consumed(acc, <<p, next[p]>>)
    /\ arrived' = Append(arrived, <<p, next[p]>>)
    /\ UNCHANGED <<graph, lost, exclusions>>

\* The bridge had no room for it, or it was produced silently.
Lose(p) ==
    /\ next[p] <= Len(Lanes[p]) /\ Cardinality(lost) < MaxLost
    /\ next' = [next EXCEPT ![p] = @ + 1]
    /\ lost' = lost \cup {<<p, next[p]>>}
    /\ UNCHANGED <<graph, arrived, exclusions, acc>>

\* A silent recovery declares the sequences it hid; the declaration names facts already passed.
Exclude(p) ==
    /\ exclusions < MaxExclusions
    /\ \E from, to \in 1..(next[p] - 1) :
        /\ from <= to /\ (\A n \in from..to : <<p, n>> \in lost)
        /\ LET ready == UNION {ToSet(ReadyAfter(acc, <<p, n>>)) : n \in from..to}
           IN  \E order \in SetToSeqs(ready) : acc' = ExcludedFrom(acc, p, from, to, order)
    /\ exclusions' = exclusions + 1
    /\ UNCHANGED <<graph, next, arrived, lost>>

Next == \E p \in Producers : Consume(p) \/ Lose(p) \/ Exclude(p)
Spec == Init /\ [][Next]_vars

--------------------------------------------------------------------------------
Declared == {id \in lost : acc.tok[id] = Excluded}

\* The facts whose causes lead back to facts without causes, through facts that arrived.
Grounded ==
    LET Grow(S) == S \cup {id \in ToSet(arrived) :
                            ToSet(CausesOf(id)) \subseteq S \cup Declared}
    IN  FoldLeft(LAMBDA S, n : Grow(S), {}, [n \in 1..Cardinality(Ids) |-> n])

(* The incremental trace is loss free exactly when nothing it has passed is   *)
(* missing without having been declared and every fact that arrived leads    *)
(* back to known causes, in whatever order the lanes were interleaved        *)
(* (fact_trace_summary.cpp: process, exclude and summarize).                 *)
LossFreeIsExact ==
    LossFree(acc, TRUE) <=>
        /\ \A id \in lost \ Declared : acc.size[id[1]] < id[2]
        /\ ToSet(arrived) \subseteq Grounded

\* The facts a fact leads back to, through facts that arrived.
Origins(id) ==
    LET Causes(x) == ToSet(graph.causes[x]) \cap ToSet(arrived)
    IN  FoldLeft(LAMBDA S, n : S \cup UNION {Causes(x) : x \in S}, Causes(id),
                 [n \in 1..Cardinality(Ids) |-> n])
OriginsOf(id, kind) == {x \in Origins(id) : Kind(x) = kind}

\* One occurrence, requested and mixed, and an effect of a decision of it, back to an ingress.
Linked ==
    \E m, e \in ToSet(arrived) :
        /\ Kind(m) = "mix" /\ Kind(e) = "effect"
        /\ \E r \in OriginsOf(m, "request"), d \in OriginsOf(e, "decision") :
             /\ graph.occurrence[r] # 0
             /\ SameOccurrence(m, r) /\ SameOccurrence(d, r) /\ SameOccurrence(e, r)
             /\ r \in Origins(d)
             /\ \E s \in OriginsOf(r, "selection") : \E c \in OriginsOf(s, "candidate") :
                  OriginsOf(c, "ingress") # {}

\* Effects come before mixes.
EffectsPrecedeMixes ==
    \A e \in ToSet(OfKind(arrived, "effect")) : OriginsOf(e, "mix") = {}

\* No fact leads back to two requests, and no effect to a mix or a decision of another occurrence.
CausesAgree ==
    /\ EffectsPrecedeMixes
    /\ \A id \in ToSet(arrived) : Cardinality(OriginsOf(id, "request")) <= 1
    /\ \A e \in ToSet(OfKind(arrived, "effect")) :
         \A d \in OriginsOf(e, "decision") : SameOccurrence(d, e)

\* Connected as the collector sees it, were it to look at every decision of a request.
ConnectedBySome ==
    \E m \in MixesOf(arrived) :
        \E d \in ToSet(DecisionsOf(arrived, RequestOf(arrived, m))) : ConnectedBy(arrived, m, d)

(* The accumulator never invents a connection, in whatever order the facts   *)
(* came, as long as no effect leads back to a mix: its chain may then take   *)
(* the decision of an earlier request for one of its own. Over a complete    *)
(* trace it finds every connection the offline collector finds, and only     *)
(* ones that the collector could find by some decision of the request. The   *)
(* two part where a request has several decisions, of which the collector    *)
(* looks at the first alone, and where the causes of one fact disagree (it   *)
(* leads back to two requests, or an effect to a mix or to a decision of     *)
(* another occurrence), which each of them follows in its own order. The     *)
(* audit of the stored fragments passes a complete trace, unless an output   *)
(* span names the PCM of the main output, which only the audit looks for     *)
(* (fact_trace_summary.cpp: best_cause and remember_complete;                *)
(* replay_trace.cpp: summarize; fact_integrity.cpp).                         *)
TraceAgreesWithCollector ==
    /\ acc.connected /\ EffectsPrecedeMixes => Linked
    /\ LossFree(acc, TRUE) /\ exclusions = 0 =>
        /\ CausesAgree =>
             /\ CollectorConnected(arrived) => acc.connected
             /\ acc.connected => ConnectedBySome
        /\ arrived # << >> => \/ AuditComplete(arrived)
                              \/ OfKind(arrived, "output_span") # << >>
================================================================================
