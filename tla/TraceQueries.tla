------------------------------ MODULE TraceQueries ------------------------------
(***************************************************************************)
(* Which audio an event led to: the facts of a run name their causes, the  *)
(* spans of the mix name the facts that made them, and a link may relate   *)
(* an event and a span that only coincide.  The answer is a list of        *)
(* routes, which an index keeps in a file and `ayther_audio_qa query'      *)
(* looks up.  Facts, spans and links arrive in any order and any may be    *)
(* missing when the question is asked.  Facts and spans are well formed    *)
(* (FactMessages says what of a fact); more of them than                   *)
(* max_reference_materials are refused before anything is read.            *)
(***************************************************************************)
EXTENDS Naturals, Sequences, FiniteSets
LOCAL INSTANCE SequencesExt

CONSTANTS Ids,         \* identities of facts: records with a run and a number
          Events,      \* identities that are asked about
          Spans,       \* spans of the mix; output is << >> where the range is not known
          Links,       \* temporal links
          MaxFacts,    \* bound on the facts that arrive
          MaxRelated,  \* bound on the spans and links that arrive
          MaxEntries,  \* max_query_entries
          MaxSize,     \* max_metadata_bytes, in identities written
          MaxPath,     \* max_fact_causes
          MaxRate      \* the highest rate an index is read with
VARIABLES facts,    \* facts that arrived, in order
          spans, links,
          asked,    \* the event of the question (a sequence of at most one)
          answer,   \* what was answered
          file,     \* the index that was stored, or the error
          found     \* routes that the lookup of the same event printed, or the error

vars == <<facts, spans, links, asked, answer, file, found>>

Nowhere == [status |-> "not_found", routes |-> << >>]
Refused(status) == [Nowhere EXCEPT !.status = status]

-----------------------------------------------------------------------------
(* The question: query_event_to_audio. *)

\* fact_index: the first fact with that identity, 0 if there is none
IndexOf(id) == SelectInSeq(facts, LAMBDA fact : fact.id = id)
Present(id) == IndexOf(id) # 0
Duplicates == \E n, m \in DOMAIN facts : n # m /\ facts[n].id = facts[m].id

DirectlyCausedBy(fact, id) == id \in fact.causes

\* One turn of the search: the facts that the next one in the queue caused, in their order.
Turn(search) ==
    LET current == Head(search.queue)
        next == SelectSeq([n \in DOMAIN facts |-> n], LAMBDA n :
                    search.parents[n] = 0 /\ DirectlyCausedBy(facts[n], facts[current].id))
    IN  [queue |-> Tail(search.queue) \o next,
         parents |-> [n \in DOMAIN facts |-> IF Contains(next, n) THEN current ELSE search.parents[n]]]

\* parents: who led to each fact, 0 where the event did not lead to it
Parents(origin) ==
    FoldLeft(LAMBDA search, n : IF search.queue = << >> THEN search ELSE Turn(search),
             [queue |-> <<origin>>, parents |-> [n \in DOMAIN facts |-> IF n = origin THEN n ELSE 0]],
             facts).parents

ReconstructPath(parents, origin, target) ==
    LET back == FoldLeft(LAMBDA path, n : IF Last(path) = origin THEN path
                                          ELSE Append(path, parents[Last(path)]), <<target>>, facts)
    IN  [n \in DOMAIN back |-> facts[Reverse(back)[n]].id]

Route(basis, path, span, reason) ==
    [basis |-> basis, path |-> path, span |-> span.id, range |-> span.output[1], reason |-> reason]

Related(parents, span) == \E id \in ToSet(span.facts) : parents[IndexOf(id)] # 0

\* The first of its facts that the event led to explains a span.
ExplicitRoute(event, parents, span) ==
    LET target == SelectSeq(span.facts, LAMBDA id : parents[IndexOf(id)] # 0)[1]
    IN  Route("explicit_cause", ReconstructPath(parents, IndexOf(event), IndexOf(target)), span, "cause_ids")

ExplicitRoutes(event, parents) ==
    FoldLeft(LAMBDA result, span :
                 IF span.run # event.run \/ ~Related(parents, span) THEN result
                 ELSE IF span.output = << >> THEN [result EXCEPT !.unavailable = TRUE]
                 ELSE [result EXCEPT !.routes = Append(@, ExplicitRoute(event, parents, span))],
             [routes |-> << >>, unavailable |-> FALSE, valid |-> TRUE], spans)

\* Fault: a link adds its span though a route explains it.
AddLinkedAgain(event, result, link) ==
    LET named == SelectSeq(spans, LAMBDA span : span.run = event.run /\ span.id = link.span)
    IN  IF ~result.valid \/ link.reason = "" THEN [result EXCEPT !.valid = FALSE]
        ELSE IF link.event # event THEN result
        ELSE IF named = << >> THEN [result EXCEPT !.valid = FALSE]
        ELSE IF named[1].output = << >> THEN [result EXCEPT !.unavailable = TRUE]
        ELSE [result EXCEPT !.routes =
                 Append(@, Route("temporal_correlation", <<event>>, named[1], link.reason))]
\* A link adds a span that no route explains yet.
AddLinked(event, result, link) ==
    LET named == SelectSeq(spans, LAMBDA span : span.run = event.run /\ span.id = link.span)
    IN  IF ~result.valid \/ link.reason = "" THEN [result EXCEPT !.valid = FALSE]
        ELSE IF link.event # event THEN result
        ELSE IF named = << >> THEN [result EXCEPT !.valid = FALSE]
        ELSE IF \E route \in ToSet(result.routes) : route.span = named[1].id THEN result
        ELSE IF named[1].output = << >> THEN [result EXCEPT !.unavailable = TRUE]
        ELSE [result EXCEPT !.routes =
                 Append(@, Route("temporal_correlation", <<event>>, named[1], link.reason))]

Answer(result) ==
    IF ~result.valid THEN Refused("invalid_temporal_link")
    ELSE IF result.routes # << >> THEN [status |-> "found", routes |-> result.routes]
    ELSE IF result.unavailable THEN Refused("range_unavailable") ELSE Nowhere

QueryEventToAudio(event) ==
    IF Duplicates THEN Refused("duplicate_fact")
    ELSE IF ~Present(event) THEN Refused("invalid_origin")
    ELSE IF \E fact \in ToSet(facts) : \E cause \in fact.causes : ~Present(cause) THEN Refused("invalid_fact")
    ELSE IF \E span \in ToSet(spans) : \E id \in ToSet(span.facts) : ~Present(id)
         THEN Refused("invalid_mix_span")
    ELSE Answer(FoldLeft(LAMBDA result, link : AddLinked(event, result, link),
                         ExplicitRoutes(event, Parents(IndexOf(event))), links))

-----------------------------------------------------------------------------
(* The index. *)

\* An entry's text must be printable; a name with control characters is one the query accepts.
Printable(name) == name # "control"
ValidEntry(entry) ==
    /\ Printable(entry.route.span) /\ Printable(entry.route.reason)
    /\ Len(entry.route.path) \in 1..MaxPath /\ entry.route.path[1] = entry.origin
    /\ \A id \in ToSet(entry.route.path) : id.run = entry.origin.run

Error(name) == [error |-> name, entries |-> << >>]
Size(entries) == FoldLeft(LAMBDA size, entry : size + 1 + Len(entry.route.path), 0, entries)

\* make_evidence_query_index and evidence_query_index_to_toml
IndexOfAnswer(event, result) ==
    LET entries == [n \in DOMAIN result.routes |-> [origin |-> event, route |-> result.routes[n]]]
    IN  IF result.status # "found" \/ Len(entries) > MaxEntries \/ \E e \in ToSet(entries) : ~ValidEntry(e)
        THEN Error("invalid_content")
        ELSE IF Size(entries) > MaxSize THEN Error("too_large")
        ELSE [error |-> "none", entries |-> entries]

\* evidence_query_index_from_toml
ReadIndex(index) ==
    IF \E e \in ToSet(index.entries) : e.route.range.rate > MaxRate THEN Error("malformed_document")
    ELSE index

\* query_evidence_index
QueryIndex(index, event) ==
    LET entries == SelectSeq(index.entries, LAMBDA entry : entry.origin = event)
    IN  [n \in DOMAIN entries |-> entries[n].route]

-----------------------------------------------------------------------------
Unasked == asked = << >>

Init ==
    /\ facts = << >> /\ spans = << >> /\ links = << >>
    /\ asked = << >> /\ answer = Nowhere
    /\ file = Error("none") /\ found = Error("none")

\* A fact names causes of its run, itself excluded (well_formed).
AddFact(id, causes) ==
    /\ Unasked /\ Len(facts) < MaxFacts
    /\ facts' = Append(facts, [id |-> id, causes |-> causes])
    /\ UNCHANGED <<spans, links, asked, answer, file, found>>

AddSpan(span) ==
    /\ Unasked /\ Len(spans) + Len(links) < MaxRelated
    /\ spans' = Append(spans, span)
    /\ UNCHANGED <<facts, links, asked, answer, file, found>>

AddLink(link) ==
    /\ Unasked /\ Len(spans) + Len(links) < MaxRelated
    /\ links' = Append(links, link)
    /\ UNCHANGED <<facts, spans, asked, answer, file, found>>

\* The answer, and the index that keeps it.
Ask(event) ==
    /\ Unasked
    /\ asked' = <<event>> /\ answer' = QueryEventToAudio(event)
    /\ file' = IndexOfAnswer(event, answer')
    /\ UNCHANGED <<facts, spans, links, found>>

LookUp ==
    /\ file.error = "none" /\ file.entries # << >> /\ found = Error("none")
    /\ found' = LET index == ReadIndex(file)
                IN  IF index.error # "none" THEN index
                    ELSE [error |-> "printed", entries |-> QueryIndex(index, asked[1])]
    /\ UNCHANGED <<facts, spans, links, asked, answer, file>>

Next ==
    \/ \E id \in Ids : \E causes \in SUBSET {c \in Ids : c.run = id.run /\ c # id} : AddFact(id, causes)
    \/ \E span \in Spans : AddSpan(span)
    \/ \E link \in Links : AddLink(link)
    \/ \E event \in Events : Ask(event)
    \/ LookUp

Spec == Init /\ [][Next]_vars

-----------------------------------------------------------------------------
\* The facts at most n causes away from an event, by the definition of a chain of causes.
Within(event) ==
    LET near[n \in 0..MaxFacts] ==
            IF n = 0 THEN {event}
            ELSE near[n - 1] \cup {f.id : f \in {g \in ToSet(facts) : g.causes \cap near[n - 1] # {}}}
    IN  near

(***************************************************************************)
(* Every explicit route is a chain of recorded causes from the event to a  *)
(* fact of the span, and none is shorter; every span with a known range    *)
(* that some chain reaches has such a route, and no span has two routes    *)
(* when their names are its own (query_event_to_audio).                    *)
(***************************************************************************)
RoutesExplainAudio ==
    LET event == asked[1]
        near == Within(event)
        explicit == SelectSeq(answer.routes, LAMBDA route : route.basis = "explicit_cause")
        reached == SelectSeq(spans, LAMBDA s : /\ s.run = event.run /\ s.output # << >>
                                               /\ ToSet(s.facts) \cap near[MaxFacts] # {})
    IN  asked # << >> /\ answer.status \in {"found", "not_found", "range_unavailable"} =>
        /\ Len(explicit) = Len(reached)
        /\ \A n \in DOMAIN explicit :
              LET path == explicit[n].path IN
              /\ explicit[n].span = reached[n].id /\ path[1] = event
              /\ Last(path) \in ToSet(reached[n].facts)
              /\ \A k \in 2..Len(path) : path[k - 1] \in facts[IndexOf(path[k])].causes
              /\ Len(path) >= 2 => Last(path) \notin near[Len(path) - 2]
        /\ \A n, m \in DOMAIN answer.routes :
              n # m /\ answer.routes[n].span = answer.routes[m].span =>
                  answer.routes[n].basis = "explicit_cause" /\ answer.routes[m].basis = "explicit_cause"

(***************************************************************************)
(* The lookup prints the routes the query found, unless one has a rate     *)
(* that the index is not read with (evidence_query_index_from_toml).       *)
(***************************************************************************)
IndexKeepsTheAnswer ==
    found # Error("none") =>
        IF \E route \in ToSet(answer.routes) : route.range.rate > MaxRate
        THEN found.error = "malformed_document" ELSE found.entries = answer.routes
================================================================================
