-------------------------- MODULE ObservationStream --------------------------
(***************************************************************************)
(* How what the Engine observes reaches the supervisor: the gate that      *)
(* keeps silent production out (src/audio_qa_inspection.cpp), the bridge   *)
(* with a bounded lane per producer (tools/audio_qa/observation_bridge.h), *)
(* and the writer of the data channel with the worker that feeds it        *)
(* (src/audio_qa_runtime_session.cpp).  Producers are threads of the       *)
(* Engine; the worker consumes until the session stops it and drains the   *)
(* rest itself.  The writer's mutex makes each call to it one step.  A     *)
(* fact is its producer and its number, and so is a PCM block.             *)
(***************************************************************************)
EXTENDS Integers, Sequences, FiniteSetsExt

CONSTANTS Slots,            \* ProducerSlots; producers are 0..Slots-1
          FactCapacity,     \* facts of a regular lane
          BurstProducer,    \* the producer with a lane of its own (0: none), counted from 1
          BurstFactCapacity,
          PcmLane,          \* capacity of the PCM lane
          BatchCapacity,    \* facts the writer keeps before it sends them
          MessageFacts,     \* facts that fit in one message
          PcmBatch,         \* blocks that fit in one PCM message
          DrainRun,         \* maximum_drain_run
          MaxFacts, MaxBlocks, MaxPauses, MaxFaults      \* bounds
ASSUME StreamAssumption ==
    /\ {Slots, FactCapacity, BurstFactCapacity, PcmLane, BatchCapacity, MessageFacts, PcmBatch,
        DrainRun} \subseteq Nat \ {0}
    /\ BurstProducer \in 0..Slots
    /\ {MaxFacts, MaxBlocks, MaxPauses, MaxFaults} \subseteq Nat

Producers == 0..(Slots - 1)
NoLane == Slots
Inspection == -1      \* the producer of the facts the Runtime itself builds
Pcm == -2
Sources == Producers \cup {Pcm}
Item(source, n) == [producer |-> source, n |-> n]
NoSegment == -1       \* of silent PCM, and of a message of facts

\* fact_capacity
Lane(p) == IF p + 1 = BurstProducer THEN BurstFactCapacity ELSE FactCapacity

VARIABLES engine,     \* what was observed: facts, blocks and in which segment and mode
          gate,       \* SilentProductionGate, and the exclusions still to declare
          lanes,      \* the queues of facts and PCM, occupancies and losses
          cursor,     \* who consumes, and where in try_consume_fact it is
          stream,     \* StreamingObservationWriter
          sent,       \* messages written to the channel: items, and the segment of PCM
          broken,     \* the supervisor's end of the channel is gone
          faults
streamVars == <<engine, gate, lanes, cursor, stream, sent, broken, faults>>

StreamInit ==
    /\ engine = [facts |-> [p \in Producers |-> 0], reserved |-> {}, blocks |-> << >>,
                 mode |-> "audible", segment |-> 0]
    /\ gate = [first |-> [p \in Producers |-> 0], last |-> [p \in Producers |-> 0],
               forwarded |-> 0, hidden |-> {}, taken |-> {}]
    /\ lanes = [queue |-> [p \in Producers |-> << >>], occ |-> [p \in Producers |-> 0],
                pcm |-> << >>, losses |-> 0]
    /\ cursor = [who |-> "worker", pc |-> "scan", lane |-> NoLane, next |-> 0,
                 drain |-> NoLane, run |-> 0]
    /\ stream = [valid |-> TRUE, facts |-> << >>, pending |-> << >>, chunk |-> 0,
                 starts |-> << >>, consumed |-> 0, segment |-> 0]
    /\ sent = << >>
    /\ broken = FALSE
    /\ faults = 0

(***************************************************************************)
(* Producers.                                                              *)
(***************************************************************************)
Silent == engine.mode = "silent"
Producing == engine.mode \in {"audible", "silent"}

FactsLeft == MapThenSumSet(LAMBDA p : engine.facts[p], Producers) < MaxFacts

\* The gate: silent production only widens the interval of its producer; the rest reserves
\* its place in the occupancy of the lane, and is published by Publish.
Observe(p) ==
    LET n == engine.facts[p] + 1 IN
    /\ Producing /\ p \notin engine.reserved
    /\ FactsLeft
    /\ IF Silent
       THEN /\ engine' = [engine EXCEPT !.facts[p] = n]
            /\ gate' = [gate EXCEPT !.first[p] = IF gate.last[p] = 0 THEN n ELSE @,
                                    !.last[p] = n, !.hidden = @ \cup {<<p, n>>}]
            /\ UNCHANGED lanes
       ELSE /\ engine' = [engine EXCEPT !.facts[p] = n, !.reserved = @ \cup {p}]
            /\ lanes' = [lanes EXCEPT !.occ[p] = @ + 1]
            /\ UNCHANGED gate
    /\ UNCHANGED <<cursor, stream, sent, broken, faults>>

\* try_push: accepted, full, or a fact its lane cannot store.
Publish(p) ==
    /\ p \in engine.reserved
    /\ engine' = [engine EXCEPT !.reserved = @ \ {p}]
    /\ \/ /\ Len(lanes.queue[p]) < Lane(p)
          /\ lanes' = [lanes EXCEPT !.queue[p] = Append(@, engine.facts[p])]
          /\ UNCHANGED faults
       \/ /\ Len(lanes.queue[p]) = Lane(p)
          /\ lanes' = [lanes EXCEPT !.occ[p] = @ - 1, !.losses = @ + 1]
          /\ UNCHANGED faults
       \/ /\ faults < MaxFaults /\ faults' = faults + 1
          /\ lanes' = [lanes EXCEPT !.occ[p] = @ - 1, !.losses = @ + 1]
    /\ UNCHANGED <<gate, cursor, stream, sent, broken>>

ObservePcm ==
    LET n == Len(engine.blocks) + 1 IN
    /\ Producing /\ n <= MaxBlocks
    /\ engine' = [engine EXCEPT !.blocks = Append(@, IF Silent THEN NoSegment ELSE engine.segment)]
    /\ IF Silent THEN UNCHANGED <<gate, lanes>>
       ELSE /\ gate' = [gate EXCEPT !.forwarded = @ + 1]
            /\ lanes' = IF Len(lanes.pcm) < PcmLane
                        THEN [lanes EXCEPT !.pcm = Append(@, n)]
                        ELSE [lanes EXCEPT !.losses = @ + 1]
    /\ UNCHANGED <<cursor, stream, sent, broken, faults>>

(***************************************************************************)
(* The writer.                                                             *)
(***************************************************************************)
\* The encoder halves a batch that is too large until it fits, which one fact always does;
\* then comes the rest.
Halves(n) == {n \div d : d \in {1, 2, 4, 8, 16, 32, 64, 128, 256}} \cup {1}
Fitting(n) == Max({c \in Halves(n) : c > 0 /\ c <= MessageFacts})
Message(segment, items) == [segment |-> segment, items |-> items]
Batches(facts) ==
    LET size == Len(facts)
        last[k \in 0..size] ==      \* the messages of the last k facts
            IF k = 0 THEN << >>
            ELSE <<Message(NoSegment, SubSeq(facts, size - k + 1, size - k + Fitting(k)))>>
                 \o last[k - Fitting(k)]
    IN last[size]

PcmMessage(w) == IF w.pending = << >> THEN << >> ELSE <<Message(w.chunk, w.pending)>>

\* A writer and what it writes; on a channel that broke nothing is, and it is invalid.
Wrote(w, messages) ==
    IF messages = << >> THEN [writer |-> w, messages |-> << >>]
    ELSE IF broken THEN [writer |-> [stream EXCEPT !.valid = FALSE], messages |-> << >>]
    ELSE [writer |-> w, messages |-> messages]
Nothing(w) == [writer |-> w, messages |-> << >>]

Flush(w) == IF ~w.valid THEN Nothing(w) ELSE Wrote([w EXCEPT !.facts = << >>], Batches(w.facts))
FlushAll(w) ==
    IF ~w.valid THEN Nothing(w)
    ELSE Wrote([w EXCEPT !.facts = << >>, !.pending = << >>], Batches(w.facts) \o PcmMessage(w))

\* push_fact and consume_fact.
Kept(w, fact) ==
    LET more == [w EXCEPT !.facts = Append(@, fact)] IN
    CASE ~w.valid -> Nothing(w)
      [] w.valid /\ Len(more.facts) = BatchCapacity -> Flush(more)
      [] OTHER -> Nothing(more)

\* Fault: a segment begins one block late.
BegunLate(starts, consumed) ==
    CHOOSE n \in 0..Len(starts) : /\ \A i \in 1..n : starts[i] < consumed
                                  /\ n < Len(starts) => consumed <= starts[n + 1]

\* How many of the segments that wait to start start at this block, or before it.
Begun(starts, consumed) ==
    CHOOSE n \in 0..Len(starts) : /\ \A i \in 1..n : starts[i] <= consumed
                                  /\ n < Len(starts) => consumed < starts[n + 1]

\* consume_pcm: the segment that starts at this block begins; a block joins the pending
\* ones when it follows them in their segment and fits.
Counted(w) ==
    LET begun == Begun(w.starts, w.consumed) IN
    [w EXCEPT !.consumed = @ + 1, !.segment = @ + begun,
              !.starts = SubSeq(@, begun + 1, Len(@))]
Joins(w, block) ==
    /\ w.pending # << >> /\ Len(w.pending) < PcmBatch
    /\ w.pending[Len(w.pending)].n + 1 = block /\ w.chunk = w.segment
Chunk(w, block) == [w EXCEPT !.pending = <<Item(Pcm, block)>>, !.chunk = w.segment]
Consumed(w, block) ==
    LET counted == Counted(w) IN
    CASE ~w.valid -> Nothing(w)
      [] w.valid /\ Joins(counted, block) ->
            Nothing([counted EXCEPT !.pending = Append(@, Item(Pcm, block))])
      [] OTHER -> Wrote(Chunk(counted, block), PcmMessage(w))

Does(result) == stream' = result.writer /\ sent' = sent \o result.messages

\* A fact or a block the writer cannot copy makes it invalid.
Unreadable == Nothing([stream EXCEPT !.valid = FALSE])
Delivers(result) ==
    \/ Does(result) /\ UNCHANGED faults
    \/ faults < MaxFaults /\ faults' = faults + 1 /\ Does(Unreadable)

(***************************************************************************)
(* The consumer: the worker, and the session after it joined it.           *)
(***************************************************************************)
Consuming == cursor.who \in {"worker", "session"}

\* The fullest lane for its capacity, the first from next_fact_ when several are.
Later(p) == (p - cursor.next + Slots) % Slots
Fullest ==
    LET busy == {p \in Producers : lanes.occ[p] # 0}
        fuller(p, q) == lanes.occ[p] * Lane(q) > lanes.occ[q] * Lane(p)
        best == {p \in busy : \A q \in busy : ~fuller(q, p)}
    IN IF best = {} THEN NoLane ELSE CHOOSE p \in best : \A q \in best : Later(p) <= Later(q)

Takes(p, next, run) ==
    /\ lanes.queue[p] # << >>
    /\ lanes' = [lanes EXCEPT !.queue[p] = Tail(@)]
    /\ Delivers(Kept(stream, Item(p, Head(lanes.queue[p]))))
    /\ cursor' = [cursor EXCEPT !.pc = "release", !.lane = p, !.next = next,
                                    !.drain = p, !.run = run]
    /\ UNCHANGED <<engine, gate, broken>>

Draining == /\ cursor.drain # NoLane /\ cursor.run < DrainRun
            /\ lanes.occ[cursor.drain] # 0 /\ lanes.queue[cursor.drain] # << >>

\* Goes on with the lane of the last fact, for a bounded run.
DrainLane ==
    /\ Consuming /\ cursor.pc = "scan" /\ Draining
    /\ Takes(cursor.drain, cursor.next, cursor.run + 1)

SelectLane ==
    /\ Consuming /\ cursor.pc = "scan" /\ ~Draining
    /\ cursor' = [cursor EXCEPT !.pc = "take", !.lane = Fullest, !.drain = NoLane, !.run = 0]
    /\ UNCHANGED <<engine, gate, lanes, stream, sent, broken, faults>>

TakeSelected ==
    /\ Consuming /\ cursor.pc = "take" /\ cursor.lane # NoLane
    /\ Takes(cursor.lane, (cursor.lane + 1) % Slots, 1)

\* The selected lane was reserved and not yet published: the others are tried in turn.
\* Fault: nothing is tried after the selected lane.
NoOthers == {p \in {cursor.lane} \cap Producers : lanes.queue[p] # << >>}
Others == {p \in Producers \ {cursor.lane} : lanes.queue[p] # << >>}
NothingSelected == cursor.lane # NoLane => lanes.queue[cursor.lane] = << >>
FallBack ==
    /\ Consuming /\ cursor.pc = "take" /\ NothingSelected /\ Others # {}
    /\ LET p == CHOOSE q \in Others : \A o \in Others : Later(q) <= Later(o) IN
       Takes(p, (p + 1) % Slots, 1)

NoFact ==
    /\ Consuming /\ cursor.pc = "take" /\ NothingSelected /\ Others = {}
    /\ cursor' = [cursor EXCEPT !.pc = "pcm"]
    /\ UNCHANGED <<engine, gate, lanes, stream, sent, broken, faults>>

\* The occupancy is given back after the delivery; the final drain takes every fact first.
Release ==
    /\ Consuming /\ cursor.pc = "release"
    /\ lanes' = [lanes EXCEPT !.occ[cursor.lane] = @ - 1]
    /\ cursor' = [cursor EXCEPT !.pc = IF cursor.who = "worker" THEN "pcm" ELSE "scan"]
    /\ UNCHANGED <<engine, gate, stream, sent, broken, faults>>

TakePcm ==
    /\ Consuming /\ cursor.pc = "pcm" /\ lanes.pcm # << >>
    /\ lanes' = [lanes EXCEPT !.pcm = Tail(@)]
    /\ Delivers(Consumed(stream, Head(lanes.pcm)))
    /\ cursor' = [cursor EXCEPT !.pc = IF cursor.who = "worker" THEN "scan" ELSE "pcm"]
    /\ UNCHANGED <<engine, gate, broken>>

\* The worker starts again, or ends if it was asked to; the session flushes what is left.
NoPcm ==
    /\ cursor.pc = "pcm" /\ lanes.pcm = << >>
    /\ \/ /\ cursor.who = "worker"
          /\ cursor' = [cursor EXCEPT !.pc = "scan"]
          /\ UNCHANGED <<stream, sent>>
       \/ /\ cursor.who = "session"
          /\ Does(FlushAll(stream))
          /\ cursor' = [cursor EXCEPT !.who = "none"]
    /\ UNCHANGED <<engine, gate, lanes, broken, faults>>

(***************************************************************************)
(* The session: pauses, silent recoveries, resumes, the live state and the *)
(* end.  A pause drains what was produced, so no producer is in the middle *)
(* of an observation when the mode changes.                                *)
(***************************************************************************)
NothingReserved == engine.reserved = {}
Pause ==
    /\ engine.mode = "audible" /\ NothingReserved /\ engine.segment < MaxPauses
    /\ engine' = [engine EXCEPT !.mode = "paused"]
    /\ UNCHANGED <<gate, lanes, cursor, stream, sent, broken, faults>>

Navigate ==
    /\ engine.mode = "paused"
    /\ engine' = [engine EXCEPT !.mode = "silent"]
    /\ UNCHANGED <<gate, lanes, cursor, stream, sent, broken, faults>>

Hidden == {p \in Producers : gate.last[p] # 0}
Exclusion(p) == [producer |-> Inspection, of |-> p, first |-> gate.first[p],
                 last |-> gate.last[p]]
TakeExclusions ==
    /\ engine.mode = "silent"
    /\ engine' = [engine EXCEPT !.mode = "declaring"]
    /\ gate' = [gate EXCEPT !.taken = {Exclusion(p) : p \in Hidden},
                            !.first = [p \in Producers |-> 0],
                            !.last = [p \in Producers |-> 0]]
    /\ UNCHANGED <<lanes, cursor, stream, sent, broken, faults>>

\* One fact for each producer that was hidden; the worker writes between them.
DeclareExclusion ==
    /\ \E fact \in gate.taken :
        /\ \A other \in gate.taken : fact.of <= other.of
        /\ gate' = [gate EXCEPT !.taken = @ \ {fact}]
        /\ Does(Kept(stream, fact))
    /\ UNCHANGED <<engine, lanes, cursor, broken, faults>>

EndNavigation ==
    /\ engine.mode = "declaring" /\ gate.taken = {}
    /\ engine' = [engine EXCEPT !.mode = "paused"]
    /\ UNCHANGED <<gate, lanes, cursor, stream, sent, broken, faults>>

Resume ==
    /\ engine.mode = "paused"
    /\ engine' = [engine EXCEPT !.mode = "audible", !.segment = @ + 1]
    /\ stream' = [stream EXCEPT !.starts = Append(@, gate.forwarded)]
    /\ UNCHANGED <<gate, lanes, cursor, sent, broken, faults>>

\* stop_observation_worker: the bridge closes, and the worker joins between two cycles.
Stop ==
    /\ engine.mode \in {"audible", "paused"} /\ NothingReserved
    /\ cursor.who = "worker" /\ cursor.pc = "scan"
    /\ engine' = [engine EXCEPT !.mode = "stopped"]
    /\ cursor' = [cursor EXCEPT !.who = "session"]
    /\ UNCHANGED <<gate, lanes, stream, sent, broken, faults>>

\* The supervisor ends before the session.
ChannelBreaks ==
    /\ ~broken /\ faults < MaxFaults
    /\ broken' = TRUE /\ faults' = faults + 1
    /\ UNCHANGED <<engine, gate, lanes, cursor, stream, sent>>

Consumer == DrainLane \/ SelectLane \/ TakeSelected \/ FallBack \/ NoFact \/ Release
            \/ TakePcm \/ NoPcm
StreamNext == \/ \E p \in Producers : Observe(p) \/ Publish(p)
        \/ ObservePcm
        \/ Consumer
        \/ Pause \/ Navigate \/ TakeExclusions \/ DeclareExclusion \/ EndNavigation
              \/ Resume \/ Stop
        \/ ChannelBreaks

StreamSpec == StreamInit /\ [][StreamNext]_streamVars
\* The consumer's thread keeps running; a producer may stay suspended anywhere.
StreamFairSpec == StreamSpec /\ WF_streamVars(Consumer)

(***************************************************************************)
(* Properties.                                                             *)
(***************************************************************************)
Stopped == cursor.who = "none"
LossFree == Stopped /\ stream.valid /\ lanes.losses = 0

\* What a source produced, and what of it was silent; what the messages hold.
Produced(s) == IF s = Pcm THEN Len(engine.blocks) ELSE engine.facts[s]
Silenced(s, n) == IF s = Pcm THEN engine.blocks[n] = NoSegment ELSE <<s, n>> \in gate.hidden
Holds(messages, x) ==
    \E i \in 1..Len(messages) : \E j \in 1..Len(messages[i].items) : messages[i].items[j] = x
Before(x, y) == x.producer = y.producer /\ x.producer \in Sources => x.n < y.n
InOrder(items) == \A j, l \in 1..Len(items) : j < l => Before(items[j], items[l])
MessagesInOrder(messages) ==
    /\ \A i \in 1..Len(messages) : InOrder(messages[i].items)
    /\ \A i, k \in 1..Len(messages) : i < k =>
        \A j \in 1..Len(messages[i].items), l \in 1..Len(messages[k].items) :
            Before(messages[i].items[j], messages[k].items[l])

\* The occupancy of a lane is its queue, plus what is reserved and not yet published, plus
\* what was delivered and not yet given back: it never falls below the queue and never
\* wraps, in any interleaving of the producer and the consumer.
OccupancyIsExact ==
    \A p \in Producers :
        lanes.occ[p] = Len(lanes.queue[p]) + (IF p \in engine.reserved THEN 1 ELSE 0)
            + (IF cursor.pc = "release" /\ cursor.lane = p THEN 1 ELSE 0)

\* A trace reported loss-free holds everything the Engine observed: each producer's facts
\* and the PCM in order and once, and what a silent recovery hid is exactly what the run
\* declares as excluded.
NothingMissing ==
    \A s \in Sources : \A n \in 1..Produced(s) : Holds(sent, Item(s, n)) <=> ~Silenced(s, n)
NothingElse ==
    \A i \in 1..Len(sent) : \A j \in 1..Len(sent[i].items) :
        LET x == sent[i].items[j] IN
        IF x.producer \in Sources THEN x.n \in 1..Produced(x.producer)
        ELSE \A n \in x.first..x.last : <<x.of, n>> \in gate.hidden
HiddenIsDeclared ==
    \A x \in gate.hidden :
        \E i \in 1..Len(sent) : \E j \in 1..Len(sent[i].items) :
            LET d == sent[i].items[j] IN
            d.producer = Inspection /\ d.of = x[1] /\ x[2] \in d.first..d.last
LossFreeIsComplete ==
    LossFree => NothingMissing /\ NothingElse /\ MessagesInOrder(sent) /\ HiddenIsDeclared

\* In a loss-free trace every PCM message says the segment its blocks were played in: what
\* follows a pause never counts as played before it.
SegmentsMatchPlayback ==
    LossFree => \A i \in 1..Len(sent) : \A j \in 1..Len(sent[i].items) :
        LET x == sent[i].items[j] IN
        x.producer = Pcm => engine.blocks[x.n] = sent[i].segment

\* The trace the supervisor gets is the trace of what was played, or says that it is not
\* (observation_bridge.h, audio_qa_runtime_session.cpp: StreamingObservationWriter).
StreamIsFaithful == OccupancyIsExact /\ LossFreeIsComplete /\ SegmentsMatchPlayback

\* A published fact leaves its lane, even if another producer is suspended for ever between
\* its reservation and its publication.
PublishedIsConsumed ==
    \A p \in Producers : lanes.queue[p] # << >> ~> (lanes.queue[p] = << >> \/ Stopped)
=============================================================================
