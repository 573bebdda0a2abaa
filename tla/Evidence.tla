------------------------------- MODULE Evidence -------------------------------
(****************************************************************************)
(* The evidence writer of a run (IncrementalEvidenceWriter) and the stores   *)
(* under it: fact fragments, published by asynchronous tasks and collected   *)
(* in order, and PCM blocks, written by the writer's thread.  At the end     *)
(* everything is reopened and verified before the evidence is summarised.    *)
(*                                                                           *)
(* A batch of facts is its number; the trace either follows it or not.  A    *)
(* block is its segment, its place on the sample line, its producer's        *)
(* sequence and its stream.                                                  *)
(****************************************************************************)
EXTENDS Integers, Sequences, FiniteSets, SequencesExt

CONSTANTS
    MaxBatches,     \* bound on the batches of facts
    MaxPending,     \* max_pending_fact_publications (16 in the code)
    MaxBlocks,      \* bound on the PCM blocks
    MaxSample,      \* bound on the place of a block
    MaxFaults       \* bound on disk faults: a failed write or a damaged file

VARIABLES
    writer,         \* IncrementalEvidenceWriter::Impl
    task,           \* task[s] = where the publication of fragment s stands
    directory,      \* the fragments directory exists
    fragments,      \* fragments[s] = "absent", "whole" or "damaged"
    blocks,         \* the same for the PCM blocks
    faults,         \* fragments the disk failed, in order
    result          \* "unopened", "open", the error returned last, or "summary"
vars == <<writer, task, directory, fragments, blocks, faults, result>>

Sequences == 1..MaxBatches
Chunk == [segment : 0..1, begin : 0..MaxSample, sequence : 1..MaxBlocks, stream : 0..1]
End(chunk) == chunk.begin + 1

Init ==
    /\ writer = [open |-> FALSE, valid |-> TRUE, finished |-> FALSE, facts |-> 0, artifacts |-> << >>,
                 pending |-> << >>, sequence |-> 1, pcm |-> << >>, segments |-> << >>,
                 continuity |-> "none"]
    /\ task = [s \in Sequences |-> "none"]
    /\ directory = FALSE
    /\ fragments = [s \in Sequences |-> "absent"]
    /\ blocks = << >>
    /\ faults = << >>
    /\ result = "unopened"

\* create_exclusive_evidence_directory: the directory of the run must be new.
Reserved(exists) == ~exists

\* open_incremental_evidence
Open(exists) ==
    /\ result = "unopened"
    /\ writer' = [writer EXCEPT !.open = Reserved(exists)]
    /\ result' = IF Reserved(exists) THEN "open" ELSE "directory_unavailable"
    /\ UNCHANGED <<task, directory, fragments, blocks, faults>>

\* join_pcm: within an inspection a later segment starts anywhere; otherwise blocks follow.
Joins(previous, next, continuity) ==
    \/ continuity = "per_segment" /\ next.segment > previous.segment
    \/ /\ (continuity = "per_segment" => next.segment = previous.segment)
       /\ next.begin = End(previous)

SameStream(left, right) == left.stream = right.stream

Follows(previous, next) ==
    /\ SameStream(previous, next) /\ previous.sequence < next.sequence
    /\ Joins(previous, next, "per_segment")

Fail(error) == /\ writer' = [writer EXCEPT !.valid = FALSE]
               /\ result' = error

Done(s) == task[s] \in {"stored", "failed"}
Accepting == writer.open /\ writer.valid /\ ~writer.finished

\* Nothing has been published yet: the fragment is written by the caller.
IsFirst(w) == w.artifacts = << >> /\ w.pending = << >>

\* resolve_oldest_fact: waits for the oldest publication and keeps or refuses its fragment.
Resolved(w) == IF task[Head(w.pending)] = "stored"
               THEN [w EXCEPT !.pending = Tail(@), !.artifacts = Append(@, Head(w.pending))]
               ELSE [w EXCEPT !.pending = Tail(@), !.valid = FALSE]

\* append_facts with a batch the trace follows or not.
AppendFacts(follows) ==
    /\ Accepting /\ writer.sequence <= MaxBatches
    /\ LET full == Len(writer.pending) >= MaxPending
           w == IF full THEN Resolved(writer) ELSE writer
           s == w.sequence
           counted == [w EXCEPT !.facts = @ + 1, !.sequence = @ + 1]
       IN  /\ full => Done(Head(writer.pending))
           /\ \/ /\ ~w.valid
                 /\ writer' = w /\ result' = "fact_publication_failed"
                 /\ UNCHANGED <<task, directory, fragments, faults>>
              \/ /\ w.valid /\ ~follows
                 /\ writer' = [w EXCEPT !.valid = FALSE] /\ result' = "fact_integrity_failed"
                 /\ UNCHANGED <<task, directory, fragments, faults>>
              \/ /\ w.valid /\ follows /\ IsFirst(w)
                 /\ \/ /\ fragments' = [fragments EXCEPT ![s] = "whole"]
                       /\ directory' = TRUE
                       /\ writer' = [counted EXCEPT !.artifacts = Append(@, s)]
                       /\ UNCHANGED <<task, faults, result>>
                    \/ /\ Len(faults) < MaxFaults
                       /\ faults' = Append(faults, s)
                       /\ writer' = [w EXCEPT !.facts = @ + 1, !.valid = FALSE]
                       /\ result' = "fact_publication_failed"
                       /\ directory' \in {directory, TRUE}
                       /\ UNCHANGED <<task, fragments>>
              \/ /\ w.valid /\ follows /\ ~IsFirst(w)
                 /\ task' = [task EXCEPT ![s] = "looking"]
                 /\ writer' = [counted EXCEPT !.pending = Append(@, s)]
                 /\ UNCHANGED <<directory, fragments, faults, result>>
    /\ UNCHANGED blocks

\* write_fact_fragment in its task: the directory is looked for, created if it was not there,
\* and the document written to a file that must not exist.
EnsureDirectory(s) ==
    /\ task[s] = "looking"
    /\ task' = [task EXCEPT ![s] = IF directory THEN "writing" ELSE "creating"]
    /\ UNCHANGED <<writer, directory, fragments, blocks, faults, result>>

CreateDirectory(s) ==
    /\ task[s] = "creating"
    /\ task' = [task EXCEPT ![s] = IF directory THEN "failed" ELSE "writing"]
    /\ directory' = TRUE
    /\ UNCHANGED <<writer, fragments, blocks, faults, result>>

\* write_exclusive_file never opens a file that is there.
Creatable(s) == fragments[s] = "absent"

WriteFragment(s) ==
    /\ task[s] = "writing"
    /\ \/ /\ Creatable(s)
          /\ fragments' = [fragments EXCEPT ![s] = "whole"]
          /\ task' = [task EXCEPT ![s] = "stored"]
          /\ UNCHANGED faults
       \/ /\ Len(faults) < MaxFaults
          /\ faults' = Append(faults, s)
          /\ task' = [task EXCEPT ![s] = "failed"]
          /\ UNCHANGED fragments
    /\ UNCHANGED <<writer, directory, blocks, result>>

\* The interval kept for each segment (DI-14).
SegmentsWith(segments, chunk) ==
    IF segments = << >> \/ Last(segments).segment # chunk.segment
    THEN Append(segments, [segment |-> chunk.segment, begin |-> chunk.begin, end |-> End(chunk)])
    ELSE [segments EXCEPT ![Len(segments)].end = End(chunk)]

\* write_pcm_block: a block is whole in a file of its own.
BlockStored == blocks' = Append(blocks, "whole")

\* append_pcm: the block is written whether or not it follows, the writer breaks if it does not.
AppendPcm(chunk) ==
    /\ Accepting /\ Len(blocks) < MaxBlocks
    /\ LET follows == writer.pcm # << >> => Follows(Last(writer.pcm), chunk)
       IN  \/ /\ BlockStored
              /\ writer' = [writer EXCEPT !.pcm = Append(@, chunk), !.valid = follows,
                                          !.segments = IF follows THEN SegmentsWith(@, chunk)
                                                                  ELSE @]
              /\ result' = IF follows THEN result ELSE "pcm_continuity_failed"
              /\ UNCHANGED faults
           \/ /\ Len(faults) < MaxFaults
              /\ faults' = Append(faults, 0)
              /\ Fail("pcm_publication_failed")
              /\ UNCHANGED blocks
    /\ UNCHANGED <<task, directory, fragments>>

\* Something else touches a stored file before the evidence is reopened.
Damage ==
    /\ Len(faults) < MaxFaults /\ ~writer.finished
    /\ \/ \E s \in Sequences : /\ fragments[s] = "whole"
                               /\ fragments' = [fragments EXCEPT ![s] = "damaged"]
                               /\ faults' = Append(faults, s) /\ UNCHANGED blocks
       \/ \E i \in DOMAIN blocks : /\ blocks[i] = "whole"
                                   /\ blocks' = [blocks EXCEPT ![i] = "damaged"]
                                   /\ faults' = Append(faults, 0) /\ UNCHANGED fragments
    /\ UNCHANGED <<writer, task, directory, result>>

\* The publications finish collects: all of them, or those up to the first that failed.
Collected == LET broken == {i \in DOMAIN writer.pending : task[writer.pending[i]] = "failed"}
             IN  IF broken = {} THEN Len(writer.pending)
                 ELSE CHOOSE i \in broken : \A j \in broken : i <= j

\* read_fact_fragment and read_pcm_block verify size, header, hash and content.
FragmentReads(s) == fragments[s] = "whole"
BlockReads(i) == blocks[i] = "whole"

\* What reopening finds: the writer compares sequence, count and identity with what it published.
FactsReopen(artifacts) ==
    /\ \A i \in DOMAIN artifacts : FragmentReads(artifacts[i])
    /\ Len(artifacts) = writer.facts
PcmReopens == /\ \A i \in DOMAIN blocks : BlockReads(i)
              /\ \A i \in 2..Len(writer.pcm) : Follows(writer.pcm[i - 1], writer.pcm[i])

SingleInterval ==
    \A i \in 2..Len(writer.pcm) : Joins(writer.pcm[i - 1], writer.pcm[i], "single")

\* finish, with the count of facts the transport observed, the continuity of the traversal, and
\* whether the reopened trace connects the HD relationships the caller requires.
Finish(observed, continuity, related) ==
    /\ writer.open /\ result # "summary"
    /\ \/ /\ \/ ~Accepting \/ writer.facts = 0 \/ writer.pcm = << >>
             \/ observed # writer.facts
          /\ result' = "invalid_input" /\ UNCHANGED writer
       \/ /\ Accepting /\ writer.facts > 0 /\ writer.pcm # << >> /\ observed = writer.facts
          /\ \A i \in 1..Collected : Done(writer.pending[i])
          /\ LET gone == SubSeq(writer.pending, Collected + 1, Len(writer.pending))
                 artifacts == writer.artifacts \o writer.pending
                 failed == \E i \in DOMAIN writer.pending : task[writer.pending[i]] = "failed"
             IN  IF failed
                 THEN /\ writer' = [writer EXCEPT !.valid = FALSE, !.pending = gone,
                                        !.artifacts = @ \o SubSeq(writer.pending, 1, Collected - 1)]
                      /\ result' = "fact_publication_failed"
                 ELSE /\ writer' = [writer EXCEPT !.finished = TRUE, !.pending = << >>,
                                        !.artifacts = artifacts, !.continuity = continuity]
                      /\ result' = CASE ~FactsReopen(artifacts) -> "fact_reopen_failed"
                                     [] FactsReopen(artifacts) /\ ~PcmReopens
                                            -> "pcm_reopen_failed"
                                     [] /\ FactsReopen(artifacts) /\ PcmReopens
                                        /\ continuity = "single" /\ ~SingleInterval
                                            -> "pcm_continuity_failed"
                                     [] OTHER -> IF related THEN "summary"
                                                 ELSE "relationship_reopen_failed"
    /\ UNCHANGED <<task, directory, fragments, blocks, faults>>

Next ==
    \/ \E exists \in BOOLEAN : Open(exists)
    \/ \E follows \in BOOLEAN : AppendFacts(follows)
    \/ \E s \in Sequences : EnsureDirectory(s) \/ CreateDirectory(s) \/ WriteFragment(s)
    \/ \E chunk \in Chunk : AppendPcm(chunk)
    \/ Damage
    \/ \E observed \in {writer.facts, writer.facts + 1} :
            \E continuity \in {"single", "per_segment"}, related \in BOOLEAN :
                Finish(observed, continuity, related)
Spec == Init /\ [][Next]_vars

--------------------------------------------------------------------------------
\* audit_audio_integrity over the stored blocks: what a later reader of the run finds.
AudioAuditPasses(continuity) ==
    /\ writer.pcm # << >>
    /\ \A i \in DOMAIN blocks : BlockReads(i)
    /\ \A i \in 2..Len(writer.pcm) :
        /\ SameStream(writer.pcm[i - 1], writer.pcm[i])
        /\ Joins(writer.pcm[i - 1], writer.pcm[i], continuity)

(* Evidence that was summarised can be audited: no publication is still      *)
(* under way, every batch the writer accepted is whole in its fragment, in   *)
(* order, and the audit of the audio passes (incremental_evidence.cpp:       *)
(* finish).                                                                  *)
SummaryIsAuditable ==
    result = "summary" =>
        /\ \A s \in 1..writer.facts : fragments[s] = "whole" /\ task[s] \in {"none", "stored"}
        /\ writer.artifacts = [i \in 1..writer.facts |-> i]
        /\ AudioAuditPasses(writer.continuity)

(* The intervals kept for the segments, which the traversal document repeats, *)
(* are the longest contiguous stretches of the stored blocks: two adjacent   *)
(* ones differ in segment, and no sample of a block lies outside them        *)
(* (incremental_evidence.cpp: append_pcm).                                   *)
SegmentsAreExact ==
    writer.valid =>
        /\ \A i \in 2..Len(writer.segments) :
                writer.segments[i - 1].segment < writer.segments[i].segment
        /\ \A i \in DOMAIN writer.pcm : \E j \in DOMAIN writer.segments :
                /\ writer.segments[j].segment = writer.pcm[i].segment
                /\ writer.segments[j].begin <= writer.pcm[i].begin
                /\ End(writer.pcm[i]) <= writer.segments[j].end
        /\ \A j \in DOMAIN writer.segments :
                writer.segments[j].end - writer.segments[j].begin =
                    Cardinality({i \in DOMAIN writer.pcm :
                                    writer.pcm[i].segment = writer.segments[j].segment})

(* A publication fails only when the disk failed it: tasks never get in each *)
(* other's way, although they all make sure of the same directory            *)
(* (fact_fragment_store.cpp: ensure_fragment_directory).                     *)
OnlyTheDiskFailsAFragment ==
    \A s \in Sequences : task[s] = "failed" => \E i \in DOMAIN faults : faults[i] = s
================================================================================
