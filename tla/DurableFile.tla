----------------------------- MODULE DurableFile -----------------------------
(***************************************************************************)
(* publish_durable_file (tools/audio_qa/durable_file.cpp): callers, in one *)
(* process or in several, replace the document at one path.  Each writes a *)
(* temporary file of its own, flushes it, closes it, renames it over the   *)
(* target and, on POSIX, flushes the parent directory; Windows renames     *)
(* with write-through.  A process can die between any two system calls and *)
(* the machine can lose its power.                                         *)
(*                                                                         *)
(* The file system is external: a rename is atomic for readers; after a    *)
(* loss of power the target is the last one whose rename was flushed or    *)
(* any later one, and bytes that were not flushed may be gone.             *)
(***************************************************************************)
EXTENDS Naturals, Sequences

CONSTANTS Publishers,     \* calls of publish_durable_file, and their documents
          Size,           \* length of every document, in writes
          Platforms,      \* whether the rename is flushed too: Windows, not POSIX
          Torn            \* the content of a file that is not a whole document

ASSUME SizeAssumption == Size \in Nat
ASSUME PlatformsAssumption == Platforms \subseteq BOOLEAN
ASSUME TornAssumption == Torn \notin Publishers

VARIABLES pc,        \* the next system call of each publisher
          temp,      \* its temporary file
          journal,   \* the files renamed to the target, in order
          synced,    \* how many of those renames are flushed
          result,    \* what the call returned
          writeThrough   \* the platform, which never changes
vars == <<pc, temp, journal, synced, result, writeThrough>>

NoFile == [size |-> 0]
Files == [doc : Publishers, size : 0..Size, flushed : BOOLEAN]

TypeOK ==
    /\ pc \in [Publishers -> {"create", "write", "rename", "sync", "done", "dead"}]
    /\ temp \in [Publishers -> Files \cup {NoFile}]
    /\ journal \in Seq(Files)
    /\ synced \in 0..Len(journal)
    /\ result \in [Publishers -> {"none", "published", "failed"}]
    /\ writeThrough \in Platforms

Init ==
    /\ pc = [p \in Publishers |-> "create"]
    /\ temp = [p \in Publishers |-> NoFile]
    /\ journal = <<>>
    /\ synced = 0
    /\ result = [p \in Publishers |-> "none"]
    /\ writeThrough \in Platforms

Return(p, value) ==
    /\ pc' = [pc EXCEPT ![p] = "done"]
    /\ result' = [result EXCEPT ![p] = value]

\* The temporary file is closed and removed, and an error returned.
GiveUp(p) ==
    /\ Return(p, "failed")
    /\ temp' = [temp EXCEPT ![p] = NoFile]
    /\ UNCHANGED <<journal, synced>>

\* create_temporary: an exclusive name of its own.
Create(p) ==
    /\ pc[p] = "create"
    /\ \/ /\ pc' = [pc EXCEPT ![p] = "write"]
          /\ temp' = [temp EXCEPT ![p] = [doc |-> p, size |-> 0, flushed |-> FALSE]]
          /\ UNCHANGED <<journal, synced, result>>
       \/ GiveUp(p)

\* One write of the loop.
Write(p) ==
    /\ pc[p] = "write"
    /\ temp[p].size < Size
    /\ \/ /\ temp' = [temp EXCEPT ![p].size = temp[p].size + 1]
          /\ UNCHANGED <<pc, journal, synced, result>>
       \/ GiveUp(p)

\* Fault: the temporary file is closed without being flushed.
FlushSkipped(p) ==
    /\ pc[p] = "write"
    /\ temp[p].size = Size
    /\ pc' = [pc EXCEPT ![p] = "rename"]
    /\ UNCHANGED <<temp, journal, synced, result>>

\* The whole document is written: flush and close.
Flush(p) ==
    /\ pc[p] = "write"
    /\ temp[p].size = Size
    /\ \/ /\ temp' = [temp EXCEPT ![p].flushed = TRUE]
          /\ pc' = [pc EXCEPT ![p] = "rename"]
          /\ UNCHANGED <<journal, synced, result>>
       \/ GiveUp(p)

\* Fault: the target that is there is overwritten in place.
RenameInPlace(p) ==
    /\ pc[p] = "rename"
    /\ journal' = IF journal = <<>> THEN <<temp[p]>>
                  ELSE [journal EXCEPT ![Len(journal)] = temp[p]]
    /\ temp' = [temp EXCEPT ![p] = NoFile]
    /\ IF writeThrough
         THEN Return(p, "published") /\ synced' = Len(journal')
         ELSE pc' = [pc EXCEPT ![p] = "sync"] /\ UNCHANGED <<synced, result>>

\* Fault: an error after the rename is reported as a failed publication.
RenameThenFail(p) ==
    /\ pc[p] = "rename"
    /\ journal' = Append(journal, temp[p])
    /\ temp' = [temp EXCEPT ![p] = NoFile]
    /\ Return(p, "failed")
    /\ UNCHANGED synced

Rename(p) ==
    /\ pc[p] = "rename"
    /\ \/ /\ journal' = Append(journal, temp[p])
          /\ temp' = [temp EXCEPT ![p] = NoFile]
          /\ IF writeThrough
               THEN Return(p, "published") /\ synced' = Len(journal) + 1
               ELSE pc' = [pc EXCEPT ![p] = "sync"] /\ UNCHANGED <<synced, result>>
       \/ GiveUp(p)

\* Fault: the result of the flush is ignored.
SyncParentUnchecked(p) ==
    /\ pc[p] = "sync"
    /\ Return(p, "published")
    /\ synced' \in {synced, Len(journal)}
    /\ UNCHANGED <<temp, journal>>

\* POSIX: flush the parent directory; the target is already replaced.  The directory
\* cannot be opened or flushed, or it is flushed and cannot be closed.
SyncParent(p) ==
    /\ pc[p] = "sync"
    /\ \/ Return(p, "published") /\ synced' = Len(journal)
       \/ Return(p, "failed") /\ synced' \in {synced, Len(journal)}
    /\ UNCHANGED <<temp, journal>>

\* A process dies in the middle of the call; its temporary file stays.
Die(p) ==
    /\ pc[p] \notin {"done", "dead"}
    /\ pc' = [pc EXCEPT ![p] = "dead"]
    /\ UNCHANGED <<temp, journal, synced, result>>

\* What is left of a file without power: the flushed bytes at least.
Remains(f) == IF f.flushed THEN f ELSE [f EXCEPT !.size = 0]

LosePower ==
    /\ \E kept \in synced..Len(journal) :
         /\ journal' = [i \in 1..kept |-> Remains(journal[i])]
         /\ synced' = kept
    /\ pc' = [p \in Publishers |-> IF pc[p] \in {"create", "done"} THEN pc[p] ELSE "dead"]
    /\ temp' = [p \in Publishers |-> NoFile]
    /\ UNCHANGED result

Next ==
    /\ \/ \E p \in Publishers :
            Create(p) \/ Write(p) \/ Flush(p) \/ Rename(p) \/ SyncParent(p) \/ Die(p)
       \/ LosePower
    /\ UNCHANGED writeThrough

Spec == Init /\ [][Next]_vars

-----------------------------------------------------------------------------
\* A reader of the target sees a document or a torn file.
Content(f) == IF f.size = Size THEN f.doc ELSE Torn

\* The documents that have stood at the target.
History == [i \in DOMAIN journal |-> Content(journal[i])]

Reported == {p \in Publishers : result[p] = "published"}

Published == INSTANCE PublishedDocument WITH
    Documents <- Publishers,
    history <- History,
    durable <- synced,
    acked <- Reported

(***************************************************************************)
(* Publishing implements the abstract document: the target is whole at     *)
(* every moment, for readers and after a loss of power, and a reported     *)
(* document is durable when it is reported.                                *)
(***************************************************************************)
ImplementsPublishedDocument == Published!Spec

(***************************************************************************)
(* A document whose publication was reported is never lost: it stands      *)
(* among the flushed targets, under the ones published after it.           *)
(***************************************************************************)
ReportedIsDurable ==
    \A p \in Reported : \E i \in 1..synced : Content(journal[i]) = p

(***************************************************************************)
(* Two calls never share a temporary file and no caller's unfinished bytes *)
(* reach the target: whatever a reader finds there was flushed whole.      *)
(***************************************************************************)
TargetIsFlushedWhole ==
    \A i \in DOMAIN journal : journal[i].flushed /\ journal[i].size = Size

(***************************************************************************)
(* tools/audio_qa/README.md: a failed update keeps the previous version.   *)
(* A call that returned an error did not put its document at the target.   *)
(***************************************************************************)
FailureKeepsPrevious ==
    \A p \in Publishers : result[p] = "failed" =>
        \A i \in DOMAIN journal : journal[i].doc # p

(***************************************************************************)
(* publish_windows keeps that promise, whatever the other callers do: the  *)
(* rename is its last step.                                                *)
(***************************************************************************)
WriteThroughKeepsPrevious == writeThrough => FailureKeepsPrevious
=============================================================================
