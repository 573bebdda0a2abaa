------------------------------ MODULE FileProofs ------------------------------
(***************************************************************************)
(* Proofs about files that several processes touch.  DurableFile: for any  *)
(* number of concurrent publications, of any size, on POSIX and on         *)
(* Windows, what stands at the target was flushed whole, what was reported *)
(* as published is durable, and together they implement the abstract       *)
(* PublishedDocument.  FileReservations: what a session reads is what Play *)
(* prepared.  Launcher: what the Runtime of a request reads is what was    *)
(* validated, and the window shows the outcome of the last request.        *)
(***************************************************************************)
EXTENDS DurableFile, SequenceTheorems, WellFoundedInduction, TLAPS

\* A temporary file carries the document of its own publisher, and is whole and
\* flushed by the time it can be renamed.
TempIsOwn ==
    \A p \in Publishers :
        /\ pc[p] \in {"write", "rename"} => temp[p] \in Files /\ temp[p].doc = p
        /\ pc[p] = "rename" => temp[p].flushed /\ temp[p].size = Size

\* A publisher that has renamed its file finds it among the targets.
RenamedIsThere ==
    \A p \in Publishers : pc[p] = "sync" => \E i \in 1..Len(journal) : journal[i].doc = p

ReportedIsSynced == \A p \in Reported : \E i \in 1..synced : journal[i].doc = p

\* A call under way has not returned anything.
NotYetReturned ==
    \A p \in Publishers : pc[p] \in {"create", "write", "rename", "sync"} => result[p] = "none"

Inv ==
    /\ TypeOK
    /\ TempIsOwn
    /\ TargetIsFlushedWhole
    /\ RenamedIsThere
    /\ ReportedIsSynced
    /\ NotYetReturned

\* No file has been written yet.
LEMMA InvInit == Init => Inv
<1> SUFFICES ASSUME Init PROVE Inv
  OBVIOUS
<1>1. TypeOK
  BY DEF Init, TypeOK
<1>. QED  BY <1>1 DEF Init, Inv, TempIsOwn, TargetIsFlushedWhole, RenamedIsThere,
              ReportedIsSynced, Reported, NotYetReturned

\* A file that a step gives to a publisher, and the step it moves to.
LEMMA OwnFile ==
    ASSUME Inv, NEW p \in Publishers, NEW f \in Files, f.doc = p,
           NEW step \in {"write", "rename"}, step = "rename" => f.flushed /\ f.size = Size,
           temp' = [temp EXCEPT ![p] = f], pc' = [pc EXCEPT ![p] = step],
           pc[p] \in {"create", "write"}, UNCHANGED <<journal, synced, result, writeThrough>>
    PROVE  Inv' /\ Reported' = Reported
<1> USE DEF Inv
<1>1. TypeOK'
  BY DEF TypeOK
<1>2. TempIsOwn'
  BY DEF TempIsOwn, TypeOK
<1>3. TargetIsFlushedWhole'
  BY DEF TargetIsFlushedWhole
<1>4. RenamedIsThere' /\ NotYetReturned'
  BY DEF RenamedIsThere, NotYetReturned, TypeOK
<1>5. Reported' = Reported
  BY DEF Reported
<1>6. ReportedIsSynced'
  BY <1>5 DEF ReportedIsSynced
<1>. QED  BY <1>1, <1>2, <1>3, <1>4, <1>5, <1>6

\* A publisher gives up before it has touched the target.
LEMMA GivenUp ==
    ASSUME Inv, NEW p \in Publishers, pc[p] \in {"create", "write", "rename"}, GiveUp(p),
           UNCHANGED writeThrough
    PROVE  Inv' /\ Reported' = Reported
<1> USE DEF Inv
<1>1. TypeOK'
  BY DEF GiveUp, Return, TypeOK
<1>2. TempIsOwn'
  BY DEF GiveUp, Return, TypeOK, TempIsOwn
<1>3. TargetIsFlushedWhole'
  BY DEF GiveUp, TargetIsFlushedWhole
<1>4. RenamedIsThere' /\ NotYetReturned'
  BY DEF GiveUp, Return, RenamedIsThere, NotYetReturned, TypeOK
<1>5. Reported' = Reported
  BY DEF GiveUp, Return, Reported, NotYetReturned, TypeOK
<1>6. ReportedIsSynced'
  BY <1>5 DEF GiveUp, ReportedIsSynced
<1>. QED  BY <1>1, <1>2, <1>3, <1>4, <1>5, <1>6

\* Creating, writing and flushing the temporary file.
LEMMA TemporaryStep ==
    ASSUME Inv, NEW p \in Publishers, Create(p) \/ Write(p) \/ Flush(p),
           UNCHANGED writeThrough
    PROVE  /\ Inv' /\ Reported' = Reported
           /\ UNCHANGED <<journal, synced>>
<1>1. pc[p] \in {"create", "write"} /\ UNCHANGED <<journal, synced>>
  BY DEF Create, Write, Flush, GiveUp
<1>2. CASE GiveUp(p)
  BY <1>1, <1>2, GivenUp
<1>3. CASE ~GiveUp(p)
  <2>0. pc[p] = "write" => temp[p] \in Files /\ temp[p].doc = p
    BY DEF Inv, TempIsOwn
  <2>1. CASE Create(p)
    <3> DEFINE f == [doc |-> p, size |-> 0, flushed |-> FALSE]
    <3>1. f \in Files /\ f.doc = p
      BY SizeAssumption DEF Files
    <3>2. /\ temp' = [temp EXCEPT ![p] = f] /\ pc' = [pc EXCEPT ![p] = "write"]
          /\ UNCHANGED <<journal, synced, result>>
      BY <1>3, <2>1, Zenon DEF Create
    <3> HIDE DEF f
    <3>. QED  BY <1>1, <3>1, <3>2, OwnFile
  <2>2. CASE Write(p)
    <3> DEFINE f == [temp[p] EXCEPT !.size = temp[p].size + 1]
    <3>1. temp[p] \in Files /\ temp[p].doc = p /\ temp[p].size < Size
      BY <2>0, <2>2 DEF Write
    <3>2. f \in Files /\ f.doc = p
      BY <3>1, SizeAssumption DEF Files
    <3>3. /\ temp' = [temp EXCEPT ![p] = f] /\ pc' = pc
          /\ UNCHANGED <<journal, synced, result>>
      BY <1>3, <2>2, Zenon DEF Write
    <3>4. pc' = [pc EXCEPT ![p] = "write"]
      BY <2>2, <3>3 DEF Write, Inv, TypeOK
    <3> HIDE DEF f
    <3>. QED  BY <1>1, <3>2, <3>3, <3>4, OwnFile
  <2>3. CASE Flush(p)
    <3> DEFINE f == [temp[p] EXCEPT !.flushed = TRUE]
    <3>1. temp[p] \in Files /\ temp[p].doc = p /\ temp[p].size = Size
      BY <2>0, <2>3 DEF Flush
    <3>2. f \in Files
      BY <3>1, Zenon DEF Files
    <3>3. f.doc = p /\ f.flushed /\ f.size = Size
      BY <3>1, SMT DEF Files
    <3>4. /\ temp' = [temp EXCEPT ![p] = f] /\ pc' = [pc EXCEPT ![p] = "rename"]
          /\ UNCHANGED <<journal, synced, result>>
      BY <1>3, <2>3, Zenon DEF Flush
    <3> HIDE DEF f
    <3>. QED  BY <1>1, <3>2, <3>3, <3>4, OwnFile
  <2>. QED  BY <2>1, <2>2, <2>3
<1>. QED  BY <1>1, <1>2, <1>3

\* Renaming a whole file over the target adds its document to the history.
LEMMA HistoryGrows ==
    ASSUME TypeOK, NEW f \in Files, f.size = Size, journal' = Append(journal, f)
    PROVE  /\ journal' \in Seq(Files) /\ Len(journal') = Len(journal) + 1
           /\ \A i \in 1..Len(journal) : journal'[i] = journal[i]
           /\ journal'[Len(journal) + 1] = f
           /\ History' = Append(History, f.doc)
<1>1. journal \in Seq(Files)
  BY DEF TypeOK
<1>2. /\ journal' \in Seq(Files) /\ Len(journal') = Len(journal) + 1
      /\ \A i \in 1..Len(journal) : journal'[i] = journal[i]
      /\ journal'[Len(journal) + 1] = f
  BY <1>1
<1>3. /\ DOMAIN journal = 1..Len(journal) /\ DOMAIN journal' = 1..(Len(journal) + 1)
      /\ Len(journal) \in Nat
  BY <1>1, <1>2
<1>4. \A i \in DOMAIN journal : Content(journal[i]) \in Publishers \cup {Torn}
  <2>1. \A i \in DOMAIN journal : journal[i] \in Files
    BY <1>1
  <2>2. \A g \in Files : g.doc \in Publishers
    BY DEF Files
  <2>. QED  BY <2>1, <2>2 DEF Content
<1>5. History \in Seq(Publishers \cup {Torn}) /\ Len(History) = Len(journal)
  <2>1. History \in [1..Len(journal) -> Publishers \cup {Torn}]
    BY <1>3, <1>4 DEF History
  <2>. QED  BY <1>3, <2>1
<1>6. Content(f) = f.doc /\ f.doc \in Publishers
  BY DEF Content, Files
<1>7. History' = [i \in 1..(Len(journal) + 1) |-> Content(journal'[i])]
  BY <1>3 DEF History
<1>8. Append(History, f.doc) =
        [i \in 1..(Len(journal) + 1) |-> IF i <= Len(journal) THEN History[i] ELSE f.doc]
  BY <1>3, <1>5, <1>6
<1>9. \A i \in 1..(Len(journal) + 1) :
        Content(journal'[i]) = IF i <= Len(journal) THEN History[i] ELSE f.doc
  BY <1>2, <1>3, <1>6 DEF History
<1>. QED  BY <1>2, <1>7, <1>8, <1>9

\* The rename replaces the target at once; with write-through it is durable too.
LEMMA RenameStep ==
    ASSUME Inv, NEW p \in Publishers, Rename(p), UNCHANGED writeThrough
    PROVE  /\ Inv'
           /\ \/ Published!Replace(p)
              \/ Published!ReplaceThrough(p)
              \/ UNCHANGED <<journal, synced, Reported>>
<1> USE DEF Inv
<1>0. pc[p] = "rename" /\ result[p] = "none"
  BY DEF Rename, NotYetReturned
<1>1. CASE GiveUp(p)
  <2>1. Inv' /\ Reported' = Reported
    BY <1>0, <1>1, GivenUp
  <2>. QED  BY <1>1, <2>1 DEF GiveUp
<1>2. CASE ~GiveUp(p)
  <2> DEFINE f == temp[p]
  <2>1. f \in Files /\ f.doc = p /\ f.flushed /\ f.size = Size
    BY <1>0 DEF TempIsOwn
  <2>2. /\ journal' = Append(journal, f)
        /\ temp' = [temp EXCEPT ![p] = NoFile]
        /\ IF writeThrough
             THEN Return(p, "published") /\ synced' = Len(journal) + 1
             ELSE pc' = [pc EXCEPT ![p] = "sync"] /\ UNCHANGED <<synced, result>>
    BY <1>2, Zenon DEF Rename
  <2> HIDE DEF f
  <2>3. /\ journal' \in Seq(Files) /\ Len(journal') = Len(journal) + 1
        /\ \A i \in 1..Len(journal) : journal'[i] = journal[i]
        /\ journal'[Len(journal) + 1] = f
        /\ History' = Append(History, p)
    BY <2>1, <2>2, HistoryGrows
  <2>4. Len(journal) \in Nat /\ synced \in 0..Len(journal)
    BY DEF TypeOK
  <2>5. /\ pc' \in [Publishers -> {"create", "write", "rename", "sync", "done", "dead"}]
        /\ pc'[p] \in {"sync", "done"} /\ \A q \in Publishers : q # p => pc'[q] = pc[q]
    BY <2>2 DEF Return, TypeOK
  <2>6. /\ synced' \in 0..Len(journal') /\ synced <= synced'
        /\ (writeThrough => synced' = Len(journal) + 1)
        /\ (~writeThrough => synced' = synced)
    BY <2>2, <2>3, <2>4
  <2>7. /\ result' \in [Publishers -> {"none", "published", "failed"}]
        /\ Reported' = IF writeThrough THEN Reported \cup {p} ELSE Reported
        /\ \A q \in Publishers : q # p => result'[q] = result[q]
        /\ pc'[p] = "sync" => result'[p] = "none"
    BY <1>0, <2>2 DEF Return, Reported, TypeOK
  <2>8. TypeOK'
    BY <2>2, <2>3, <2>5, <2>6, <2>7 DEF TypeOK
  <2>9. TempIsOwn'
    BY <2>2, <2>5 DEF TempIsOwn, TypeOK
  <2>10. TargetIsFlushedWhole'
    BY <2>1, <2>3, <2>4 DEF TargetIsFlushedWhole, TypeOK
  <2>11. RenamedIsThere'
    <3>1. journal'[Len(journal')].doc = p /\ Len(journal') \in 1..Len(journal')
      BY <2>1, <2>3, <2>4
    <3>2. \A i \in 1..Len(journal) : i \in 1..Len(journal') /\ journal'[i] = journal[i]
      BY <2>3, <2>4
    <3>. QED  BY <2>5, <3>1, <3>2 DEF RenamedIsThere
  <2>12. ReportedIsSynced'
    <3>1. \A i \in 1..synced : i \in 1..synced' /\ journal'[i] = journal[i]
      BY <2>3, <2>4, <2>6
    <3>2. writeThrough => journal'[synced'].doc = p /\ synced' \in 1..synced'
      BY <2>1, <2>3, <2>4, <2>6
    <3>. QED  BY <2>7, <3>1, <3>2 DEF ReportedIsSynced
  <2>13. NotYetReturned'
    BY <2>5, <2>7 DEF NotYetReturned
  <2>14. CASE writeThrough
    <3>1. Len(History) = Len(journal)
      BY <2>4 DEF History, TypeOK
    <3>. QED  BY <2>3, <2>6, <2>7, <2>8, <2>9, <2>10, <2>11, <2>12, <2>13, <2>14, <3>1
             DEF Published!ReplaceThrough
  <2>15. CASE ~writeThrough
    BY <2>3, <2>6, <2>7, <2>8, <2>9, <2>10, <2>11, <2>12, <2>13, <2>15 DEF Published!Replace
  <2>. QED  BY <2>14, <2>15
<1>. QED  BY <1>1, <1>2

\* The flush of the parent directory makes every rename so far durable.
LEMMA SyncStep ==
    ASSUME Inv, NEW p \in Publishers, SyncParent(p), UNCHANGED writeThrough
    PROVE  /\ Inv'
           /\ \/ Published!Acknowledge(p)
              \/ Published!Persist
              \/ UNCHANGED <<journal, synced, Reported>>
<1> USE DEF Inv
<1>0. pc[p] = "sync" /\ result[p] = "none" /\ Len(journal) \in Nat /\ synced \in 0..Len(journal)
  BY DEF SyncParent, NotYetReturned, TypeOK
<1>1. /\ UNCHANGED <<temp, journal>> /\ pc' = [pc EXCEPT ![p] = "done"]
      /\ \/ result' = [result EXCEPT ![p] = "published"] /\ synced' = Len(journal)
         \/ result' = [result EXCEPT ![p] = "failed"] /\ synced' \in {synced, Len(journal)}
  BY DEF SyncParent, Return
<1>2. TypeOK' /\ synced <= synced'
  BY <1>0, <1>1 DEF TypeOK
<1>3. TempIsOwn' /\ TargetIsFlushedWhole' /\ RenamedIsThere' /\ NotYetReturned'
  BY <1>1 DEF TempIsOwn, TargetIsFlushedWhole, RenamedIsThere, NotYetReturned, TypeOK
<1>4. \/ Reported' = Reported /\ synced' \in {synced, Len(journal)}
      \/ Reported' = Reported \cup {p} /\ synced' = Len(journal)
  BY <1>0, <1>1 DEF Reported, TypeOK
<1>5. PICK i \in 1..Len(journal) : journal[i].doc = p
  BY <1>0 DEF RenamedIsThere
<1>6. ReportedIsSynced'
  <2>1. \A k \in 1..synced : k \in 1..synced'
    BY <1>0, <1>4
  <2>. QED  BY <1>0, <1>1, <1>4, <1>5, <2>1 DEF ReportedIsSynced
<1>7. /\ Len(History) = Len(journal) /\ History' = History
      /\ i \in 1..Len(History) /\ History[i] = p
  BY <1>0, <1>1, <1>5 DEF History, Content, TargetIsFlushedWhole, TypeOK
<1>. QED  BY <1>1, <1>2, <1>3, <1>4, <1>6, <1>7 DEF Published!Acknowledge, Published!Persist

\* A loss of power undoes the latest renames that were not flushed, and no bytes.
LEMMA PowerStep ==
    ASSUME Inv, LosePower, UNCHANGED writeThrough
    PROVE  Inv' /\ Published!LosePower
<1> USE DEF Inv
<1>1. PICK kept \in synced..Len(journal) :
         /\ journal' = [i \in 1..kept |-> Remains(journal[i])]
         /\ synced' = kept
  BY DEF LosePower
<1>2. /\ Len(journal) \in Nat /\ synced \in 0..Len(journal) /\ kept \in 0..Len(journal)
      /\ DOMAIN journal = 1..Len(journal) /\ synced <= kept
      /\ \A i \in 1..Len(journal) : journal[i] \in Files
  BY DEF TypeOK
<1>3. \A i \in 1..kept : i \in 1..Len(journal) /\ Remains(journal[i]) = journal[i]
  BY <1>2 DEF Remains, TargetIsFlushedWhole
<1>4. journal' = [i \in 1..kept |-> journal[i]]
  BY <1>1, <1>3
<1>5. journal' \in Seq(Files) /\ Len(journal') = kept /\ DOMAIN journal' = 1..kept
  <2>1. journal' \in [1..kept -> Files]
    BY <1>2, <1>3, <1>4
  <2>. QED  BY <1>2, <2>1
<1>6. /\ \A p \in Publishers : pc'[p] \in {"create", "done", "dead"}
      /\ \A p \in Publishers : pc'[p] = "create" => pc[p] = "create"
      /\ pc' \in [Publishers -> {"create", "write", "rename", "sync", "done", "dead"}]
      /\ temp' \in [Publishers -> Files \cup {NoFile}]
      /\ result' = result
  BY DEF LosePower, TypeOK
<1>7. TypeOK'
  BY <1>1, <1>2, <1>5, <1>6 DEF TypeOK
<1>8. TempIsOwn' /\ RenamedIsThere' /\ NotYetReturned'
  BY <1>6 DEF TempIsOwn, RenamedIsThere, NotYetReturned
<1>9. TargetIsFlushedWhole'
  BY <1>2, <1>3, <1>4, <1>5 DEF TargetIsFlushedWhole
<1>10. Reported' = Reported
  BY <1>6 DEF Reported
<1>11. ReportedIsSynced'
  BY <1>1, <1>2, <1>4, <1>10 DEF ReportedIsSynced
<1>12. Published!LosePower
  <2>1. History' = [i \in 1..kept |-> Content(journal[i])]
    BY <1>4, <1>5 DEF History
  <2>2. SubSeq(History, 1, kept) = [i \in 1..kept |-> Content(journal[i])]
    BY <1>2, <1>3 DEF History
  <2>3. Len(History) = Len(journal)
    BY <1>2 DEF History
  <2>. QED  BY <1>1, <1>10, <2>1, <2>2, <2>3 DEF Published!LosePower
<1>. QED  BY <1>7, <1>8, <1>9, <1>11, <1>12

\* A process that dies leaves the target as it was.
LEMMA DieStep ==
    ASSUME Inv, NEW p \in Publishers, Die(p), UNCHANGED writeThrough
    PROVE  Inv' /\ UNCHANGED <<journal, synced, Reported>>
<1> USE DEF Inv
<1>1. TypeOK' /\ Reported' = Reported
  BY DEF Die, TypeOK, Reported
<1>. QED  BY <1>1 DEF Die, TypeOK, TempIsOwn, TargetIsFlushedWhole, RenamedIsThere,
              ReportedIsSynced, NotYetReturned

\* Every step keeps the invariant and is a step of the abstract document.
LEMMA InvStep ==
    ASSUME Inv, [Next]_vars
    PROVE  Inv' /\ [Published!Next]_(Published!vars)
<1>1. CASE UNCHANGED vars
  BY <1>1 DEF vars, Inv, TypeOK, TempIsOwn, TargetIsFlushedWhole, RenamedIsThere,
              ReportedIsSynced, NotYetReturned, Reported, History, Published!vars
<1>2. ASSUME Inv', UNCHANGED <<journal, synced, Reported>>
      PROVE  UNCHANGED Published!vars
  BY <1>2 DEF History, Published!vars
<1>3. CASE Next
  BY <1>2, <1>3, TemporaryStep, RenameStep, SyncStep, DieStep, PowerStep
     DEF Next, Published!Next
<1>. QED  BY <1>1, <1>3

(***************************************************************************)
(* Whatever stands at the target was flushed whole, for readers and after  *)
(* any loss of power.                                                      *)
(***************************************************************************)
THEOREM TargetAlwaysWhole == Spec => []TargetIsFlushedWhole
<1>1. Inv => TargetIsFlushedWhole
  BY DEF Inv
<1>. QED  BY InvInit, InvStep, <1>1, PTL DEF Spec

(***************************************************************************)
(* A document whose publication was reported is durable from then on.      *)
(***************************************************************************)
THEOREM ReportedStaysDurable == Spec => []ReportedIsDurable
<1>1. Inv => ReportedIsDurable
  <2> SUFFICES ASSUME Inv, NEW p \in Reported
               PROVE  \E i \in 1..synced : Content(journal[i]) = p
    BY DEF ReportedIsDurable
  <2>1. PICK i \in 1..synced : journal[i].doc = p
    BY DEF Inv, ReportedIsSynced
  <2>2. i \in DOMAIN journal
    BY DEF Inv, TypeOK
  <2>. QED  BY <2>1, <2>2 DEF Inv, TargetIsFlushedWhole, Content
<1>. QED  BY InvInit, InvStep, <1>1, PTL DEF Spec

(***************************************************************************)
(* publish_durable_file implements the abstract published document.        *)
(***************************************************************************)
THEOREM Implementation == Spec => ImplementsPublishedDocument
<1>1. Init => Published!Init
  BY DEF Init, Published!Init, History, Reported
<1>. QED  BY <1>1, InvInit, InvStep, PTL DEF Spec, Published!Spec, ImplementsPublishedDocument

-----------------------------------------------------------------------------
\* With write-through nobody waits for a flush of the directory, and every file that
\* reached the target was reported.
RenamedIsReported ==
    writeThrough =>
        /\ \A p \in Publishers : pc[p] # "sync"
        /\ \A i \in 1..Len(journal) : result[journal[i].doc] = "published"

\* A call that gives up has reported nothing, so its file is not at the target.
LEMMA GivenUpIsNotThere ==
    ASSUME Inv, RenamedIsReported, NEW p \in Publishers,
           pc[p] \in {"create", "write", "rename"}, GiveUp(p),
           UNCHANGED writeThrough
    PROVE  RenamedIsReported'
<1>1. /\ result[p] = "none" /\ journal' = journal
      /\ \A q \in Publishers : q # p => result'[q] = result[q]
      /\ \A q \in Publishers : pc'[q] \in {pc[q], "done"}
  BY DEF Inv, NotYetReturned, GiveUp, Return, TypeOK
<1>2. \A i \in 1..Len(journal) : journal[i].doc \in Publishers
  <2>1. \A i \in 1..Len(journal) : journal[i] \in Files
    BY DEF Inv, TypeOK
  <2>. QED  BY <2>1 DEF Files
<1>. QED  BY <1>1, <1>2 DEF RenamedIsReported

\* Every step keeps it: with write-through the rename is the last step of a call.
LEMMA RenamedIsReportedStep ==
    ASSUME Inv, RenamedIsReported, [Next]_vars
    PROVE  RenamedIsReported'
<1>1. CASE UNCHANGED vars
  BY <1>1 DEF vars, RenamedIsReported
<1>2. ASSUME NEW p \in Publishers, Create(p) \/ Write(p) \/ Flush(p), UNCHANGED writeThrough
      PROVE  RenamedIsReported'
  <2>1. CASE GiveUp(p)
    BY <1>2, <2>1, GivenUpIsNotThere DEF Create, Write, Flush
  <2>2. CASE ~GiveUp(p)
    <3>1. /\ UNCHANGED <<journal, result>>
          /\ \A q \in Publishers : pc'[q] = pc[q] \/ pc'[q] # "sync"
      BY <1>2, <2>2 DEF Create, Write, Flush, Inv, TypeOK
    <3>. QED  BY <1>2, <3>1 DEF RenamedIsReported
  <2>. QED  BY <2>1, <2>2
<1>3. ASSUME NEW p \in Publishers, Rename(p), UNCHANGED writeThrough
      PROVE  RenamedIsReported'
  <2>1. CASE GiveUp(p)
    BY <1>3, <2>1, GivenUpIsNotThere DEF Rename
  <2>2. CASE ~GiveUp(p) /\ writeThrough
    <3>1. /\ journal' = Append(journal, temp[p]) /\ Return(p, "published")
          /\ temp[p] \in Files /\ temp[p].doc = p
      BY <1>3, <2>2, Zenon DEF Rename, Inv, TempIsOwn
    <3>2. /\ Len(journal') = Len(journal) + 1 /\ Len(journal) \in Nat
          /\ \A i \in 1..Len(journal) : journal'[i] = journal[i]
          /\ journal'[Len(journal) + 1] = temp[p]
      BY <3>1 DEF Inv, TypeOK
    <3>3. /\ result'[p] = "published" /\ \A q \in Publishers : pc'[q] \in {pc[q], "done"}
          /\ \A d : result[d] = "published" => result'[d] = "published"
      BY <3>1 DEF Return, Inv, TypeOK
    <3>4. \A i \in 1..Len(journal') : result'[journal'[i].doc] = "published"
      BY <2>2, <3>1, <3>2, <3>3 DEF RenamedIsReported
    <3>. QED  BY <2>2, <3>3, <3>4 DEF RenamedIsReported
  <2>. QED  BY <1>3, <2>1, <2>2 DEF RenamedIsReported
<1>4. ASSUME NEW p \in Publishers, SyncParent(p), UNCHANGED writeThrough
      PROVE  RenamedIsReported'
  BY <1>4 DEF SyncParent, RenamedIsReported
<1>5. ASSUME NEW p \in Publishers, Die(p), UNCHANGED writeThrough
      PROVE  RenamedIsReported'
  BY <1>5 DEF Die, RenamedIsReported, Inv, TypeOK
<1>6. ASSUME LosePower, UNCHANGED writeThrough
      PROVE  RenamedIsReported'
  <2>1. PICK kept \in synced..Len(journal) : journal' = [i \in 1..kept |-> Remains(journal[i])]
    BY <1>6 DEF LosePower
  <2>2. /\ kept \in Nat /\ kept <= Len(journal) /\ Len(journal) \in Nat
    BY DEF Inv, TypeOK
  <2>3. \A i \in 1..kept : i \in 1..Len(journal) /\ Remains(journal[i]) = journal[i]
    BY <2>2 DEF Remains, Inv, TargetIsFlushedWhole, TypeOK
  <2>4. Len(journal') = kept /\ \A i \in 1..kept : journal'[i] = journal[i]
    BY <2>1, <2>2, <2>3
  <2>5. result' = result /\ \A p \in Publishers : pc'[p] = pc[p] \/ pc'[p] = "dead"
    BY <1>6 DEF LosePower
  <2>. QED  BY <1>6, <2>3, <2>4, <2>5 DEF RenamedIsReported
<1>. QED  BY <1>1, <1>2, <1>3, <1>4, <1>5, <1>6 DEF Next

(***************************************************************************)
(* Where the rename is written through, as in publish_windows, a call that *)
(* returned an error never put its document at the target.                 *)
(***************************************************************************)
THEOREM WriteThroughFailureIsClean == Spec => []WriteThroughKeepsPrevious
<1>1. Init => RenamedIsReported
  BY DEF Init, RenamedIsReported
<1>2. Inv /\ RenamedIsReported => WriteThroughKeepsPrevious
  BY DEF Inv, TypeOK, RenamedIsReported, WriteThroughKeepsPrevious, FailureKeepsPrevious
<1>. QED  BY InvInit, InvStep, RenamedIsReportedStep, <1>1, <1>2, PTL DEF Spec

-----------------------------------------------------------------------------
\* Reserved files (FileReservations).  With a journal every change of a file is one more file
\* at its path or one more entry about it, so that a revision names the content.

CONSTANTS Journal, MaxEdits
VARIABLES disk, editor, token, expected, held, stage, read, edits

Reserved == INSTANCE FileReservations WITH pc <- stage

Kept == Reserved!Files
Revisions == [index : Nat, size : Nat, time : Nat, usn : Nat]
Contents == [index : Nat, size : Nat, time : Nat, usn : Nat, content : Nat]

ReservedTyped ==
    /\ disk \in [Kept -> Contents] /\ token \in [Kept -> Revisions]
    /\ expected \in [Kept -> Nat] /\ read \in [Kept -> Nat]
    /\ held \subseteq Kept /\ editor \subseteq Kept
    /\ stage \in {"preparing", "rom", "pack", "playing", "refused", "ended"}

\* The content of a file is the number of its changes, which its revision counts.
Counted ==
    \A f \in Kept : disk[f].index # 0 /\ disk[f].content + 1 = disk[f].index + disk[f].usn

\* A revision Play asked for is of the content it prepared with, or the file has changed since.
Asked ==
    \A f \in Kept : token[f] # Reserved!NoToken =>
        /\ stage # "preparing" /\ expected[f] + 1 = token[f].index + token[f].usn

\* A file is held from its reservation to the end, nobody writes into it, and it has the revision.
HeldUntilTheEnd ==
    /\ held \cap editor = {}
    /\ stage = "pack" => "rom" \in held
    /\ stage = "playing" => held = Kept
    /\ stage \notin {"pack", "playing"} => held = {}
    /\ \A f \in held : token[f] \in {Reserved!NoToken, Reserved!Revision(disk[f])}

\* Nothing is read before the session has started.
ReadInPlay == stage \notin {"playing", "ended"} => \A f \in Kept : read[f] = 0

ReservedInv ==
    /\ ReservedTyped /\ Counted /\ Asked /\ HeldUntilTheEnd /\ ReadInPlay
    /\ Reserved!PlayedIsPrepared

LEMMA ReservedStarts == Reserved!Init => ReservedInv
  BY DEF Reserved!Init, ReservedInv, ReservedTyped, Counted, Asked, HeldUntilTheEnd, ReadInPlay,
         Reserved!PlayedIsPrepared, Kept, Revisions, Contents, Reserved!NoToken

\* A held file still has the content Play prepared with.
LEMMA HeldIsPrepared ==
    ASSUME Journal, ReservedInv, NEW f \in held, token[f] # Reserved!NoToken
    PROVE  disk[f].content = expected[f]
<1>1. f \in Kept /\ token[f] = Reserved!Revision(disk[f]) /\ disk[f] \in Contents
      /\ expected[f] \in Nat
  BY DEF ReservedInv, ReservedTyped, HeldUntilTheEnd
<1>2. token[f].index = disk[f].index /\ token[f].usn = disk[f].usn
  BY <1>1 DEF Reserved!Revision
<1>3. /\ expected[f] + 1 = token[f].index + token[f].usn
      /\ disk[f].content + 1 = disk[f].index + disk[f].usn
  BY <1>1 DEF ReservedInv, Asked, Counted
<1>. QED  BY <1>1, <1>2, <1>3 DEF Contents

LEMMA PreparedKeeps ==
    ASSUME Journal, ReservedInv, Reserved!Prepare
    PROVE  ReservedInv'
<1> USE DEF ReservedInv, ReservedTyped
<1>1. /\ stage = "preparing" /\ stage' = "rom"
      /\ UNCHANGED <<disk, editor, held, read, edits>>
      /\ expected' = [f \in Kept |-> disk[f].content]
  BY DEF Reserved!Prepare, Kept
<1>2. PICK asked : token' = [f \in Kept |-> IF f \in asked THEN Reserved!Revision(disk[f])
                                          ELSE Reserved!NoToken]
  BY DEF Reserved!Prepare, Kept
<1>3. ASSUME NEW f \in Kept
      PROVE  /\ Reserved!Revision(disk[f]) \in Revisions /\ Reserved!NoToken \in Revisions
             /\ Reserved!Revision(disk[f]).index = disk[f].index
             /\ Reserved!Revision(disk[f]).usn = disk[f].usn
             /\ disk[f].content \in Nat
  <2>1. disk[f] \in Contents
    OBVIOUS
  <2>. QED  BY <2>1 DEF Contents, Revisions, Reserved!Revision, Reserved!NoToken
<1>4. ReservedTyped'
  BY <1>1, <1>2, <1>3
<1>5. Asked'
  BY <1>1, <1>2, <1>3 DEF Asked, Counted
<1>6. Counted' /\ HeldUntilTheEnd' /\ ReadInPlay' /\ Reserved!PlayedIsPrepared'
  BY <1>1 DEF Counted, HeldUntilTheEnd, ReadInPlay, Reserved!PlayedIsPrepared
<1>. QED  BY <1>4, <1>5, <1>6

LEMMA ReservationKeeps ==
    ASSUME ReservedInv, NEW f \in Kept, NEW next,
           <<f, next>> \in {<<"rom", "pack">>, <<"pack", "playing">>},
           Reserved!Reserve(f, next)
    PROVE  ReservedInv'
<1>1. stage = f /\ UNCHANGED <<disk, editor, token, expected, read, edits>>
  BY DEF Reserved!Reserve
<1>2. CASE /\ f \notin editor /\ token[f] \in {Reserved!NoToken, Reserved!Revision(disk[f])}
           /\ held' = held \cup {f} /\ stage' = next
  BY <1>1, <1>2 DEF ReservedInv, ReservedTyped, Counted, Asked, HeldUntilTheEnd, ReadInPlay,
                    Reserved!PlayedIsPrepared, Kept, Reserved!Files
<1>3. CASE held' = {} /\ stage' = "refused"
  BY <1>1, <1>3 DEF ReservedInv, ReservedTyped, Counted, Asked, HeldUntilTheEnd, ReadInPlay,
                    Reserved!PlayedIsPrepared
<1>. QED  BY <1>2, <1>3 DEF Reserved!Reserve

LEMMA ReadKeeps ==
    ASSUME Journal, ReservedInv, NEW f \in Kept, Reserved!ReadFile(f)
    PROVE  ReservedInv'
<1>1. /\ stage = "playing" /\ read' = [read EXCEPT ![f] = disk[f].content]
      /\ UNCHANGED <<disk, editor, token, expected, held, stage, edits>>
  BY DEF Reserved!ReadFile
<1>2. f \in held /\ disk[f].content \in Nat
  BY <1>1 DEF ReservedInv, ReservedTyped, HeldUntilTheEnd, Contents
<1>3. token[f] # Reserved!NoToken => disk[f].content = expected[f]
  BY <1>2, HeldIsPrepared
<1>4. Reserved!PlayedIsPrepared'
  BY <1>1, <1>3 DEF ReservedInv, ReservedTyped, Reserved!PlayedIsPrepared, Kept
<1>. QED  BY <1>1, <1>2, <1>4 DEF ReservedInv, ReservedTyped, Counted, Asked, HeldUntilTheEnd,
                                  ReadInPlay

\* Whoever edits or replaces a file changes one that nobody holds.
LEMMA EditKeeps ==
    ASSUME ReservedInv, NEW f \in Kept, Reserved!Edit(f) \/ Reserved!Replace(f)
    PROVE  ReservedInv'
<1>1. f \notin held /\ UNCHANGED <<editor, token, expected, held, stage, read>>
  BY DEF Reserved!Edit, Reserved!Replace, ReservedInv, HeldUntilTheEnd
<1>2. disk[f] \in Contents
  BY DEF ReservedInv, ReservedTyped
<1>3. disk[f].index # 0 /\ disk[f].content + 1 = disk[f].index + disk[f].usn
  BY DEF ReservedInv, Counted
<1>4. /\ disk' \in [Kept -> Contents] /\ disk'[f].index # 0
      /\ disk'[f].content + 1 = disk'[f].index + disk'[f].usn
      /\ \A g \in Kept \ {f} : disk'[g] = disk[g]
  <2>1. disk \in [Kept -> Contents]
    BY DEF ReservedInv, ReservedTyped
  <2>2. CASE Reserved!Edit(f)
    <3>1. PICK size \in 1..2, time \in 1..2 :
            disk' = [disk EXCEPT ![f].size = size, ![f].time = time,
                                 ![f].usn = @ + 1, ![f].content = @ + 1]
      BY <2>2 DEF Reserved!Edit
    <3>. QED  BY <1>2, <1>3, <2>1, <3>1 DEF Contents
  <2>3. CASE Reserved!Replace(f)
    BY <1>2, <1>3, <2>1, <2>3 DEF Contents, Reserved!Replace
  <2>. QED  BY <2>2, <2>3
<1>5. ReservedTyped' /\ Counted'
  BY <1>1, <1>4 DEF ReservedInv, ReservedTyped, Counted
<1>6. HeldUntilTheEnd'
  BY <1>1, <1>4 DEF ReservedInv, ReservedTyped, HeldUntilTheEnd
<1>. QED  BY <1>1, <1>5, <1>6 DEF ReservedInv, Asked, ReadInPlay, Reserved!PlayedIsPrepared

\* The rest opens and closes files.
LEMMA HandlesKeep ==
    ASSUME ReservedInv,
           \/ Reserved!EndSession
           \/ \E f \in Kept : Reserved!OpenForWriting(f) \/ Reserved!CloseEditor(f)
           \/ UNCHANGED Reserved!vars
    PROVE  ReservedInv'
<1>1. CASE Reserved!EndSession
  BY <1>1 DEF Reserved!EndSession, ReservedInv, ReservedTyped, Counted, Asked, HeldUntilTheEnd,
              ReadInPlay, Reserved!PlayedIsPrepared
<1>2. CASE \E f \in Kept : Reserved!OpenForWriting(f) \/ Reserved!CloseEditor(f)
  BY <1>2 DEF Reserved!OpenForWriting, Reserved!CloseEditor, ReservedInv, ReservedTyped, Counted,
              Asked, HeldUntilTheEnd, ReadInPlay, Reserved!PlayedIsPrepared
<1>3. CASE UNCHANGED Reserved!vars
  BY <1>3 DEF Reserved!vars, ReservedInv, ReservedTyped, Counted, Asked, HeldUntilTheEnd,
              ReadInPlay, Reserved!PlayedIsPrepared
<1>. QED  BY <1>1, <1>2, <1>3

LEMMA ReservedStep ==
    ASSUME Journal
    PROVE  ReservedInv /\ [Reserved!Next]_(Reserved!vars) => ReservedInv'
<1> SUFFICES ASSUME ReservedInv, [Reserved!Next]_(Reserved!vars)  PROVE ReservedInv'
  OBVIOUS
<1>1. "rom" \in Kept /\ "pack" \in Kept
  BY DEF Kept, Reserved!Files
<1>2. CASE Reserved!Prepare
  BY <1>2, PreparedKeeps
<1>3. CASE Reserved!Reserve("rom", "pack")
  BY <1>1, <1>3, ReservationKeeps
<1>4. CASE Reserved!Reserve("pack", "playing")
  BY <1>1, <1>4, ReservationKeeps
<1>5. ASSUME NEW f \in Kept, Reserved!ReadFile(f)  PROVE ReservedInv'
  BY <1>5, ReadKeeps
<1>6. ASSUME NEW f \in Kept, Reserved!Edit(f) \/ Reserved!Replace(f)  PROVE ReservedInv'
  BY <1>6, EditKeeps
<1>7. CASE \/ Reserved!EndSession
           \/ \E f \in Kept : Reserved!OpenForWriting(f) \/ Reserved!CloseEditor(f)
           \/ UNCHANGED Reserved!vars
  BY <1>7, HandlesKeep
<1>. QED  BY <1>2, <1>3, <1>4, <1>5, <1>6, <1>7, Zenon DEF Reserved!Next, Kept

\* On a volume with a journal, what a session reads of a file with a revision is what Play
\* prepared with, whoever edits or replaces the files, and as often (FileReservation).
THEOREM ReservedIsPrepared ==
    ASSUME Journal
    PROVE  Reserved!Spec => []Reserved!PlayedIsPrepared
<1>1. ReservedInv => Reserved!PlayedIsPrepared
  BY DEF ReservedInv
<1>. QED  BY <1>1, ReservedStarts, ReservedStep, PTL DEF Reserved!Spec

-----------------------------------------------------------------------------
\* The launcher (Launcher, Materials).

CONSTANTS Forms, MaxChanges, MaxTyped, MaxStarts
VARIABLES folder, changes, form, typed, env, dirty, issues, active, results, open, dialogs, ui,
          worker, running, queue

Launch == INSTANCE Launcher WITH disk <- folder, edits <- typed, MaxEdits <- MaxTyped

\* What the window makes of the events it drains.

\* A nonempty set of numbers has a least one.
LEMMA LeastNumber ==
    ASSUME NEW S, S \subseteq Nat, S # {}
    PROVE  \E n \in S : \A m \in S : n <= m
<1>1. PICK n \in S : \A m \in S : <<m, n>> \notin OpToRel(<, Nat)
  BY NatLessThanWellFounded, WFMin
<1>2. \A m \in S : ~(m < n)
  BY <1>1 DEF OpToRel
<1>. QED  BY <1>2

\* A nonempty set of positions has a last one.
LEMMA LastPosition ==
    ASSUME NEW n \in Nat, NEW S, S \subseteq 1..n, S # {}
    PROVE  /\ Launch!Max(S) \in S /\ \A x \in S : x <= Launch!Max(S)
<1> DEFINE left == {n - x : x \in S}
<1>1. left \subseteq Nat /\ left # {}
  <2>1. \A x \in S : n - x \in Nat
    OBVIOUS
  <2>2. PICK x \in S : TRUE
    OBVIOUS
  <2>3. n - x \in left
    BY <2>2
  <2>. QED  BY <2>1, <2>3
<1>2. PICK least \in left : \A m \in left : least <= m
  BY <1>1, LeastNumber
<1>3. PICK x \in S : least = n - x
  BY <1>2
<1>4. \A y \in S : x >= y
  <2>1. ASSUME NEW y \in S  PROVE x >= y
    <3>1. n - x <= n - y
      BY <1>2, <1>3
    <3>. QED  BY <3>1
  <2>. QED  BY <2>1
<1>5. Launch!Max(S) \in S /\ \A y \in S : Launch!Max(S) >= y
  BY <1>4 DEF Launch!Max
<1>. QED  BY <1>5

\* The fold of the events, as a function of the positions folded.
Folding(s, q, g) ==
    [t \in SUBSET (DOMAIN q) |->
        IF t = {} THEN s ELSE Launch!Shown(g[t \ {Launch!Max(t)}], q[Launch!Max(t)])]

\* Outcomes are numbers other than Closed; the last one stays, and any event ends the request.
LEMMA FoldingExists ==
    ASSUME NEW s, NEW a, NEW b, s = [active |-> a, results |-> b], NEW q \in Seq(Nat)
    PROVE  \E g : g = Folding(s, q, g)
<1> DEFINE outcomes(t) == {k \in t : q[k] # Launch!Closed}
           g == [t \in SUBSET (DOMAIN q) |->
                    IF t = {} THEN s
                    ELSE [active |-> FALSE,
                          results |-> IF outcomes(t) = {} THEN b
                                      ELSE q[Launch!Max(outcomes(t))]]]
<1>1. Len(q) \in Nat /\ DOMAIN q = 1..Len(q)
  BY LenProperties
<1>2. ASSUME NEW t \in SUBSET (DOMAIN q), t # {}
      PROVE  g[t] = Launch!Shown(g[t \ {Launch!Max(t)}], q[Launch!Max(t)])
  <2> DEFINE m == Launch!Max(t)
             rest == t \ {m}
  <2>1. m \in t /\ \A x \in t : x <= m
    BY <1>1, <1>2, LastPosition
  <2> HIDE DEF m
  <2>2. CASE q[m] # Launch!Closed
    <3>1. m \in outcomes(t) /\ outcomes(t) \subseteq 1..Len(q)
      BY <1>1, <2>1, <2>2
    <3>2. Launch!Max(outcomes(t)) \in outcomes(t) /\ m <= Launch!Max(outcomes(t))
      BY <1>1, <3>1, LastPosition
    <3>3. Launch!Max(outcomes(t)) = m
      BY <1>1, <2>1, <3>1, <3>2
    <3>4. g[t] = [active |-> FALSE, results |-> q[m]]
      BY <1>2, <3>1, <3>3
    <3>. QED  BY <2>2, <3>4 DEF Launch!Shown, m
  <2>3. CASE q[m] = Launch!Closed
    <3>1. outcomes(rest) = outcomes(t) /\ rest \in SUBSET (DOMAIN q)
      BY <2>1, <2>3
    <3> DEFINE r == IF outcomes(t) = {} THEN b ELSE q[Launch!Max(outcomes(t))]
               old == g[rest]
    <3>2. g[t] = [active |-> FALSE, results |-> r]
      BY <1>2
    <3>3. old.results = r
      <4>1. CASE rest = {}
        <5>1. outcomes(t) = {}
          BY <3>1, <4>1
        <5>. QED  BY <3>1, <4>1, <5>1
      <4>2. CASE rest # {}
        BY <3>1, <4>2
      <4>. QED  BY <4>1, <4>2
    <3> HIDE DEF g, r, old
    <3>. QED  BY <2>3, <3>2, <3>3 DEF Launch!Shown, m, old
  <2>. QED  BY <2>2, <2>3
<1>3. g[{}] = s
  OBVIOUS
<1>4. g = [t \in SUBSET (DOMAIN q) |-> g[t]]
  OBVIOUS
<1> HIDE DEF g
<1>5. g = Folding(s, q, g)
  BY <1>2, <1>3, <1>4 DEF Folding
<1>. QED  BY <1>5

\* Events that end with an outcome: it is shown, and the request is over.
LEMMA DrainShowsTheLast ==
    ASSUME NEW s, NEW a, NEW b, s = [active |-> a, results |-> b], NEW q \in Seq(Nat), q # << >>,
           q[Len(q)] # Launch!Closed
    PROVE  Launch!FoldLeft(Launch!Shown, s, q) = [active |-> FALSE, results |-> q[Len(q)]]
<1> DEFINE g == CHOOSE f : f = Folding(s, q, f)
           all == DOMAIN q
<1>1. g = Folding(s, q, g)
  BY FoldingExists
<1>2. Launch!FoldLeft(Launch!Shown, s, q) = g[all]
  BY DEF Launch!FoldLeft, Launch!MapThenFoldSet, Folding
<1> HIDE DEF g
<1>3. Len(q) \in Nat /\ all = 1..Len(q) /\ Len(q) # 0
  BY LenProperties, EmptySeq
<1>4. all # {} /\ all \subseteq 1..Len(q) /\ Len(q) \in all
  BY <1>3
<1>5. Launch!Max(all) = Len(q)
  <2>1. Launch!Max(all) \in all /\ Len(q) <= Launch!Max(all)
    BY <1>3, <1>4, LastPosition
  <2>. QED  BY <1>3, <2>1
<1>6. g[all] = Launch!Shown(g[all \ {Len(q)}], q[Len(q)])
  BY <1>1, <1>4, <1>5 DEF Folding
<1>. QED  BY <1>2, <1>6 DEF Launch!Shown

\* Without events nothing changes.
LEMMA DrainNothing ==
    ASSUME NEW s, NEW a, NEW b, s = [active |-> a, results |-> b], NEW q \in Seq(Nat), q = << >>
    PROVE  Launch!FoldLeft(Launch!Shown, s, q) = s
<1> DEFINE g == CHOOSE f : f = Folding(s, q, f)
           all == DOMAIN q
<1>1. g = Folding(s, q, g)
  BY FoldingExists
<1>2. Launch!FoldLeft(Launch!Shown, s, q) = g[all]
  BY DEF Launch!FoldLeft, Launch!MapThenFoldSet, Folding
<1> HIDE DEF g
<1>3. all = {}
  BY LenProperties, EmptySeq
<1>. QED  BY <1>1, <1>2, <1>3 DEF Folding

-----------------------------------------------------------------------------
\* The request: its files are held while the Runtime reads them, and its outcome is the last
\* event until the window shows it.

IsWorker(w) ==
    w \in [pc : {w.pc}, n : {w.n}, req : {w.req}, pins : {w.pins}, bad : {w.bad}, slot : {w.slot},
           cancel : {w.cancel}, stop : {w.stop}, held : {w.held}]

RequestTyped ==
    /\ IsWorker(worker) /\ worker.n \in Nat /\ queue \in Seq(Nat)
    /\ folder \in [Launch!Roles -> Launch!Contents]
    /\ running <=> worker.pc # "idle"

\* The issues of the pins are known before the probes.
PinsAreJudged ==
    worker.pc = "probe" => (worker.bad <=> Launch!PinIssues(worker.req, worker.pins) # {})

\* The files of the slot are the pinned ones, and held.
SlotIsHeld ==
    worker.pc = "runtime" =>
        /\ worker.held = Launch!Held
        /\ \A r \in worker.held : Launch!HoldCode(r, worker.pins, folder) = ""

\* The outcome of a request that is over is the last event, or shown.
LastIsShown ==
    worker.pc \in {"clear", "idle"} /\ worker.n # 0 =>
        IF queue = << >> THEN ~active /\ results = worker.n ELSE queue[Len(queue)] = worker.n

RequestInv == RequestTyped /\ PinsAreJudged /\ SlotIsHeld /\ LastIsShown

\* What the thread makes of its worker.
LEMMA IsCancelled ==
    ASSUME NEW w, IsWorker(w), NEW v, v = [w EXCEPT !.cancel = TRUE]
    PROVE  /\ IsWorker(v) /\ v.pc = w.pc /\ v.n = w.n /\ v.req = w.req /\ v.pins = w.pins
           /\ v.bad = w.bad /\ v.slot = w.slot /\ v.held = w.held
  BY Zenon DEF IsWorker

LEMMA SlotIsDone ==
    ASSUME IsWorker(worker), NEW stop
    PROVE  IsWorker(Launch!SlotDone(stop)) /\ Launch!SlotDone(stop).n = worker.n
<1> DEFINE w == worker
           slot == w.slot + 1
           v == [w EXCEPT !.slot = slot, !.held = {}, !.stop = stop]
<1>1. Launch!SlotDone(stop) = v
  BY DEF Launch!SlotDone
<1>2. IsWorker(v) /\ v.n = w.n
  BY Zenon DEF IsWorker
<1> HIDE DEF v
<1>. QED  BY <1>1, <1>2

\* A worker at rest.
LEMMA IsIdle == IsWorker(Launch!Idle) /\ Launch!Idle.pc = "idle" /\ Launch!Idle.n = 0
  BY Zenon DEF Launch!Idle, IsWorker

LEMMA Rests ==
    ASSUME NEW n, NEW v, v = [Launch!Idle EXCEPT !.n = n]
    PROVE  IsWorker(v) /\ v.pc = "idle" /\ v.n = n
<1> DEFINE w == Launch!Idle
<1>1. IsWorker(w) /\ w.pc = "idle" /\ v = [w EXCEPT !.n = n]
  BY IsIdle
<1> HIDE DEF w
<1>. QED  BY <1>1, Zenon DEF IsWorker

LEMMA RequestStarts == Launch!Init => RequestInv
<1> SUFFICES ASSUME Launch!Init  PROVE RequestInv
  OBVIOUS
<1>1. IsWorker(worker) /\ worker.pc = "idle" /\ worker.n = 0
  BY IsIdle DEF Launch!Init
<1>2. folder \in [Launch!Roles -> Launch!Contents]
  BY DEF Launch!Init, Launch!Roles, Launch!Contents, Launch!Readable, Launch!Usable
<1>3. queue = << >> /\ ~running
  BY DEF Launch!Init
<1>. QED  BY <1>1, <1>2, <1>3
          DEF RequestInv, RequestTyped, PinsAreJudged, SlotIsHeld, LastIsShown

\* What the interface thread does without the runner.
LEMMA RestKeeps ==
    ASSUME RequestInv, UNCHANGED <<folder, worker, running, queue, active, results>>
    PROVE  RequestInv'
  BY DEF RequestInv, RequestTyped, PinsAreJudged, SlotIsHeld, LastIsShown, Launch!Held, Launch!Kind

\* The files that are held cannot change.
LEMMA ChangeKeeps ==
    ASSUME RequestInv, NEW r \in Launch!Roles, Launch!ChangeFile(r)
    PROVE  RequestInv'
<1>1. /\ r \notin worker.held /\ UNCHANGED <<worker, running, queue, active, results>>
      /\ \E c \in Launch!Contents : folder' = [folder EXCEPT ![r] = c]
  BY DEF Launch!ChangeFile, Launch!shown
<1>2. /\ folder' \in [Launch!Roles -> Launch!Contents]
      /\ \A s \in Launch!Roles : s # r => folder'[s] = folder[s]
  BY <1>1 DEF RequestInv, RequestTyped
<1>3. Launch!Held \subseteq Launch!Roles
  BY DEF Launch!Held, Launch!SlotPins, Launch!Common, Launch!SlotRoles, Launch!Roles
<1>4. SlotIsHeld'
  <2>1. SUFFICES ASSUME worker.pc = "runtime", NEW s \in worker.held
                 PROVE  Launch!HoldCode(s, worker.pins, folder') = ""
    BY <1>1 DEF RequestInv, SlotIsHeld, Launch!Held, Launch!Kind
  <2>2. folder'[s] = folder[s]
    BY <1>1, <1>2, <1>3, <2>1 DEF RequestInv, SlotIsHeld
  <2>. QED  BY <2>1, <2>2 DEF RequestInv, SlotIsHeld, Launch!HoldCode
<1>. QED  BY <1>1, <1>2, <1>4 DEF RequestInv, RequestTyped, PinsAreJudged, LastIsShown

\* Draining shows the last outcome.
LEMMA DrainKeeps ==
    ASSUME RequestInv, Launch!DrainRunner
    PROVE  RequestInv'
<1> DEFINE s == Launch!FoldLeft(Launch!Shown, [active |-> active, results |-> results], queue)
<1>1. /\ queue' = << >> /\ UNCHANGED <<folder, worker, running>>
      /\ active' = s.active /\ results' = s.results
  BY DEF Launch!DrainRunner, Launch!files
<1>2. queue \in Seq(Nat) /\ << >> \in Seq(Nat)
  BY EmptySeq DEF RequestInv, RequestTyped
<1>3. ASSUME worker.pc \in {"clear", "idle"}, worker.n # 0  PROVE ~active' /\ results' = worker.n
  <2>1. CASE queue = << >>
    <3>1. s = [active |-> active, results |-> results]
      BY <1>2, <2>1, DrainNothing
    <3> HIDE DEF s
    <3>2. s.active = active /\ s.results = results
      BY <3>1
    <3>. QED  BY <1>1, <1>3, <2>1, <3>2 DEF RequestInv, LastIsShown
  <2>2. CASE queue # << >>
    <3>1. queue[Len(queue)] = worker.n /\ worker.n # Launch!Closed
      BY <1>3, <2>2 DEF RequestInv, LastIsShown, Launch!Closed
    <3>2. s = [active |-> FALSE, results |-> worker.n]
      BY <1>2, <2>2, <3>1, DrainShowsTheLast
    <3> HIDE DEF s
    <3>3. s.active = FALSE /\ s.results = worker.n
      BY <3>2
    <3>. QED  BY <1>1, <3>3
  <2>. QED  BY <2>1, <2>2
<1>4. LastIsShown'
  BY <1>1, <1>3 DEF LastIsShown
<1>5. RequestTyped' /\ PinsAreJudged' /\ SlotIsHeld'
  BY <1>1, <1>2 DEF RequestInv, RequestTyped, PinsAreJudged, SlotIsHeld, Launch!Held, Launch!Kind
<1>. QED  BY <1>4, <1>5 DEF RequestInv

\* A new request begins once the thread of the last one has ended.
LEMMA StartKeeps ==
    ASSUME RequestInv, Launch!Start
    PROVE  RequestInv'
<1>1. CASE running
  <2>1. UNCHANGED <<folder, worker, running, queue, active, results>>
    BY <1>1 DEF Launch!Start, Launch!files, Launch!shown
  <2>. QED  BY <2>1, RestKeeps
<1>2. CASE ~running
  <2>1. /\ worker' = [Launch!Idle EXCEPT !.pc = "prepare", !.n = worker.n + 1,
                                         !.req = Launch!Request]
        /\ running' = TRUE
    BY <1>2 DEF Launch!Start
  <2>2. UNCHANGED <<folder, queue>> /\ running'
    BY <1>2, <2>1 DEF Launch!Start, Launch!files
  <2>3. IsWorker(worker') /\ worker'.pc = "prepare" /\ worker'.n = worker.n + 1
    <3> DEFINE w == Launch!Idle
               n == worker.n + 1
    <3>1. IsWorker(w) /\ worker' = [w EXCEPT !.pc = "prepare", !.n = n, !.req = Launch!Request]
      BY <2>1, IsIdle
    <3> HIDE DEF w, n
    <3>2. IsWorker(worker') /\ worker'.pc = "prepare" /\ worker'.n = n
      BY <3>1, Zenon DEF IsWorker
    <3>. QED  BY <3>2 DEF n
  <2>4. RequestTyped'
    BY <2>2, <2>3 DEF RequestInv, RequestTyped
  <2>. QED  BY <2>3, <2>4 DEF RequestInv, PinsAreJudged, SlotIsHeld, LastIsShown
<1>. QED  BY <1>1, <1>2

LEMMA CancelKeeps ==
    ASSUME RequestInv, Launch!Cancel \/ Launch!CloseWindow
    PROVE  RequestInv'
<1>1. /\ Launch!Cancelling /\ UNCHANGED <<folder, running, queue, active, results>>
  BY DEF Launch!Cancel, Launch!CloseWindow, Launch!files, Launch!shown
<1>2. /\ IsWorker(worker') /\ worker'.pc = worker.pc /\ worker'.n = worker.n
      /\ worker'.req = worker.req /\ worker'.pins = worker.pins /\ worker'.bad = worker.bad
      /\ worker'.slot = worker.slot /\ worker'.held = worker.held
  <2>1. worker' = [worker EXCEPT !.cancel = TRUE] \/ worker' = worker
    BY <1>1 DEF Launch!Cancelling
  <2>2. IsWorker(worker)
    BY DEF RequestInv, RequestTyped
  <2>. QED  BY <2>1, <2>2, IsCancelled
<1>. QED  BY <1>1, <1>2 DEF RequestInv, RequestTyped, PinsAreJudged, SlotIsHeld, LastIsShown,
                            Launch!Held, Launch!Kind

\* A step of the thread to where nothing is asked of it.
LEMMA PlainStep ==
    ASSUME RequestInv, NEW from, NEW to, NEW changed, Launch!WorkerSteps(from, to, changed),
           from # "idle", to \notin {"idle", "clear", "probe", "runtime"},
           IsWorker(changed), changed.n = worker.n, queue' \in Seq(Nat)
    PROVE  RequestInv'
<1>1. /\ worker.pc = from /\ worker' = [changed EXCEPT !.pc = to] /\ UNCHANGED <<folder, running>>
  BY DEF Launch!WorkerSteps, Launch!files
<1>2. IsWorker(worker') /\ worker'.pc = to /\ worker'.n = worker.n
  BY <1>1, Zenon DEF IsWorker
<1>. QED  BY <1>1, <1>2 DEF RequestInv, RequestTyped, PinsAreJudged, SlotIsHeld, LastIsShown

LEMMA PinKeeps ==
    ASSUME RequestInv, Launch!PinMaterials
    PROVE  RequestInv'
<1> DEFINE bad == Launch!PinIssues(worker.req, folder) # {}
           w == [worker EXCEPT !.pins = folder, !.bad = bad]
<1>1. /\ worker.pc = "pin" /\ worker' = [w EXCEPT !.pc = "probe"]
      /\ UNCHANGED <<folder, running, queue>>
  BY DEF Launch!PinMaterials, Launch!WorkerSteps, Launch!files
<1>2. IsWorker(w) /\ w.n = worker.n /\ w.req = worker.req /\ w.pins = folder /\ w.bad = bad
  <2>1. IsWorker(worker)
    BY DEF RequestInv, RequestTyped
  <2>. QED  BY <2>1, Zenon DEF IsWorker
<1> HIDE DEF w
<1>3. /\ IsWorker(worker') /\ worker'.pc = "probe" /\ worker'.n = w.n /\ worker'.req = w.req
      /\ worker'.pins = w.pins /\ worker'.bad = w.bad
  BY <1>1, <1>2, Zenon DEF IsWorker
<1>. QED  BY <1>1, <1>2, <1>3
          DEF RequestInv, RequestTyped, PinsAreJudged, SlotIsHeld, LastIsShown

LEMMA HoldKeeps ==
    ASSUME RequestInv, Launch!HoldMaterials
    PROVE  RequestInv'
<1> DEFINE w == [worker EXCEPT !.held = Launch!Held]
<1>1. /\ worker.pc = "hold" /\ worker' = [w EXCEPT !.pc = "runtime"]
      /\ UNCHANGED <<folder, running, queue>>
      /\ \A r \in Launch!Held : Launch!HoldCode(r, worker.pins, folder) = ""
  BY DEF Launch!HoldMaterials, Launch!WorkerSteps, Launch!files
<1>2. /\ IsWorker(w) /\ w.n = worker.n /\ w.req = worker.req /\ w.pins = worker.pins
      /\ w.slot = worker.slot /\ w.held = Launch!Held
  <2>1. IsWorker(worker)
    BY DEF RequestInv, RequestTyped
  <2>. QED  BY <2>1, Zenon DEF IsWorker
<1> HIDE DEF w
<1>3. /\ IsWorker(worker') /\ worker'.pc = "runtime" /\ worker'.n = w.n /\ worker'.req = w.req
      /\ worker'.pins = w.pins /\ worker'.slot = w.slot /\ worker'.held = w.held
  BY <1>1, <1>2, Zenon DEF IsWorker
<1>4. Launch!Held' = Launch!Held
  BY <1>2, <1>3 DEF Launch!Held, Launch!Kind
<1>. QED  BY <1>1, <1>2, <1>3, <1>4
          DEF RequestInv, RequestTyped, PinsAreJudged, SlotIsHeld, LastIsShown

\* The outcome is the last event once the thread ends.
LEMMA EndKeeps ==
    ASSUME RequestInv, Launch!PushOutcome \/ Launch!ClearActive
    PROVE  RequestInv'
<1>1. CASE Launch!PushOutcome
  <2>1. /\ worker.pc = "outcome" /\ worker' = [worker EXCEPT !.pc = "clear"]
        /\ UNCHANGED <<folder, running>> /\ queue' = Append(queue, worker.n)
    BY <1>1 DEF Launch!PushOutcome, Launch!WorkerSteps, Launch!files
  <2>2. IsWorker(worker') /\ worker'.pc = "clear" /\ worker'.n = worker.n
    <3>1. IsWorker(worker)
      BY DEF RequestInv, RequestTyped
    <3>. QED  BY <2>1, <3>1, Zenon DEF IsWorker
  <2>3. queue' \in Seq(Nat) /\ queue' # << >> /\ queue'[Len(queue')] = worker.n
    BY <2>1, AppendProperties DEF RequestInv, RequestTyped
  <2>. QED  BY <2>1, <2>2, <2>3
            DEF RequestInv, RequestTyped, PinsAreJudged, SlotIsHeld, LastIsShown
<1>2. CASE Launch!ClearActive
  <2>1. /\ worker.pc = "clear" /\ worker' = [Launch!Idle EXCEPT !.n = worker.n]
        /\ running' = FALSE /\ UNCHANGED <<folder, queue, active, results>>
    BY <1>2 DEF Launch!ClearActive, Launch!files, Launch!shown
  <2>2. IsWorker(worker') /\ worker'.pc = "idle" /\ worker'.n = worker.n
    BY <2>1, Rests
  <2>. QED  BY <2>1, <2>2
            DEF RequestInv, RequestTyped, PinsAreJudged, SlotIsHeld, LastIsShown
<1>. QED  BY <1>1, <1>2

LEMMA WorkerKeeps ==
    ASSUME RequestInv, Launch!Worker
    PROVE  RequestInv'
<1>1. IsWorker(worker) /\ queue \in Seq(Nat)
  BY DEF RequestInv, RequestTyped
<1>2. \A stop : IsWorker(Launch!SlotDone(stop)) /\ Launch!SlotDone(stop).n = worker.n
  BY <1>1, SlotIsDone
<1>3. CASE Launch!Validating
  BY <1>1, <1>3, PlainStep DEF Launch!Validating
<1>4. ASSUME NEW answers \in BOOLEAN, Launch!ProbeMaterials(answers)  PROVE RequestInv'
  <2>1. PICK to \in {"closing", "slot"} : Launch!WorkerSteps("probe", to, worker)
    BY <1>4 DEF Launch!ProbeMaterials
  <2>2. queue' = queue
    BY <1>4 DEF Launch!ProbeMaterials
  <2>. QED  BY <1>1, <2>1, <2>2, PlainStep
<1>5. CASE Launch!NextSlot
  BY <1>1, <1>2, <1>5, PlainStep DEF Launch!NextSlot
<1>6. ASSUME NEW r \in Launch!Roles, Launch!HoldFails(r)  PROVE RequestInv'
  BY <1>1, <1>2, <1>6, PlainStep DEF Launch!HoldFails
<1>7. ASSUME NEW row, Launch!TakeEnds(row)  PROVE RequestInv'
  BY <1>1, <1>2, <1>7, PlainStep DEF Launch!TakeEnds
<1>8. CASE Launch!Settle
  BY <1>1, <1>8, PlainStep DEF Launch!Settle
<1>9. CASE Launch!Finish
  <2>1. queue' \in Seq(Nat)
    BY <1>1, <1>9, AppendProperties DEF Launch!Finish, Launch!Closed
  <2>. QED  BY <1>1, <1>9, <2>1, PlainStep DEF Launch!Finish
<1>. QED  BY <1>3, <1>4, <1>5, <1>6, <1>7, <1>8, <1>9, PinKeeps, HoldKeeps, EndKeeps, Zenon
          DEF Launch!Worker

LEMMA InterfaceKeeps ==
    ASSUME RequestInv,
           \/ Launch!Interface \/ UNCHANGED Launch!vars
           \/ \E flag \in Launch!Platforms \cup {"take", "timeline"} : Launch!DialogAnswers(flag)
    PROVE  RequestInv'
<1>1. CASE \/ Launch!ApplyDialogs \/ Launch!Revalidate \/ Launch!NotValidated \/ Launch!DrawOnly
           \/ Launch!Edit \/ Launch!OpenDialog \/ Launch!Join \/ UNCHANGED Launch!vars
           \/ \E flag \in Launch!Platforms \cup {"take", "timeline"} : Launch!DialogAnswers(flag)
  <2>1. UNCHANGED <<folder, worker, running, queue, active, results>>
    BY <1>1 DEF Launch!ApplyDialogs, Launch!Revalidate, Launch!NotValidated, Launch!DrawOnly,
                Launch!Edit, Launch!OpenDialog, Launch!Join, Launch!DialogAnswers, Launch!vars,
                Launch!files, Launch!shown
  <2>. QED  BY <2>1, RestKeeps
<1>. QED  BY <1>1, DrainKeeps, StartKeeps, CancelKeeps, Zenon DEF Launch!Interface

LEMMA RequestStep == RequestInv /\ [Launch!Next]_(Launch!vars) => RequestInv'
  BY ChangeKeeps, WorkerKeeps, InterfaceKeeps, Zenon DEF Launch!Next

\* What the Runtime opens for a slot is held, except the patch and a side car that was not there.
LEMMA ReadsAreHeld ==
    ASSUME RequestInv
    PROVE  Launch!ConsumedIsValidated
<1> SUFFICES ASSUME worker.pc = "runtime",
                    NEW r \in Launch!RuntimeReads(worker.req, Launch!Kind, folder)
             PROVE  \/ folder[r] = worker.pins[r]
                    \/ r = "patch"
                    \/ r = "sidecar" /\ ~Launch!SidecarSeen(worker.pins)
  BY DEF Launch!ConsumedIsValidated
<1>1. \A s \in Launch!Held : folder[s] = worker.pins[s]
  <2>1. ASSUME NEW s \in Launch!Held  PROVE folder[s] = worker.pins[s]
    <3>1. Launch!HoldCode(s, worker.pins, folder) = ""
      BY <2>1 DEF RequestInv, SlotIsHeld
    <3>. QED  BY <3>1 DEF Launch!HoldCode
  <2>. QED  BY <2>1
<1>2. CASE r \in Launch!Held
  BY <1>1, <1>2
<1>3. CASE r \notin Launch!Held
  <2>1. CASE r = "patch"
    BY <2>1
  <2>2. CASE r # "patch"
    BY <1>1, <1>3, <2>2 DEF Launch!RuntimeReads, Launch!Held, Launch!SlotPins, Launch!SlotRoles
  <2>. QED  BY <2>1, <2>2
<1>. QED  BY <1>2, <1>3

\* Without an issue of the pins and the probes, what the preflight goes on to use is there.
LEMMA NoIssueNoAbsence ==
    ASSUME NEW q, NEW p, NEW d, NEW answers \in BOOLEAN, Launch!PinIssues(q, p) = {},
           Launch!ProbeIssues(q, p, d, answers) = {}
    PROVE  Launch!Dereferenced \subseteq Launch!Found(q, p, d, answers)
<1>1. ASSUME NEW r \in {"runtime", "rom", "core"}  PROVE Launch!Pinned(p, r)
  <2>1. r \in Launch!Common(q)
    BY DEF Launch!Common
  <2>2. p[r] \notin Launch!Readable => <<r, Launch!PinCode(p[r])>> \in Launch!PinIssues(q, p)
    BY <2>1 DEF Launch!PinIssues
  <2>. QED  BY <2>2 DEF Launch!Pinned
<1>2. Launch!RuntimeIssues(q, p, d, answers) = {} /\ Launch!CoreIssues(q, p, d, answers) = {}
  BY DEF Launch!ProbeIssues
<1>3. Launch!Identified(p, d)
  BY <1>1, <1>2 DEF Launch!RuntimeIssues
<1>4. Launch!CoreProbed(q, p, d, answers)
  BY <1>1, <1>2, <1>3 DEF Launch!CoreProbed, Launch!CoreAsked
<1>. QED  BY <1>1, <1>2, <1>3, <1>4 DEF Launch!Dereferenced, Launch!Found

LEMMA RequestInvIsEnough ==
    RequestInv => /\ Launch!ConsumedIsValidated /\ Launch!NothingAbsentIsUsed
                  /\ Launch!ShownIsTheLastRequest
<1> SUFFICES ASSUME RequestInv  PROVE /\ Launch!NothingAbsentIsUsed
                                       /\ Launch!ShownIsTheLastRequest
  BY ReadsAreHeld
<1>1. Launch!NothingAbsentIsUsed
  <2>1. SUFFICES ASSUME worker.pc = "probe", ~worker.bad, NEW answers \in BOOLEAN,
                        Launch!ProbeIssues(worker.req, worker.pins, folder, answers) = {}
                 PROVE  Launch!Dereferenced
                          \subseteq Launch!Found(worker.req, worker.pins, folder, answers)
    BY DEF Launch!NothingAbsentIsUsed
  <2>2. Launch!PinIssues(worker.req, worker.pins) = {}
    BY <2>1 DEF RequestInv, PinsAreJudged
  <2>. QED  BY <2>1, <2>2, NoIssueNoAbsence
<1>2. Launch!ShownIsTheLastRequest
  BY DEF RequestInv, RequestTyped, LastIsShown, Launch!ShownIsTheLastRequest
<1>. QED  BY <1>1, <1>2

\* Every file the Runtime opens is the one that was validated, except the soft patch and a side
\* car that was not there, which nothing pins; and no file the preflight needs is absent, whoever
\* changes files between any two steps (hold_materials, run_preflight, runtime_replay_arguments).
THEOREM ValidatedIsConsumed ==
    Launch!Spec => [](Launch!ConsumedIsValidated /\ Launch!NothingAbsentIsUsed)
<1>. QED  BY RequestStarts, RequestStep, RequestInvIsEnough, PTL DEF Launch!Spec

\* At rest and drained, the window shows the outcome of the last request, for any number of
\* requests whose events arrive late (LauncherRunner, LauncherModel).
THEOREM LastRequestIsShown == Launch!Spec => []Launch!ShownIsTheLastRequest
<1>. QED  BY RequestStarts, RequestStep, RequestInvIsEnough, PTL DEF Launch!Spec
=============================================================================
