--------------------------- MODULE FileReservations ---------------------------
(***************************************************************************)
(* The reservation of the ROM and the pack (src/file_reservation.h).  Play *)
(* notes the revision of each file while it prepares a launch; the Runtime *)
(* opens them without sharing writes or deletion, compares the revisions   *)
(* and holds them while the session reads them by their path.  Whoever     *)
(* edits the files meanwhile is external.                                  *)
(***************************************************************************)
EXTENDS Naturals

CONSTANTS Journal,      \* whether the volume keeps a change journal (USN)
          MaxEdits      \* bound on edits

Files == {"rom", "pack"}
NoToken == [index |-> 0, size |-> 0, time |-> 0, usn |-> 0]

VARIABLES disk,         \* each file: its identity, size, time, journal number and content
          editor,       \* files somebody has open for writing
          token,        \* the revisions given to the Runtime; NoToken: not asked for
          expected,     \* the contents Play prepared with
          held,         \* the Runtime's handles
          pc,           \* how far the Runtime is
          read,         \* the contents the session read
          edits
vars == <<disk, editor, token, expected, held, pc, read, edits>>

\* revision(): of the open handle; the number is 0 on a volume without a journal.
Revision(file) ==
    [index |-> file.index, size |-> file.size, time |-> file.time,
     usn |-> IF Journal THEN file.usn ELSE 0]

Init ==
    /\ disk = [f \in Files |-> [index |-> 1, size |-> 1, time |-> 1, usn |-> 1, content |-> 1]]
    /\ editor = {} /\ held = {} /\ pc = "preparing" /\ edits = 0
    /\ token = [f \in Files |-> NoToken] /\ expected = [f \in Files |-> 0]
    /\ read = [f \in Files |-> 0]

\* Play prepares: it reads each file and asks for the reservation of some.
Prepare ==
    /\ pc = "preparing" /\ pc' = "rom"
    /\ \E asked \in SUBSET Files \ {{}} :
         token' = [f \in Files |-> IF f \in asked THEN Revision(disk[f]) ELSE NoToken]
    /\ expected' = [f \in Files |-> disk[f].content]
    /\ UNCHANGED <<disk, editor, held, read, edits>>

\* The constructor: the ROM's reservation, then the pack's; a file being written, or another
\* revision, refuses the launch and lets go of what was held.
Reserve(f, next) ==
    /\ pc = f
    /\ \/ /\ f \notin editor /\ token[f] \in {NoToken, Revision(disk[f])}
          /\ held' = held \cup {f} /\ pc' = next
       \/ /\ f \in editor \/ token[f] \notin {NoToken, Revision(disk[f])}
          /\ held' = {} /\ pc' = "refused"
    /\ UNCHANGED <<disk, editor, token, expected, read, edits>>

\* The session opens a file by its path, when it is created or the pack is reloaded.
ReadFile(f) ==
    /\ pc = "playing"
    /\ read' = [read EXCEPT ![f] = disk[f].content]
    /\ UNCHANGED <<disk, editor, token, expected, held, pc, edits>>

\* The handles live as long as the session.
EndSession ==
    /\ pc = "playing" /\ pc' = "ended" /\ held' = {}
    /\ UNCHANGED <<disk, editor, token, expected, read, edits>>

\* Another program opens a file for writing, or renames another over it: both are denied on a
\* held file.  A write may keep the size and restore the time; the journal always notes it.
OpenForWriting(f) ==
    /\ f \notin held \cup editor /\ editor' = editor \cup {f}
    /\ UNCHANGED <<disk, token, expected, held, pc, read, edits>>
Edit(f) ==
    /\ f \in editor /\ edits < MaxEdits /\ edits' = edits + 1
    /\ \E size \in 1..2, time \in 1..2 :
         disk' = [disk EXCEPT ![f].size = size, ![f].time = time,
                              ![f].usn = @ + 1, ![f].content = @ + 1]
    /\ UNCHANGED <<editor, token, expected, held, pc, read>>
CloseEditor(f) ==
    /\ f \in editor /\ editor' = editor \ {f}
    /\ UNCHANGED <<disk, token, expected, held, pc, read, edits>>
Replace(f) ==
    /\ f \notin held \cup editor /\ edits < MaxEdits /\ edits' = edits + 1
    /\ disk' = [disk EXCEPT ![f].index = @ + 1, ![f].content = @ + 1]
    /\ UNCHANGED <<editor, token, expected, held, pc, read>>

Next ==
    \/ Prepare \/ Reserve("rom", "pack") \/ Reserve("pack", "playing") \/ EndSession
    \/ \E f \in Files : \/ ReadFile(f) \/ OpenForWriting(f) \/ Edit(f) \/ CloseEditor(f)
                        \/ Replace(f)
Spec == Init /\ [][Next]_vars
----------------------------------------------------------------------------
\* A session that started reads of a file with a revision what Play prepared with, whenever
\* and as often as it opens it, whoever edits or replaces the files before and meanwhile.
PlayedIsPrepared ==
    \A f \in Files :
        (pc \in {"playing", "ended"} /\ token[f] # NoToken) => read[f] \in {0, expected[f]}
=============================================================================
