----------------------------- MODULE CaptureFiles -----------------------------
(***************************************************************************)
(* Comparison captures (src/capture.cpp, src/capture_service.cpp and the   *)
(* player's F12).  A capture is four files with a common prefix, named by  *)
(* the second it was taken in: each is written to a temporary, then all    *)
(* are renamed.  A file operation may fail, the process may die between    *)
(* any two, and Runtimes share the directory.                              *)
(***************************************************************************)
EXTENDS Naturals, Sequences, FiniteSets

CONSTANTS Runtimes,      \* processes that capture into the same directory
          Width, Height, \* of the images, in pixels
          Views,         \* split views that may be asked for: <<position, vertical>>
          MaxCaptures,   \* bound on captures asked for
          MaxSecond,     \* bound on the clock
          MaxFailures    \* bound on failed operations and deaths

Kinds == <<"original", "ayther", "split", "json">>
Files == {"original", "ayther", "split", "json"}

VARIABLES second,        \* the clock that names captures
          captures,      \* captures asked for, by number: name, split, direction, and the
                         \* ones of the same name that were under way when it was asked for
          writer,        \* what each Runtime is doing
          final, temp,   \* the files of each name: what they hold, << >> when absent
          reported,      \* captures reported as published
          failures
vars == <<second, captures, writer, final, temp, reported, failures>>

(***************************************************************************)
(* The images, as flat sequences of pixels: a pixel is its source, its     *)
(* place and the capture it is from.  A split position is in halves.       *)
(***************************************************************************)
Pixels(source, n) == [i \in 1..(Width * Height) |-> <<source, i, n>>]

Clamped(split) == IF split > 2 THEN 2 ELSE split

\* compose_split: by rows, or in two blocks of whole rows.
ComposeSplit(original, enhanced, split, vertical) ==
    LET cut == ((IF vertical THEN Height ELSE Width) * Clamped(split)) \div 2
        rows == [y \in 1..Height |->
                    SubSeq(original, (y - 1) * Width + 1, (y - 1) * Width + cut) \o
                    SubSeq(enhanced, (y - 1) * Width + cut + 1, y * Width)]
        stacked[y \in 0..Height] == IF y = 0 THEN << >> ELSE stacked[y - 1] \o rows[y] IN
    IF vertical
    THEN SubSeq(original, 1, cut * Width) \o SubSeq(enhanced, cut * Width + 1, Width * Height)
    ELSE stacked[Height]

Content(n, kind) ==
    LET c == captures[n] IN
    CASE kind = "original" -> Pixels("original", n)
      [] kind = "ayther" -> Pixels("ayther", n)
      [] kind = "split" -> ComposeSplit(Pixels("original", n), Pixels("ayther", n),
                                        c.split, c.vertical)
      [] OTHER -> <<n>>

(***************************************************************************)
(* capture_write_transactional.                                            *)
(***************************************************************************)
Idle == [pc |-> "idle", n |-> 0, i |-> 0]
At(r, pc) == writer[r].pc = pc
Goes(r, pc, i) == writer' = [writer EXCEPT ![r].pc = pc, ![r].i = i]
Ends(r) == writer' = [writer EXCEPT ![r] = Idle]
Name(r) == captures[writer[r].n].name
Kind(r) == Kinds[writer[r].i]
Absent == [k \in Files |-> << >>]

Init ==
    /\ second = 1 /\ captures = << >> /\ reported = {} /\ failures = 0
    /\ writer = [r \in Runtimes |-> Idle]
    /\ final = [s \in 1..MaxSecond |-> Absent]
    /\ temp = [s \in 1..MaxSecond |-> Absent]

\* Captures other Runtimes are writing under a name.
UnderWay(name) == {writer[q].n : q \in {q \in Runtimes : ~At(q, "idle") /\ Name(q) = name}}

\* The player asks for a capture of the frame it shows: F12 or --capture-at.
Ask(r) ==
    /\ At(r, "idle") /\ Len(captures) < MaxCaptures
    /\ \E view \in Views :
         captures' = Append(captures, [name |-> second, split |-> view[1], vertical |-> view[2],
                                       beside |-> UnderWay(second)])
    /\ writer' = [writer EXCEPT ![r] = [pc |-> "checking", n |-> Len(captures) + 1, i |-> 1]]
    /\ UNCHANGED <<second, final, temp, reported, failures>>

\* Fault: only the temporaries are looked at.
ChecksTemporaries(r) ==
    /\ At(r, "checking")
    /\ temp' = [temp EXCEPT ![Name(r)][Kind(r)] = << >>]
    /\ IF writer[r].i < 4 THEN Goes(r, "checking", writer[r].i + 1) ELSE Goes(r, "writing", 1)
    /\ UNCHANGED <<second, captures, final, reported, failures>>

\* A name already taken refuses the capture; an old temporary is removed.
Check(r) ==
    /\ At(r, "checking")
    /\ \/ /\ final[Name(r)][Kind(r)] # << >>
          /\ Ends(r)
          /\ UNCHANGED temp
       \/ /\ final[Name(r)][Kind(r)] = << >>
          /\ temp' = [temp EXCEPT ![Name(r)][Kind(r)] = << >>]
          /\ IF writer[r].i < 4 THEN Goes(r, "checking", writer[r].i + 1)
             ELSE Goes(r, "writing", 1)
    /\ UNCHANGED <<second, captures, final, reported, failures>>

\* write_png and write_text; a failure may leave a piece of the file.
Write(r) ==
    /\ At(r, "writing")
    /\ \/ /\ temp' = [temp EXCEPT ![Name(r)][Kind(r)] = Content(writer[r].n, Kind(r))]
          /\ IF writer[r].i < 4 THEN Goes(r, "writing", writer[r].i + 1)
             ELSE Goes(r, "renaming", 1)
          /\ UNCHANGED failures
       \/ /\ failures < MaxFailures /\ failures' = failures + 1
          /\ temp' = [temp EXCEPT ![Name(r)][Kind(r)] = <<0>>]
          /\ Goes(r, "cleaning", 1)
    /\ UNCHANGED <<second, captures, final, reported>>

\* A rename replaces what is there; it fails without its source, or by itself.
Rename(r) ==
    /\ At(r, "renaming")
    /\ \/ /\ temp[Name(r)][Kind(r)] # << >>
          /\ final' = [final EXCEPT ![Name(r)][Kind(r)] = temp[Name(r)][Kind(r)]]
          /\ temp' = [temp EXCEPT ![Name(r)][Kind(r)] = << >>]
          /\ IF writer[r].i < 4 THEN Goes(r, "renaming", writer[r].i + 1) /\ UNCHANGED reported
             ELSE Ends(r) /\ reported' = reported \cup {writer[r].n}
          /\ UNCHANGED failures
       \/ /\ \/ temp[Name(r)][Kind(r)] = << >> /\ UNCHANGED failures
             \/ failures < MaxFailures /\ failures' = failures + 1
          /\ Goes(r, "cleaning", 1)
          /\ UNCHANGED <<final, temp, reported>>
    /\ UNCHANGED <<second, captures>>

\* cleanup: first the temporaries, then every member of the set.
Clean(r) ==
    /\ At(r, "cleaning")
    /\ LET i == writer[r].i
           kind == Kinds[IF i > 4 THEN i - 4 ELSE i] IN
         /\ temp' = IF i > 4 THEN temp ELSE [temp EXCEPT ![Name(r)][kind] = << >>]
         /\ final' = IF i > 4 THEN [final EXCEPT ![Name(r)][kind] = << >>] ELSE final
         /\ IF i < 8 THEN Goes(r, "cleaning", i + 1) ELSE Ends(r)
    /\ UNCHANGED <<second, captures, reported, failures>>

\* The process dies and is started again; the clock goes on.
Die(r) ==
    /\ ~At(r, "idle") /\ failures < MaxFailures /\ failures' = failures + 1
    /\ Ends(r)
    /\ UNCHANGED <<second, captures, final, temp, reported>>
Tick ==
    /\ second < MaxSecond /\ second' = second + 1
    /\ UNCHANGED <<captures, writer, final, temp, reported, failures>>

Next == Tick \/ \E r \in Runtimes :
            Ask(r) \/ Check(r) \/ Write(r) \/ Rename(r) \/ Clean(r) \/ Die(r)
Spec == Init /\ [][Next]_vars
----------------------------------------------------------------------------
\* Each half of a split view keeps its pixels where they were.
SplitKeepsPlaces(n, image) ==
    /\ Len(image) = Width * Height
    /\ \A i \in DOMAIN image :
         /\ image[i][2] = i /\ image[i][3] = n
         /\ image[i][1] = "original" <=>
              2 * (IF captures[n].vertical THEN (i - 1) \div Width ELSE (i - 1) % Width) + 2
                <= (IF captures[n].vertical THEN Height ELSE Width) * Clamped(captures[n].split)

\* No other Runtime was writing a capture of the same second at the same time.
Alone(n) == captures[n].beside = {} /\ \A m \in DOMAIN captures : n \notin captures[m].beside

\* A capture reported as published stays published, its four files its own and its split view
\* with every pixel of both images in its place, whatever later captures of any Runtime do:
\* refused for their name, failed half way or cut by the death of the process.  Nothing keeps
\* two Runtimes apart that write captures of the same second at the same time: they share the
\* temporaries, and the one that fails removes the files of the other, reported or not.
ReportedStays ==
    \A n \in reported : Alone(n) =>
        /\ \A kind \in Files : final[captures[n].name][kind] = Content(n, kind)
        /\ SplitKeepsPlaces(n, final[captures[n].name]["split"])

\* Two captures are never mixed under one name: the members of a set that Lab groups by their
\* prefix are of the same frame, also after a failure or a death left the set incomplete,
\* except for a second in which two Runtimes wrote at the same time.
SetsAreOfOneFrame ==
    \A s \in 1..MaxSecond :
        (\A n \in DOMAIN captures : captures[n].name = s => Alone(n)) =>
            \E n \in 0..Len(captures) : \A kind \in Files :
                final[s][kind] # << >> => n # 0 /\ final[s][kind] = Content(n, kind)
=============================================================================
