----------------------------- MODULE MCPlatform -----------------------------
(***************************************************************************)
(* The components that meet the operating system and files, checked in one *)
(* run.  They do not share state, so a behaviour exercises one of them:    *)
(* `part' says which, and its variables are the first ones of the pool v1, *)
(* v2, ...; the variables it does not use keep the value 0.  Values and    *)
(* bounds are given where each component is instantiated.                  *)
(***************************************************************************)
EXTENDS Integers, Sequences

CONSTANTS r1, r2     \* Runtimes that capture

VARIABLES part, v1, v2, v3, v4, v5, v6, v7, v8, v9, v10, v11, v12, v13, v14, v15, v16, v17, v18

After11 == <<v12, v13, v14, v15, v16, v17, v18>>
After10 == <<v11, After11>>
After8 == <<v9, v10, After10>>
After7 == <<v8, After8>>
vars == <<part, v1, v2, v3, v4, v5, v6, v7, After7>>

Zero11 == /\ v12 = 0 /\ v13 = 0 /\ v14 = 0 /\ v15 = 0 /\ v16 = 0 /\ v17 = 0 /\ v18 = 0
Zero10 == v11 = 0 /\ Zero11
Zero8 == v9 = 0 /\ v10 = 0 /\ Zero10
Zero7 == v8 = 0 /\ Zero8

(* Names of files for PrivateMaterials.                                    *)
\* The pack, and two resources one of which is named as the other's partial file.
MCItems == <<"pack", "a.partial", "a">>
MCPartialOf == [n \in {"pack", "a.partial", "a"} |->
    CASE n = "pack" -> "pack.partial" [] n = "a" -> "a.partial" [] OTHER -> "a.partial.partial"]

(* Paths for IsolatedSaves.                                                *)
\* The user's directory as it is, through a link, absent, and below the private one.
MCUserPaths == {<<"u">>, <<"l">>, <<"n">>, <<"q", "d", "u">>}
\* Apart, inside the user's directory (directly and through the link), and the directory itself.
MCPrivatePaths == {<<"q", "d">>, <<"u", "d">>, <<"l", "d">>, <<"u">>, <<"n", "d">>, <<"l", "s">>}

(* Takes for RecordingFile.                                                *)
\* Two frames, a state of five bytes, one keyframe; the versions on both sides
\* of the registers and of the take id, with and without registers.
Take(version, registers, game, keyframes) ==
    [version |-> version, game |-> game, name |-> <<9>>, frames |-> 2, raw |-> 5,
     state |-> <<3, 5, 5>>, inputs |-> <<<<1, 2>>, <<3, 0>>>>, sprites |-> 1, sounds |-> 0,
     keyframes |-> keyframes, registers |-> registers]
Keyframe == [frame |-> 1, raw |-> 5, cells |-> <<6, 6>>]
MCTakes ==
    {Take(8, << >>, << >>, << >>), Take(9, <<2, 2, 2>>, <<8, 8>>, <<Keyframe>>),
     Take(10, << >>, << >>, <<Keyframe>>), Take(10, <<2, 2, 2>>, <<8>>, << >>)}

(* Lines of text for PadTimeline.                                          *)
Names(names) == [names |-> names, unit |-> "none", n |-> 0]
Time(n, unit) == [names |-> <<"?">>, unit |-> unit, n |-> n]
Line(keyword, tokens) == [keyword |-> keyword, tokens |-> tokens]
MCLines ==
    {Line("start", <<Names(<<"power_on">>)>>), Line("start", <<Names(<<"state">>), Names(<<"?">>)>>),
     Line("start", <<Names(<<"state">>)>>),
     Line("wait", <<Time(1, "f")>>), Line("wait", <<Time(1, "s")>>), Line("wait", << >>),
     Line("wait", <<Time(130, "ms")>>), Line("wait", <<Time(100, "ms")>>),
     Line("press", <<Names(<<"b">>)>>), Line("press", <<Names(<<"b", "c">>), Time(2, "f")>>),
     Line("press", <<Names(<<"b", "b">>)>>),
     Line("hold", <<Names(<<"c">>), Time(600, "ms")>>), Line("hold", <<Names(<<"c">>)>>),
     Line("down", <<Names(<<"c">>)>>), Line("down", <<Names(<<"b", "c">>)>>),
     Line("up", <<Names(<<"c">>)>>), Line("up", <<Names(<<"c">>), Time(1, "f")>>),
     Line("press", <<Names(<<"b">>), Time(1, "f"), Time(1, "f")>>), Line("jump", << >>)}

(* References for References.                                              *)
Known(source) == [origin |-> source, evidence_id |-> "e"]
Unknown == [origin |-> "unknown", evidence_id |-> ""]
Said(value) == [value |-> <<value>>, provenance |-> Known("configuration")]
\* Missing, with the evidence that explains why, and without.
Missing == [value |-> << >>, provenance |-> Known("runtime_observation")]
Absent == [value |-> << >>, provenance |-> Unknown]
Content(d) == [sha256 |-> d, byte_size |-> "4"]
Build == [artifact |-> Said(Content("h")), release |-> Said("v"), commit |-> Missing,
          variant |-> Absent, abi |-> Said("7")]
Rom(id, stability, consumed) ==
    [material_id |-> id, role |-> "rom", stability |-> stability, source_locator |-> Said("p"),
     format_version |-> Absent, identified |-> Said(Content("h")), consumed |-> consumed,
     stability_provenance |-> IF stability = "unverified" THEN Unknown ELSE Known("content_measurement")]
Ref(materials, conditions, differences) ==
    [baseline_id |-> "b", execution_reference_id |-> "x", role |-> "initial", engine |-> Build,
     runtime |-> [Build EXCEPT !.variant = Missing], conditions_manifest_id |-> Said("m"),
     materials |-> materials, conditions |-> conditions, declared_differences |-> differences]
Two == <<Rom("r", "verified", Said(Content("h"))), Rom("s", "changed", Said(Content("g")))>>
Condition(k) == [key |-> k, value |-> Said("on")]
MCRefs ==
    {Ref(Two, <<Condition("k")>>, << >>), Ref(<<Rom("r", "unverified", Absent)>>, << >>, <<Missing, Said("d")>>),
     Ref(<<Rom("r", "verified", Said(Content("g")))>>, << >>, << >>),
     Ref(<<Two[1], Two[2], Two[1]>>, << >>, << >>), Ref(<< >>, <<Condition("k"), Condition("l")>>, << >>)}

Screen == INSTANCE Presentation WITH
    client <- v1, pc <- v2, win <- v3, asked <- v4, resized <- v5, extent <- v6, slot <- v7,
    fence <- v8, ready_ <- v9, layers <- v10, stale <- v11, swapOk <- v12, query <- v13,
    shown <- v14, lost <- v15, failed <- v16, faults <- v17, resizes <- v18,
    MaxFaults <- 3, MaxResizes <- 2

System == INSTANCE RuntimeProcesses WITH
    binary <- v1, held <- v2, inheritable <- v3, alive <- v4, take <- v5, data <- v6,
    control <- v7, query <- v8, printed <- v9, pipe <- v10, result <- v11,
    Timeout <- 2, MaxOutput <- 2, MaxPrinted <- 3, MaxSent <- 1

Staged == INSTANCE PrivateMaterials WITH
    kind <- v1, source <- v2, created <- v3, root <- v4, free <- v5, taken <- v6, budget <- v7,
    stage <- v8, used <- v9, changes <- v10,
    Items <- MCItems, PartialOf <- MCPartialOf, Reserve <- 3,
    MaxStaged <- 6, MaxFree <- 10, MaxChanges <- 3

Saves == INSTANCE IsolatedSaves WITH
    user <- v1, private <- v2, tree <- v3, phase <- v4, walk <- v5, snapshot <- v6,
    verdict <- v7, mine <- v8, changes <- v9, strayed <- v10,
    UserPaths <- MCUserPaths, PrivatePaths <- MCPrivatePaths,
    MaxEntries <- 2, MaxChanges <- 2

\* One Runtime and every split view, and two Runtimes that share the directory.
Captures == INSTANCE CaptureFiles WITH
    second <- v1, captures <- v2, writer <- v3, final <- v4, temp <- v5, reported <- v6,
    failures <- v7,
    Runtimes <- {r1}, Width <- 3, Height <- 2, Views <- (0..3) \X BOOLEAN,
    MaxCaptures <- 2, MaxSecond <- 2, MaxFailures <- 2
Shared == INSTANCE CaptureFiles WITH
    second <- v1, captures <- v2, writer <- v3, final <- v4, temp <- v5, reported <- v6,
    failures <- v7,
    Runtimes <- {r1, r2}, Width <- 3, Height <- 2, Views <- {<<1, TRUE>>},
    MaxCaptures <- 2, MaxSecond <- 2, MaxFailures <- 1

Reserved == INSTANCE FileReservations WITH
    disk <- v1, editor <- v2, token <- v3, expected <- v4, held <- v5, pc <- v6, read <- v7,
    edits <- v8,
    Journal <- TRUE, MaxEdits <- 2

Recorded == INSTANCE RecordingFile WITH
    take <- v1, file <- v2, damage <- v3, outcome <- v4, inputs <- v5, cursor <- v6,
    played <- v7,
    Takes <- MCTakes, MaxFrames <- 4, MaxState <- 12, MaxFile <- 60, MaxDamage <- 2

Timeline == INSTANCE PadTimeline WITH
    lines <- v1, inspected <- v2, fps <- v3, outcome <- v4, compiled <- v5, cursor <- v6,
    played <- v7,
    Lines <- MCLines, MaxLines <- 5, MaxTextLines <- 4, MaxSteps <- 3,
    MaxFrames <- 9, MaxMs <- 2000, MaxDurationMs <- 1600, MinFps <- 4, MaxFps <- 6

Stored == INSTANCE References WITH
    exists <- v1, lines <- v2, author <- v3, open <- v4, writes <- v5, stored <- v6,
    answer <- v7,
    Refs <- MCRefs, MaxLines <- 200, MaxEntries <- 2, MaxWrites <- 2

Init ==
    \/ part = "presentation" /\ Screen!Init
    \/ part = "processes" /\ System!Init /\ Zero11
    \/ part = "private materials" /\ Staged!Init /\ Zero10
    \/ part = "saves" /\ Saves!Init /\ Zero10
    \/ part = "captures" /\ Captures!Init /\ Zero7
    \/ part = "shared captures" /\ Shared!Init /\ Zero7
    \/ part = "reservations" /\ Reserved!Init /\ Zero8
    \/ part = "recording" /\ Recorded!Init /\ Zero7
    \/ part = "timeline" /\ Timeline!Init /\ Zero7
    \/ part = "references" /\ Stored!Init /\ Zero7

Component ==
    \/ part = "presentation" /\ Screen!Next
    \/ part = "processes" /\ System!Next /\ UNCHANGED After11
    \/ part = "private materials" /\ Staged!Next /\ UNCHANGED After10
    \/ part = "saves" /\ Saves!Next /\ UNCHANGED After10
    \/ part = "captures" /\ Captures!Next /\ UNCHANGED After7
    \/ part = "shared captures" /\ Shared!Next /\ UNCHANGED After7
    \/ part = "reservations" /\ Reserved!Next /\ UNCHANGED After8
    \/ part = "recording" /\ Recorded!Next /\ UNCHANGED After7
    \/ part = "timeline" /\ Timeline!Next /\ UNCHANGED After7
    \/ part = "references" /\ Stored!Next /\ UNCHANGED After7
Next == Component /\ UNCHANGED part

\* The threads of the two components whose progress is checked run, and the graphics
\* processor ends what it was given; a child process may hang for ever.
Presents(A) == part = "presentation" /\ A /\ UNCHANGED part
Processes(A) == part = "processes" /\ A /\ UNCHANGED <<part, After11>>
Spec ==
    /\ Init /\ [][Next]_vars
    /\ WF_vars(Presents(Screen!Frame)) /\ WF_vars(Presents(Screen!Start))
    /\ \A s \in 0..1 : WF_vars(Presents(Screen!GpuCompletes(s)))
    /\ WF_vars(Processes(System!QueryStep)) /\ WF_vars(Processes(System!TakeStep))
    /\ WF_vars(Processes(System!ReadData))

-----------------------------------------------------------------------------
(***************************************************************************)
(* What is played is what was prepared: staged materials are the ones      *)
(* identified although the originals change during the copy, and leave     *)
(* room for the evidence; a reserved file is read as Play prepared it; an  *)
(* accepted take or timeline plays exactly the inputs that were written    *)
(* (pinned_pack.cpp, material_staging_budget.cpp, file_reservation.h,      *)
(* recording_header.cpp, pad_timeline.cpp).                                *)
(***************************************************************************)
PlayedIsPrepared ==
    /\ part = "private materials" => Staged!StagedIsVerified /\ Staged!EvidenceRoomStays
    /\ part = "reservations" => Reserved!PlayedIsPrepared
    /\ part = "recording" => Recorded!PlayedIsTheTake
    /\ part = "timeline" => Timeline!PlayedAsWritten /\ Timeline!AdmittedCompiles

(***************************************************************************)
(* Files of others and files reported as stored stay: the user's saves are *)
(* never touched and a stray write into them is noticed; a published       *)
(* capture stays whole and of one frame whatever later ones do, of its own *)
(* or another Runtime, unless two Runtimes wrote in the same second at the *)
(* same time; a stored reference stays readable (isolated_saves.cpp,       *)
(* capture.cpp, reference_store.cpp).                                      *)
(***************************************************************************)
FilesAreKept ==
    /\ part = "saves" => Saves!UserDataUntouched /\ Saves!StrayingIsDetected
    /\ part = "captures" => Captures!ReportedStays /\ Captures!SetsAreOfOneFrame
    /\ part = "shared captures" => Shared!ReportedStays /\ Shared!SetsAreOfOneFrame
    /\ part = "references" => Stored!StoredStaysReadable

(***************************************************************************)
(* Whatever call fails, a frame never uses a slot that cannot be used nor  *)
(* a view of a destroyed swapchain; a query returns all that was printed,  *)
(* and a Runtime that is gone has no pipe end left open in another process *)
(* (vk_swapchain.cpp, runtime_application.cpp, runtime_process.cpp).       *)
(***************************************************************************)
HandlesAreLive ==
    /\ part = "presentation" => Screen!SlotIsUsable /\ Screen!ViewsAreLive
    /\ part = "processes" => System!QueryIsWhole /\ System!GoneMeansEnded

(***************************************************************************)
(* A visible window keeps being drawn in while no replacement of the       *)
(* swapchain failed, and a query of a process returns even if the process  *)
(* hangs (vk_swapchain.cpp: begin_frame, end_frame; runtime_process.cpp:   *)
(* query_runtime_process).                                                 *)
(***************************************************************************)
Shown(parity) == part = "presentation" => Screen!Shows(parity)
AnswersComeBack ==
    /\ [](part = "presentation" => Screen!Unbroken) /\ <>[](part = "presentation" => Screen!Visible)
         => []<>Shown(0) /\ []<>Shown(1)
    /\ (part = "processes" /\ System!Asking) ~> (part = "processes" => System!Answered)
=============================================================================
