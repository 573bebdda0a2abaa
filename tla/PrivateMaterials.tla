--------------------------- MODULE PrivateMaterials ---------------------------
(****************************************************************************)
(* Private copies of the materials of a request: the budget that admits them *)
(* (check_material_staging_budget), the copy that verifies what it writes    *)
(* (stage_pinned_pack, stage_pinned_game_materials) and the check before     *)
(* each use (check_material_consumption), while other programs change the    *)
(* originals, the copies and the free space.                                 *)
(*                                                                           *)
(* A file is the sequence of its chunks; the identity of a material is its   *)
(* content.                                                                  *)
(****************************************************************************)
EXTENDS Integers, Sequences, FiniteSets

CONSTANTS
    Items,          \* Items[i] = the logical path of the i-th material staged
    PartialOf,      \* PartialOf[name] = the name of the file it is copied to first
    Reserve,        \* staging margin and evidence reserve, in chunks
    MaxStaged,      \* max_pinned_private_material_bytes, in chunks
    MaxFree,        \* bound on the free space, in chunks
    MaxChanges      \* bound on what other programs change

VARIABLES
    kind,           \* "pack" or "game": which of the two functions stages
    source,         \* source[i] = the content of the i-th original
    created,        \* the staging directory exists
    root,           \* root[n] = the content of the file n of that directory, or Absent
    free, taken,    \* free space, and what others took of it
    budget,         \* the answer of the last check of the budget
    stage,          \* stage_pinned_pack: where it stands and the item at hand
    used,           \* the last consumption: its verdict and the content read
    changes
vars == <<kind, source, created, root, free, taken, budget, stage, used, changes>>

Absent == <<-1>>      \* no file
Expected == <<1, 1>>
Names == {Items[i] : i \in DOMAIN Items} \cup {PartialOf[Items[i]] : i \in DOMAIN Items}
Nothing == << >>
Empty == [n \in Names |-> Absent]
Size(content) == IF content = Absent THEN 0 ELSE Len(content)

Init ==
    /\ kind \in {"pack", "game"}
    /\ source = [i \in DOMAIN Items |-> Expected]
    /\ created \in BOOLEAN /\ root = Empty
    /\ free \in 0..MaxFree /\ taken = 0
    /\ budget = "none"
    /\ stage = [at |-> "idle", item |-> 1, read |-> Nothing, error |-> "none"]
    /\ used = [verdict |-> "none", content |-> Nothing]
    /\ changes = 0

Bytes == 2 * Len(Items)

\* Every selected material is counted once; the reserve is required on top.
BudgetVerdict(selected, available) ==
    IF selected > MaxStaged THEN "private_material_limit_exceeded"
    ELSE IF available < selected + Reserve THEN "storage_reserve_unavailable"
    ELSE "permit"

CheckBudget ==
    /\ stage.at = "idle" /\ budget = "none"
    /\ budget' = BudgetVerdict(Bytes, free)
    /\ UNCHANGED <<kind, source, created, root, free, taken, stage, used, changes>>

\* The sizes of the originals are looked at before anything is created.
SizesMatch == \A i \in DOMAIN Items : Len(source[i]) = Len(Expected)

Fails(error) == stage' = [stage EXCEPT !.at = "failed", !.error = error]

\* stage_pinned_pack adds the sizes up one by one, and stops at the first that is wrong.
InspectPack ==
    /\ kind = "pack" /\ stage.at = "idle" /\ budget = "permit"
    /\ LET wrong == {i \in DOMAIN Items : Len(source[i]) # Len(Expected)}
           over == {i \in DOMAIN Items : 2 * i > MaxStaged}
       IN  IF \E i \in wrong : \A j \in over : i <= j THEN Fails("identity_mismatch")
           ELSE IF over # {} THEN Fails("aggregate_too_large")
           ELSE stage' = [stage EXCEPT !.at = "creating"]
    /\ UNCHANGED <<kind, source, created, root, free, taken, budget, used, changes>>

\* stage_pinned_game_materials compares all of them before it adds them up.
InspectGame ==
    /\ kind = "game" /\ stage.at = "idle" /\ budget = "permit"
    /\ IF ~SizesMatch THEN Fails("identity_mismatch")
       ELSE IF Bytes > MaxStaged THEN Fails("aggregate_too_large")
       ELSE stage' = [stage EXCEPT !.at = "creating"]
    /\ UNCHANGED <<kind, source, created, root, free, taken, budget, used, changes>>

CreateRoot ==
    /\ stage.at = "creating"
    /\ IF created THEN Fails("staging_path_exists") ELSE stage' = [stage EXCEPT !.at = "opening"]
    /\ created' = TRUE
    /\ UNCHANGED <<kind, source, root, free, taken, budget, used, changes>>

Name == Items[stage.item]
Stored == Cardinality({<<n, c>> \in Names \X (1..3) : c <= Size(root[n])})

\* The partial file is truncated, whatever it held.
OpenPartial ==
    /\ stage.at = "opening"
    /\ stage' = [stage EXCEPT !.at = "copying", !.read = Nothing]
    /\ free' = free + Size(root[PartialOf[Name]])
    /\ root' = [root EXCEPT ![PartialOf[Name]] = Nothing]
    /\ UNCHANGED <<kind, source, created, taken, budget, used, changes>>

\* Any failure of stage_pinned_pack removes the directory again.
RemoveRoot == created' = FALSE /\ root' = Empty /\ free' = free + Stored
Cleanup(error) == Fails(error) /\ RemoveRoot

\* A chunk is read, counted against the expected size, hashed and written.
CopyChunk ==
    /\ stage.at = "copying" /\ Len(stage.read) < Len(source[stage.item])
    /\ LET chunk == source[stage.item][Len(stage.read) + 1]
       IN  IF Len(stage.read) + 1 > Len(Expected) THEN Cleanup("identity_mismatch")
           ELSE IF free = 0 THEN Cleanup("io_error")
           ELSE /\ stage' = [stage EXCEPT !.read = Append(@, chunk)]
                /\ root' = [root EXCEPT ![PartialOf[Name]] = Append(@, chunk)]
                /\ free' = free - 1
                /\ UNCHANGED created
    /\ UNCHANGED <<kind, source, taken, budget, used, changes>>

\* Fault: the original is hashed instead of what was copied.
OriginalMatches == source[stage.item] = Expected

CopyMatches == stage.read = Expected

Renamed == [root EXCEPT ![Name] = root[PartialOf[Name]], ![PartialOf[Name]] = Absent]

NextItem == IF stage.item < Len(Items) THEN [stage EXCEPT !.item = @ + 1, !.at = "opening"]
                                       ELSE [stage EXCEPT !.at = "pinned"]

FinishCopy ==
    /\ stage.at = "copying" /\ Len(stage.read) >= Len(source[stage.item])
    /\ IF ~CopyMatches THEN Cleanup("identity_mismatch")
       ELSE /\ root' = Renamed
            /\ stage' = NextItem
            /\ free' = free + Size(root[Name])
            /\ UNCHANGED created
    /\ UNCHANGED <<kind, source, taken, budget, used, changes>>

\* PinnedPack::remove
Remove ==
    /\ stage.at = "pinned"
    /\ stage' = [stage EXCEPT !.at = "removed"]
    /\ RemoveRoot
    /\ UNCHANGED <<kind, source, taken, budget, used, changes>>

\* check_material_consumption, with the identity of what was read, if it could be read.
ConsumptionVerdict(content) ==
    IF content = Absent THEN "identity_unavailable"
    ELSE IF content # Expected THEN "identity_changed" ELSE "permit"

Consume(i) ==
    /\ stage.at = "pinned"
    /\ used' = [verdict |-> ConsumptionVerdict(root[Items[i]]), content |-> root[Items[i]]]
    /\ UNCHANGED <<kind, source, created, root, free, taken, budget, stage, changes>>

(****************************************************************************)
(* Other programs                                                            *)
(****************************************************************************)
OthersChange ==
    /\ changes < MaxChanges /\ changes' = changes + 1
    /\ \/ \E i \in DOMAIN Items, n \in 1..2 :
            source' = [source EXCEPT ![i] = [@ EXCEPT ![n] = 1 - @]] /\ UNCHANGED <<free, taken>>
       \/ \E i \in DOMAIN Items :
            /\ Len(source[i]) < 3 /\ source' = [source EXCEPT ![i] = Append(@, 0)]
            /\ UNCHANGED <<free, taken>>
       \/ free > 0 /\ free' = free - 1 /\ taken' = taken + 1 /\ UNCHANGED source
    /\ UNCHANGED <<kind, created, root, budget, stage, used>>

Next == \/ CheckBudget \/ InspectPack \/ InspectGame \/ CreateRoot \/ OpenPartial \/ CopyChunk \/ FinishCopy
        \/ Remove \/ (\E i \in DOMAIN Items : Consume(i)) \/ OthersChange
Spec == Init /\ [][Next]_vars

--------------------------------------------------------------------------------
\* A material copied after another one through a partial file of that one's name.
Overwritten(i) == \E j \in DOMAIN Items : j > i /\ PartialOf[Items[j]] = Items[i]

(* What was staged is what was identified, although the originals change     *)
(* between the look at their sizes and the last chunk copied: every material *)
(* of the staging directory has the expected content, nothing else is in it, *)
(* and a failure leaves no directory behind.  A logical path that is the     *)
(* name of another material's partial file is the exception: the later copy  *)
(* takes it away (pinned_pack.cpp: copy_verified, stage_pinned_pack;         *)
(* pinned_game_materials.cpp).                                               *)
StagedIsVerified ==
    /\ stage.at = "pinned" =>
        \A i \in DOMAIN Items :
            /\ root[Items[i]] = IF Overwritten(i) THEN Absent ELSE Expected
            /\ ~(\E j \in DOMAIN Items : PartialOf[Items[i]] = Items[j])
                    => root[PartialOf[Items[i]]] = Absent
    /\ stage.error \notin {"none", "staging_path_exists"} =>
            ~created \/ root = Empty

(* Staging leaves the room it promised: the space reserved for the evidence  *)
(* is still free unless others took it, at every moment of the copy          *)
(* (material_staging_budget.cpp: check_material_staging_budget).             *)
EvidenceRoomStays == budget = "permit" => free + taken >= Reserve
================================================================================
