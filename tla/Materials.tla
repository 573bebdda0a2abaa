------------------------------ MODULE Materials ------------------------------
(***************************************************************************)
(* The materials of a replay request: what the request is after its        *)
(* sources are resolved (effective_values.cpp), how its files are pinned,  *)
(* inspected and probed before admission (request_preflight.cpp,           *)
(* material_preflight.cpp, runtime_probe.cpp), and how the files of one    *)
(* take are held while it runs.                                            *)
(*                                                                         *)
(* The disk is a function from roles to contents; every operator takes it  *)
(* as a parameter, because each reads the files again by their path.       *)
(***************************************************************************)
EXTENDS Naturals, Sequences, SequencesExt

Roles == {"runtime", "rom", "core", "registry", "pack", "take", "timeline", "state", "sidecar",
          "patch"}

(***************************************************************************)
(* "none" is missing; "busy" cannot be read, or is a directory or a link;  *)
(* "bad" is a readable file nothing can use; "v1" and "v2" are usable and  *)
(* differ:                                                                 *)
(*   runtime    v1 does not offer timelines                                *)
(*   core       v2 has a timing at which the take v2 is too long           *)
(*   pack       v2 names the ROM v2                                        *)
(*   take       v2 names the ROM v1                                        *)
(*   timeline   v2 starts from the bookmark "state"                        *)
(* A patch that is not usable is one with which the Engine, which is not   *)
(* in this repository, makes no session.                                   *)
(***************************************************************************)
Usable == {"v1", "v2"}
Readable == Usable \cup {"bad"}
Contents == Readable \cup {"none", "busy"}

Platforms == {"md", "sms"}

-----------------------------------------------------------------------------
(* The request.  `manifest' is the auxiliary source: it may name the ROM of *)
(* the request, and then gives the core, or another one, or be unreadable.  *)

(* explicit > Play manifest > environment; "" when no source gives one. *)
EffectiveCore(q) ==
    IF q.core # "" THEN q.core
    ELSE IF q.manifest = "same" THEN "own"
    ELSE q.rom                              \* the environment: the core of the platform

ResolveIssues(q) ==
    CASE q.manifest = "broken" -> {"play_manifest_unavailable"}
      [] q.manifest = "other" -> {"play_manifest_rom_mismatch"}
      [] OTHER -> {}

(* missing_required: the ROM, and one of the group of takes and timelines. *)
Complete(q) == q.rom # "" /\ q.slots # <<>>

UsesPack(q) == q.pack \in {"hd", "trusted"}
UsesRegistry(q) == q.pack = "trusted"

(* The soft patch is a condition of the request, not a material: it is      *)
(* given to the Runtime by its path, and has no MaterialPinRole.            *)
UsesPatch(q) == q.patch

Has(q, kind) == \E i \in DOMAIN q.slots : q.slots[i] = kind

-----------------------------------------------------------------------------
(* Pinning. *)

PinCode(content) ==
    CASE content = "none" -> "material_not_found"
      [] content = "busy" -> "material_in_use"

Common(q) ==
    {"runtime", "rom", "core"} \cup (IF UsesRegistry(q) THEN {"registry"} ELSE {})
                               \cup (IF UsesPack(q) THEN {"pack"} ELSE {})

(* is_regular_file: the side car of a bookmark is optional. *)
SidecarSeen(d) == d["sidecar"] \in Readable \cup {"busy"}

(* The files of a slot, read off the timeline that was pinned. *)
SlotRoles(kind, d) ==
    IF kind = "take" THEN {"take"}
    ELSE {"timeline"} \cup
         (IF d["timeline"] # "v2" THEN {}
          ELSE {"state"} \cup (IF SidecarSeen(d) THEN {"sidecar"} ELSE {}))

SlotPins(q, kind, d) == Common(q) \cup SlotRoles(kind, d)

(* inspect_take, take_state_issue and take_fm_registers_issue, on the bytes *)
(* that were pinned.                                                        *)
TakeIssues(d) ==
    IF d["take"] \notin Readable THEN {<<"take", PinCode(d["take"])>>}
    ELSE IF d["take"] = "bad" THEN {<<"take", "take_invalid_layout">>}
    ELSE {}

(* inspect_timeline, then the bookmark and its side car. *)
TimelineIssues(d) ==
    IF d["timeline"] \notin Readable THEN {<<"timeline", PinCode(d["timeline"])>>}
    ELSE IF d["timeline"] = "bad" THEN {<<"timeline", "timeline_syntax_invalid">>}
    ELSE IF d["timeline"] = "v1" THEN {}
    ELSE IF d["state"] \notin Readable THEN {<<"timeline", "timeline_state_unavailable">>}
    ELSE IF SidecarSeen(d) /\ d["sidecar"] \notin Usable
         THEN {<<"timeline", "timeline_fm_sidecar_invalid">>}
    ELSE {}

PinIssues(q, d) ==
    {<<r, PinCode(d[r])>> : r \in {x \in Common(q) : d[x] \notin Readable}}
    \cup (IF Has(q, "take") THEN TakeIssues(d) ELSE {})
    \cup (IF Has(q, "timeline") THEN TimelineIssues(d) ELSE {})

-----------------------------------------------------------------------------
(* Probing.  p is the disk the materials were pinned from, d the disk when  *)
(* the Runtime is asked; `answers' is whether its process answers in time.  *)

Pinned(p, r) == p[r] \in Readable

Identified(p, d) == Pinned(p, "runtime") /\ d["runtime"] \in Readable

(* identify_runtime_binary, the capabilities and the protocol. *)
RuntimeIssues(q, p, d, answers) ==
    IF ~Pinned(p, "runtime") THEN {}
    ELSE IF ~Identified(p, d) THEN {<<"runtime", "runtime_identity_unavailable">>}
    ELSE IF d["runtime"] = "bad" \/ ~answers THEN {<<"runtime", "runtime_incompatible">>}
    ELSE IF d["runtime"] = "v1" /\ Has(q, "timeline")
         THEN {<<"runtime", "runtime_timeline_unsupported">>}
    ELSE {}

CoreAsked(p, d) == Identified(p, d) /\ Pinned(p, "core") /\ Pinned(p, "rom")

(* probe_core and core_issue: core and ROM, with the patch of the launch. *)
CoreIssues(q, p, d, answers) ==
    IF ~CoreAsked(p, d) THEN {}
    ELSE IF ~answers THEN {<<"runtime", "runtime_probe_failed">>}
    ELSE IF d["core"] \notin Usable THEN {<<"core", "core_invalid">>}
    ELSE IF EffectiveCore(q) \notin {"own", q.rom} THEN {<<"core", "core_platform_mismatch">>}
    ELSE IF \/ d["rom"] \notin Usable
            \/ UsesPatch(q) /\ d["patch"] \notin Usable
         THEN {<<"core", "core_rejects_rom">>}
    ELSE {}

CoreProbed(q, p, d, answers) == CoreAsked(p, d) /\ CoreIssues(q, p, d, answers) = {}

PackAsked(q, p, d) ==
    /\ Identified(p, d) /\ UsesPack(q) /\ Pinned(p, "pack")
    /\ UsesRegistry(q) => Pinned(p, "registry")

(* probe_pack and pack_issue. *)
PackIssues(q, p, d, answers) ==
    IF ~PackAsked(q, p, d) THEN {}
    ELSE IF ~answers THEN {<<"runtime", "runtime_probe_failed">>}
    ELSE IF UsesRegistry(q) /\ d["registry"] \notin Usable
         THEN {<<"registry", "trust_registry_invalid">>}
    ELSE IF d["pack"] \notin Usable THEN {<<"pack", "pack_unusable">>}
    ELSE {}

(* The takes and the pack belong to the ROM, and the takes last at most     *)
(* 900 s at the timing of the core.                                         *)
GameIssues(q, p, d, answers) ==
    (IF /\ Pinned(p, "rom") /\ PackAsked(q, p, d) /\ PackIssues(q, p, d, answers) = {}
        /\ d["pack"] = "v2" /\ p["rom"] # "v2"
     THEN {<<"pack", "pack_game_mismatch">>} ELSE {})
    \cup (IF Pinned(p, "rom") /\ Has(q, "take") /\ p["take"] = "v2" /\ p["rom"] # "v1"
          THEN {<<"take", "take_game_mismatch">>} ELSE {})
    \cup (IF /\ CoreProbed(q, p, d, answers) /\ Has(q, "take")
             /\ p["take"] = "v2" /\ d["core"] = "v2"
          THEN {<<"take", "take_too_long">>} ELSE {})

ProbeIssues(q, p, d, answers) ==
    RuntimeIssues(q, p, d, answers) \cup CoreIssues(q, p, d, answers)
    \cup PackIssues(q, p, d, answers) \cup GameIssues(q, p, d, answers)

(* The optionals the preflight dereferences when it found no issue. *)
Dereferenced == {"runtime", "rom", "core", "identity", "core_probe", "protocol"}

Found(q, p, d, answers) ==
    {r \in {"runtime", "rom", "core"} : Pinned(p, r)}
    \cup (IF Identified(p, d) THEN {"identity"} ELSE {})
    \cup (IF CoreProbed(q, p, d, answers) THEN {"core_probe"} ELSE {})
    \cup (IF Identified(p, d) /\ RuntimeIssues(q, p, d, answers) = {} THEN {"protocol"} ELSE {})

-----------------------------------------------------------------------------
(* Holding: the files of a slot are opened and hashed again, and their      *)
(* handles kept until the take has ended.                                   *)

\* Fault: a file that can be opened is taken for the one that was pinned.
HoldsAnyFile(role, p, d) ==
    CASE d[role] = "none" -> "material_unavailable"
      [] d[role] = "busy" -> "material_in_use"
      [] OTHER -> ""
HoldCode(role, p, d) ==
    CASE d[role] = "none" -> "material_unavailable"
      [] d[role] = "busy" -> "material_in_use"
      [] d[role] # p[role] -> "material_changed"
      [] OTHER -> ""

(* What the Runtime opens for a slot, by the same paths, and its patch. *)
RuntimeReads(q, kind, d) == SlotPins(q, kind, d) \cup (IF UsesPatch(q) THEN {"patch"} ELSE {})
=============================================================================
