------------------------------- MODULE References -------------------------------
(***************************************************************************)
(* The immutable reference of a campaign: reference.toml, written once     *)
(* into the directory of the evidence and read when a check is asked to    *)
(* compare with it.  The document is its lines in the order the library    *)
(* prints them: the values of a table, then its tables, then its arrays of *)
(* tables, each by name.  The file is created exclusively and then written *)
(* bit by bit: it can be read, or the process can die, in between.         *)
(***************************************************************************)
EXTENDS Naturals, Sequences, FiniteSets
LOCAL INSTANCE SequencesExt
CONSTANTS Refs,          \* the references the program is asked to write
          MaxLines,      \* max_metadata_bytes, in lines
          MaxEntries,    \* max_reference_materials, _conditions and _differences
          MaxWrites      \* calls of write_immutable_reference
VARIABLES exists,   \* reference.toml is there
          lines,    \* what it holds
          author,   \* the reference whose writing created it (a sequence of at most one)
          open,     \* lines still to write by the call under way, and whether one is
          writes,   \* calls made
          stored,   \* a call answered that the reference is stored
          answer    \* what read_reference last returned

vars == <<exists, lines, author, open, writes, stored, answer>>

Origins == {"unknown", "user_declaration", "configuration", "artifact_manifest",
            "content_measurement", "runtime_observation"}
Roles == {"rom", "core", "pack", "take", "external_asset", "engine_build", "runtime_build"}
Stabilities == {"unverified", "verified", "changed"}
ReferenceRoles == {"initial", "extended"}
BuildTexts == {"release", "commit", "variant", "abi"}

(* reference_model.cpp: structural consistency. *)
Identifier(text) == text # ""
Attributed(p) == p.origin \in Origins \ {"unknown"} /\ Identifier(p.evidence_id)
Unattributed(p) == p.origin = "unknown" /\ p.evidence_id = ""
Valid(r) == (r.value = << >> /\ Unattributed(r.provenance)) \/ Attributed(r.provenance)
ValidBuild(b) == Valid(b.artifact) /\ \A t \in BuildTexts : Valid(b[t])
WellFormedMaterial(m) ==
    /\ Identifier(m.material_id) /\ m.role \in Roles
    /\ Valid(m.source_locator) /\ Valid(m.format_version) /\ Valid(m.identified) /\ Valid(m.consumed)
    /\ \/ /\ m.stability = "unverified"
          /\ Unattributed(m.stability_provenance) \/ Attributed(m.stability_provenance)
       \/ /\ m.stability \in {"verified", "changed"}
          /\ Attributed(m.stability_provenance)
          /\ m.identified.value # << >> /\ m.consumed.value # << >>
          /\ (m.stability = "verified") <=> (m.identified.value = m.consumed.value)
WellFormed(r) ==
    /\ Identifier(r.baseline_id) /\ Identifier(r.execution_reference_id) /\ r.role \in ReferenceRoles
    /\ \A list \in {Len(r.materials), Len(r.conditions), Len(r.declared_differences)} : list <= MaxEntries
    /\ ValidBuild(r.engine) /\ ValidBuild(r.runtime) /\ Valid(r.conditions_manifest_id)
    /\ \A m \in ToSet(r.materials) : WellFormedMaterial(m)
    /\ \A c \in ToSet(r.conditions) : Identifier(c.key) /\ Valid(c.value)
    /\ \A d \in ToSet(r.declared_differences) : Valid(d)

(* Printing: a line is a value of a table, or the head of a table (no key). *)
Line(table, key, value) == <<[table |-> table, key |-> key, value |-> value]>>
Head0(table) == Line(table, "", "")
Presence(r) == IF r.value = << >> THEN "false" ELSE "true"

ProvenanceLines(t, p) == Head0(t) \o Line(t, "evidence_id", p.evidence_id) \o Line(t, "origin", p.origin)
TextLines(t, r) ==
    Head0(t) \o Line(t, "available", Presence(r)) \o Line(t, "evidence_id", r.provenance.evidence_id)
      \o Line(t, "origin", r.provenance.origin)
      \o (IF r.value = << >> THEN << >> ELSE Line(t, "value", r.value[1]))
IdentityLines(t, r) ==
    Head0(t) \o Line(t, "available", Presence(r))
      \o (IF r.value = << >> THEN << >> ELSE Line(t, "byte_size", r.value[1].byte_size))
      \o Line(t, "evidence_id", r.provenance.evidence_id) \o Line(t, "origin", r.provenance.origin)
      \o (IF r.value = << >> THEN << >> ELSE Line(t, "sha256", r.value[1].sha256))
BuildLines(t, b) ==
    Head0(t) \o TextLines(Append(t, "abi"), b.abi) \o IdentityLines(Append(t, "artifact"), b.artifact)
      \o TextLines(Append(t, "commit"), b.commit) \o TextLines(Append(t, "release"), b.release)
      \o TextLines(Append(t, "variant"), b.variant)
MaterialLines(t, m) ==
    Head0(t) \o Line(t, "material_id", m.material_id) \o Line(t, "role", m.role)
      \o Line(t, "stability", m.stability) \o IdentityLines(Append(t, "consumed"), m.consumed)
      \o TextLines(Append(t, "format_version"), m.format_version)
      \o IdentityLines(Append(t, "identified"), m.identified)
      \o TextLines(Append(t, "source_locator"), m.source_locator)
      \o ProvenanceLines(Append(t, "stability_provenance"), m.stability_provenance)
ConditionLines(t, c) ==
    Head0(t) \o Line(t, "key", c.key) \o TextLines(Append(t, "recorded"), c.value)

Places == <<"1", "2", "3">>
Root == << >>
Entry(name, i) == <<name, Places[i]>>
EmptyArray(name, list) == IF list = << >> THEN Line(Root, name, "[]") ELSE << >>
ArrayLines(name, list, LinesOf(_, _)) ==
    FlattenSeq([i \in DOMAIN list |-> LinesOf(Entry(name, i), list[i])])
Encode(r) ==
    Line(Root, "baseline_id", r.baseline_id) \o EmptyArray("conditions", r.conditions)
      \o EmptyArray("declared_differences", r.declared_differences)
      \o Line(Root, "execution_reference_id", r.execution_reference_id) \o Line(Root, "kind", "reference")
      \o EmptyArray("materials", r.materials) \o Line(Root, "role", r.role)
      \o Line(Root, "schema_minor", "0") \o Line(Root, "schema_version", "1")
      \o TextLines(<<"conditions_manifest_id">>, r.conditions_manifest_id)
      \o BuildLines(<<"engine">>, r.engine) \o BuildLines(<<"runtime">>, r.runtime)
      \o ArrayLines("conditions", r.conditions, ConditionLines)
      \o ArrayLines("declared_differences", r.declared_differences, TextLines)
      \o ArrayLines("materials", r.materials, MaterialLines)

(* Reading.  A part that cannot be read makes the whole document invalid: its
   reader says whether it can be, and what it says otherwise. *)
Has(doc, t, key) == \E i \in DOMAIN doc : doc[i].table = t /\ doc[i].key = key
Text(doc, t, key) == doc[CHOOSE i \in DOMAIN doc : doc[i].table = t /\ doc[i].key = key].value
OneOf(doc, t, key, names) == Has(doc, t, key) /\ Text(doc, t, key) \in names

ReadsProvenance(doc, t) ==
    Has(doc, t, "") /\ OneOf(doc, t, "origin", Origins) /\ Has(doc, t, "evidence_id")
ProvenanceOf(doc, t) == [origin |-> Text(doc, t, "origin"), evidence_id |-> Text(doc, t, "evidence_id")]

ReadsText(doc, t) ==
    /\ OneOf(doc, t, "available", {"true", "false"}) /\ ReadsProvenance(doc, t)
    /\ (Text(doc, t, "available") = "true") <=> Has(doc, t, "value")
TextOf(doc, t) ==
    [value |-> IF Has(doc, t, "value") THEN <<Text(doc, t, "value")>> ELSE << >>,
     provenance |-> ProvenanceOf(doc, t)]

ReadsIdentity(doc, t) ==
    /\ OneOf(doc, t, "available", {"true", "false"}) /\ ReadsProvenance(doc, t)
    /\ \A key \in {"sha256", "byte_size"} : (Text(doc, t, "available") = "true") <=> Has(doc, t, key)
IdentityOf(doc, t) ==
    [value |-> IF Has(doc, t, "sha256")
               THEN <<[sha256 |-> Text(doc, t, "sha256"), byte_size |-> Text(doc, t, "byte_size")]>>
               ELSE << >>,
     provenance |-> ProvenanceOf(doc, t)]

ReadsBuild(doc, t) ==
    Has(doc, t, "") /\ ReadsIdentity(doc, Append(t, "artifact")) /\
    \A text \in BuildTexts : ReadsText(doc, Append(t, text))
BuildOf(doc, t) ==
    [artifact |-> IdentityOf(doc, Append(t, "artifact")), release |-> TextOf(doc, Append(t, "release")),
     commit |-> TextOf(doc, Append(t, "commit")), variant |-> TextOf(doc, Append(t, "variant")),
     abi |-> TextOf(doc, Append(t, "abi"))]

ReadsMaterial(doc, t) ==
    /\ Has(doc, t, "material_id") /\ OneOf(doc, t, "role", Roles) /\ OneOf(doc, t, "stability", Stabilities)
    /\ ReadsText(doc, Append(t, "source_locator")) /\ ReadsText(doc, Append(t, "format_version"))
    /\ ReadsIdentity(doc, Append(t, "identified")) /\ ReadsIdentity(doc, Append(t, "consumed"))
    /\ ReadsProvenance(doc, Append(t, "stability_provenance"))
MaterialOf(doc, t) ==
    [material_id |-> Text(doc, t, "material_id"), role |-> Text(doc, t, "role"),
     stability |-> Text(doc, t, "stability"),
     source_locator |-> TextOf(doc, Append(t, "source_locator")),
     format_version |-> TextOf(doc, Append(t, "format_version")),
     identified |-> IdentityOf(doc, Append(t, "identified")),
     consumed |-> IdentityOf(doc, Append(t, "consumed")),
     stability_provenance |-> ProvenanceOf(doc, Append(t, "stability_provenance"))]

ReadsCondition(doc, t) == Has(doc, t, "key") /\ ReadsText(doc, Append(t, "recorded"))
ConditionOf(doc, t) == [key |-> Text(doc, t, "key"), value |-> TextOf(doc, Append(t, "recorded"))]

\* The entries of an array of tables; the array itself must be there.
Entries(doc, name) == {i \in DOMAIN Places : Has(doc, Entry(name, i), "")}
ReadsArray(doc, name, Reads(_, _)) ==
    /\ Has(doc, Root, name) \/ Entries(doc, name) # {}
    /\ Cardinality(Entries(doc, name)) <= MaxEntries
    /\ \A i \in Entries(doc, name) : Reads(doc, Entry(name, i))
ArrayOf(doc, name, Of(_, _)) == [i \in 1..Cardinality(Entries(doc, name)) |-> Of(doc, Entry(name, i))]

DocumentOf(doc) ==
    [baseline_id |-> Text(doc, Root, "baseline_id"),
     execution_reference_id |-> Text(doc, Root, "execution_reference_id"),
     role |-> Text(doc, Root, "role"), engine |-> BuildOf(doc, <<"engine">>),
     runtime |-> BuildOf(doc, <<"runtime">>),
     conditions_manifest_id |-> TextOf(doc, <<"conditions_manifest_id">>),
     materials |-> ArrayOf(doc, "materials", MaterialOf),
     conditions |-> ArrayOf(doc, "conditions", ConditionOf),
     declared_differences |-> ArrayOf(doc, "declared_differences", TextOf)]
ReadsDocument(doc) ==
    /\ Has(doc, Root, "baseline_id") /\ Has(doc, Root, "execution_reference_id")
    /\ OneOf(doc, Root, "role", ReferenceRoles)
    /\ ReadsBuild(doc, <<"engine">>) /\ ReadsBuild(doc, <<"runtime">>)
    /\ ReadsText(doc, <<"conditions_manifest_id">>)
    /\ ReadsArray(doc, "materials", ReadsMaterial)
    /\ ReadsArray(doc, "conditions", ReadsCondition)
    /\ ReadsArray(doc, "declared_differences", ReadsText)

\* read_reference: its error, or "none" and the reference (a sequence of at most one).
Answer(error, found) == [error |-> error, found |-> found]
Decode(doc) ==
    IF Len(doc) > MaxLines THEN Answer("document_too_large", << >>)
    ELSE IF ~(OneOf(doc, Root, "schema_version", {"1"}) /\ OneOf(doc, Root, "schema_minor", {"0"}))
         THEN Answer("incompatible_version", << >>)
    ELSE IF ~OneOf(doc, Root, "kind", {"reference"}) THEN Answer("invalid_document", << >>)
    ELSE IF ~ReadsDocument(doc) THEN Answer("invalid_document", << >>)
    ELSE IF ~WellFormed(DocumentOf(doc)) THEN Answer("invalid_document", << >>)
    ELSE Answer("none", <<DocumentOf(doc)>>)

Closed == [active |-> FALSE, left |-> << >>]

Init ==
    /\ exists = FALSE /\ lines = << >> /\ author = << >> /\ open = Closed
    /\ writes = 0 /\ stored = FALSE /\ answer = Answer("unread", << >>)

\* write_immutable_reference up to the creation of the file.
StartWrite ==
    /\ ~open.active /\ writes < MaxWrites /\ writes' = writes + 1
    /\ \E r \in Refs :
        IF ~WellFormed(r) \/ Len(Encode(r)) > MaxLines \/ exists
        THEN UNCHANGED <<exists, author, open>>
        ELSE /\ exists' = TRUE
             /\ author' = <<r>>
             /\ open' = [active |-> TRUE, left |-> Encode(r)]
    /\ UNCHANGED <<lines, stored, answer>>

\* One call of write, of any length.
WriteSome ==
    /\ open.active /\ open.left # << >>
    /\ \E n \in 1..Len(open.left) :
        /\ lines' = lines \o SubSeq(open.left, 1, n)
        /\ open' = [open EXCEPT !.left = SubSeq(@, n + 1, Len(@))]
    /\ UNCHANGED <<exists, author, writes, stored, answer>>

\* A write or the close fails: the file is removed, if that succeeds.
WriteFails ==
    /\ open.active
    /\ open' = Closed
    /\ \/ exists' = FALSE /\ lines' = << >> /\ author' = << >>
       \/ UNCHANGED <<exists, lines, author>>
    /\ answer' = Answer("unread", << >>)
    /\ UNCHANGED <<writes, stored>>

Close ==
    /\ open.active /\ open.left = << >>
    /\ open' = Closed /\ stored' = TRUE /\ answer' = Answer("unread", << >>)
    /\ UNCHANGED <<exists, lines, author, writes>>

\* The process dies between two writes; what was written stays.
Crash ==
    /\ open.active
    /\ open' = Closed
    /\ UNCHANGED <<exists, lines, author, writes, stored, answer>>

Read ==
    /\ answer' = IF exists THEN Decode(lines) ELSE Answer("io_error", << >>)
    /\ UNCHANGED <<exists, lines, author, open, writes, stored>>

Next == StartWrite \/ WriteSome \/ WriteFails \/ Close \/ Crash \/ Read
Spec == Init /\ [][Next]_vars

(***************************************************************************)
(* A stored reference stays what it was: once a call has said it stored a  *)
(* reference, every reading finds exactly that reference, whatever later   *)
(* calls ask for.  Before, while it is half written or after a crash left  *)
(* it so, a reading finds nothing, or the reference without the end of the *)
(* one list the writing had not finished: never other values or builds.    *)
(***************************************************************************)
Lists == {"materials", "conditions", "declared_differences"}
StoredStaysReadable ==
    /\ stored => answer \in {Answer("unread", << >>), Answer("none", author)}
    /\ answer.error = "none" =>
        LET r == answer.found[1]
        IN  /\ \A part \in DOMAIN r \ Lists : r[part] = author[1][part]
            /\ \A list \in Lists : IsPrefix(r[list], author[1][list])
            /\ Cardinality({list \in Lists : r[list] # author[1][list]}) <= 1
================================================================================
