---------------------------- MODULE IsolatedSaves ----------------------------
(****************************************************************************)
(* Isolation of the user's data while a Runtime of the QA runs: the private  *)
(* directory it gets instead (prepare_isolated_saves), the snapshot of the   *)
(* user's tree before the run and its verification after it, with the user's *)
(* own programs writing meanwhile and a Runtime that may not keep to its     *)
(* directory.                                                                *)
(*                                                                           *)
(* A path is a sequence of names; the name "l" is a link to the directory    *)
(* <<"u">>.  The tree maps every existing path to "dir" or to a content.     *)
(****************************************************************************)
EXTENDS Integers, Sequences, FiniteSets, SequencesExt

CONSTANTS
    UserPaths, PrivatePaths,    \* the arguments of prepare_isolated_saves
    MaxEntries,                 \* max_user_save_entries
    MaxChanges                  \* bound on what the user's programs and a stray Runtime write

VARIABLES
    user, private,  \* the two paths
    tree,           \* the files and directories, by canonical path
    phase,          \* where the preparation and its use stand
    walk,           \* the entries seen by the snapshot being taken, the rest to see
    snapshot,       \* user_snapshot_
    verdict,        \* verify_user_saves_unchanged, or the error of the preparation
    mine,           \* the user's tree as the user's programs left it
    changes, strayed
vars == <<user, private, tree, phase, walk, snapshot, verdict, mine, changes, strayed>>

LinkTarget == <<"u">>
Contents == {"x", "y"}
NoEntries == [p \in {} |-> "dir"]

Canonical(path) == IF path # << >> /\ Head(path) = "l" THEN LinkTarget \o Tail(path) ELSE path
Exists(path) == Canonical(path) \in DOMAIN tree
IsLink(path) == path = <<"l">>

\* A path that does not exist yet is taken relative to its canonical parent.
AbsoluteNormal(path) ==
    IF Exists(path) THEN Canonical(path) ELSE Canonical(Front(path)) \o <<Last(path)>>

\* Fault: the paths are compared as they were given.
AsGiven(parent, candidate) == IsPrefix(user, private) \/ IsPrefix(private, user)

PathContains(parent, candidate) == IsPrefix(parent, candidate)

Overlap == \/ PathContains(AbsoluteNormal(user), AbsoluteNormal(private))
           \/ PathContains(AbsoluteNormal(private), AbsoluteNormal(user))

Below(root) == {p \in DOMAIN tree : IsStrictPrefix(root, p)}
Under(root) == {p \in DOMAIN tree : IsPrefix(root, p)}
Only(entries) == [p \in entries |-> tree[p]]
With(f, p, v) == [q \in DOMAIN f \cup {p} |-> IF q = p THEN v ELSE f[q]]
Without(f, paths) == [q \in DOMAIN f \ paths |-> f[q]]

Init ==
    /\ user \in UserPaths /\ private \in PrivatePaths
    /\ tree \in {With(With(With(With(NoEntries, <<"u">>, "dir"), <<"q">>, "dir"), <<"u", "a">>, "x"),
                      <<"u", "s">>, "dir"),
                 With(With(NoEntries, <<"u">>, "dir"), <<"q">>, "dir")}
    /\ phase = "new" /\ verdict = "none"
    /\ walk = [seen |-> NoEntries, left |-> {}]
    /\ snapshot = [existed |-> FALSE, entries |-> NoEntries]
    /\ mine = Only(Under(Canonical(user)))
    /\ changes = 0 /\ strayed = FALSE

Fails(error) == phase' = "failed" /\ verdict' = error

CheckOverlap ==
    /\ phase = "new"
    /\ IF Overlap THEN Fails("overlapping_paths") ELSE phase' = "snapshot" /\ UNCHANGED verdict
    /\ UNCHANGED <<user, private, tree, walk, snapshot, mine, changes, strayed>>

(****************************************************************************)
(* snapshot_save_tree                                                        *)
(****************************************************************************)
\* Nothing to walk: no directory at all, a link or a file in its place.
Stops(result, error) ==
    IF phase = "snapshot"
    THEN IF error = "none" THEN phase' = "create" /\ snapshot' = result /\ UNCHANGED verdict
                           ELSE Fails(error) /\ UNCHANGED snapshot
    ELSE /\ phase' = "verified" /\ UNCHANGED snapshot
         /\ verdict' = IF error # "none" THEN error
                       ELSE IF result = snapshot THEN "unchanged" ELSE "changed"

StartWalk ==
    /\ phase \in {"snapshot", "verify"} /\ walk = [seen |-> NoEntries, left |-> {}]
    /\ IF ~Exists(user) THEN Stops([existed |-> FALSE, entries |-> NoEntries], "none") /\ UNCHANGED walk
       ELSE IF IsLink(user) THEN Stops(snapshot, "unsupported_entry") /\ UNCHANGED walk
       ELSE IF tree[Canonical(user)] # "dir" THEN Stops(snapshot, "invalid_path") /\ UNCHANGED walk
       ELSE /\ walk' = [seen |-> NoEntries, left |-> Below(Canonical(user)) \cup {<<"end">>}]
            /\ UNCHANGED <<phase, verdict, snapshot>>
    /\ UNCHANGED <<user, private, tree, mine, changes, strayed>>

\* A directory is noted as such, a file by what is read of it.
Identified(p) == tree[p]

\* The next entry, which may be gone.
VisitEntry(p) ==
    /\ p \in walk.left \ {<<"end">>}
    /\ LET done == [seen |-> NoEntries, left |-> {}]
       IN  IF Cardinality(DOMAIN walk.seen) >= MaxEntries
           THEN Stops(snapshot, "too_many_entries") /\ walk' = done
           ELSE IF p \notin DOMAIN tree THEN Stops(snapshot, "io_error") /\ walk' = done
           ELSE /\ walk' = [seen |-> With(walk.seen, p, Identified(p)), left |-> walk.left \ {p}]
                /\ UNCHANGED <<phase, verdict, snapshot>>
    /\ UNCHANGED <<user, private, tree, mine, changes, strayed>>

\* A listing may miss an entry that appeared behind it, or meet it.
MeetNewEntry(p) ==
    /\ p \in Below(Canonical(user)) \ (walk.left \cup DOMAIN walk.seen) /\ walk.left # {}
    /\ walk' = [walk EXCEPT !.left = @ \cup {p}]
    /\ UNCHANGED <<user, private, tree, phase, snapshot, verdict, mine, changes, strayed>>

\* An entry removed before the listing reached it is not met.
MissRemovedEntry(p) ==
    /\ p \in walk.left \ ({<<"end">>} \cup DOMAIN tree)
    /\ walk' = [walk EXCEPT !.left = @ \ {p}]
    /\ UNCHANGED <<user, private, tree, phase, snapshot, verdict, mine, changes, strayed>>

EndWalk ==
    /\ walk.left = {<<"end">>}
    /\ Stops([existed |-> TRUE, entries |-> walk.seen], "none")
    /\ walk' = [seen |-> NoEntries, left |-> {}]
    /\ UNCHANGED <<user, private, tree, mine, changes, strayed>>

(****************************************************************************)
(* The private directory                                                     *)
(****************************************************************************)
CreatePrivate ==
    /\ phase = "create"
    /\ IF Exists(private) THEN Fails("staging_path_exists") /\ UNCHANGED tree
       ELSE IF ~Exists(Front(private)) THEN Fails("io_error") /\ UNCHANGED tree
       ELSE /\ tree' = With(tree, Canonical(private), "dir") /\ phase' = "prepared"
            /\ UNCHANGED verdict
    /\ UNCHANGED <<user, private, walk, snapshot, mine, changes, strayed>>

\* The Runtime keeps its configuration, states and saves in the directory it was given.
RuntimeWrites(content) ==
    /\ phase = "prepared"
    /\ tree' = With(tree, Canonical(private) \o <<"a">>, content)
    /\ UNCHANGED <<user, private, phase, walk, snapshot, verdict, mine, changes, strayed>>

\* A Runtime that does not: the reason for the verification.
RuntimeStrays(content) ==
    /\ phase = "prepared" /\ changes < MaxChanges
    /\ LET root == Canonical(user) IN
       /\ root \in DOMAIN tree
       /\ \/ tree' = With(tree, root \o <<"a">>, content)
          \/ tree' = Without(tree, {root \o <<"a">>})
          \/ tree' = With(tree, root \o <<"t">>, "dir")
    /\ strayed' = TRUE /\ changes' = changes + 1
    /\ UNCHANGED <<user, private, phase, walk, snapshot, verdict, mine>>

StartVerify ==
    /\ phase = "prepared" /\ phase' = "verify"
    /\ UNCHANGED <<user, private, tree, walk, snapshot, verdict, mine, changes, strayed>>

\* ~IsolatedSaves: the take may end before the verification.
RemovePrivate ==
    /\ phase \in {"prepared", "verified"}
    /\ phase' = "removed"
    /\ tree' = Without(tree, Under(Canonical(private)))
    /\ UNCHANGED <<user, private, walk, snapshot, verdict, mine, changes, strayed>>

\* The user's own programs.
UserWrites(content) ==
    /\ changes < MaxChanges /\ changes' = changes + 1 /\ ~strayed
    /\ LET root == Canonical(user) IN
       \/ /\ root \in DOMAIN tree
          /\ \/ tree' = With(tree, root \o <<"a">>, content)
             \/ tree' = Without(tree, {root \o <<"a">>})
       \/ root \notin DOMAIN tree /\ tree' = With(tree, root, "dir")
    /\ mine' = [p \in {q \in DOMAIN tree' : IsPrefix(Canonical(user), q)} |-> tree'[p]]
    /\ UNCHANGED <<user, private, phase, walk, snapshot, verdict, strayed>>

Next == \/ CheckOverlap \/ StartWalk \/ EndWalk \/ CreatePrivate \/ StartVerify \/ RemovePrivate
        \/ \E p \in DOMAIN tree \cup walk.left :
              VisitEntry(p) \/ MeetNewEntry(p) \/ MissRemovedEntry(p)
        \/ \E content \in Contents : RuntimeWrites(content) \/ RuntimeStrays(content)
                                     \/ UserWrites(content)
Spec == Init /\ [][Next]_vars

--------------------------------------------------------------------------------
UserTree == Only(Under(Canonical(user)))

(* Whatever the two paths are, given as they are or through a link, and      *)
(* whatever the user's programs do meanwhile, the QA neither adds an entry   *)
(* to the user's tree nor takes one away: preparing, running and removing    *)
(* the private directory leave it as the user's programs left it.            *)
(* (isolated_saves.cpp: absolute_normal, contains, prepare_isolated_saves,   *)
(* IsolatedSaves::remove)                                                    *)
UserDataUntouched == ~strayed => UserTree = mine

(* The verdict kept in the evidence tells a Runtime that strayed from one    *)
(* that did not: when the user's programs left their tree as the snapshot    *)
(* found it and the Runtime did not, it never says "unchanged", and when     *)
(* nobody wrote it says nothing else.                                        *)
(* (isolated_saves.cpp: snapshot_save_tree, verify_user_saves_unchanged;     *)
(* check_execution.cpp: runtime_data_isolated)                               *)
StrayingIsDetected == phase = "verified" =>
    /\ (strayed /\ Without(mine, {user}) = snapshot.entries /\ UserTree # mine) => verdict # "unchanged"
    /\ changes = 0 => verdict = "unchanged"
================================================================================
