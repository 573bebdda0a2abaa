----------------------------- MODULE PlayerProofs -----------------------------
(***************************************************************************)
(* Proofs about Player for any number of launches, frames, seconds, edits  *)
(* and faults and any buttons: what is played is the pack that was asked   *)
(* for, what the player was told is kept can be had again, and no button   *)
(* held since the menu closed reaches the game.                            *)
(***************************************************************************)
EXTENDS Player, TLAPS

-----------------------------------------------------------------------------
\* The inductive invariant.

\* The stages of a process: before the session exists, with it, and over.
Before == {"arguments", "native", "materials", "devices", "validate", "session"}
During == {"watch", "config", "resume", "events", "native loop", "reload", "step", "present",
           "write", "backup", "publish", "shutdown", "rename"}
Stages == Before \cup During \cup {"ended", "dead"}

Configs == [have : BOOLEAN, mask : {0, 1}, gain : {1, 2},
            output : {"", "recommended", "chosen"}]
Files == {NoFile} \cup [kind : {"whole"}, cfg : Configs]
Words == {"", "cli_invalid_argument", "protocol_incompatible", "probe", "pack_open_failed",
          "reservation_failed", "trust_registry_invalid", "input_map_invalid",
          "core_load_failed", "exit", "state_save_failed", "persistence_io_failed"}

Launches == [native : BOOLEAN, explicit : BOOLEAN, resume : Seconds \cup {NoState}]
Apps == [pc : Stages, code : Nat, said : Words, saving : Configs, key : Keys, had : BOOLEAN,
         second : Seconds]
Packs == [disk : PackKinds, rejected : BOOLEAN, held : PackKinds, watched : BOOLEAN,
          changed : BOOLEAN, due : BOOLEAN, missed : BOOLEAN]
Overlays == [paused : BOOLEAN, was : BOOLEAN, dirty : BOOLEAN, running : BOOLEAN,
             cfg : Configs, shown : BOOLEAN]
Sessions == [mask : {0, 1}, frame : Nat, played : SUBSET PackKinds]
Inputs == [down : SUBSET Buttons, gate : SUBSET Buttons, sent : SUBSET Buttons,
           tainted : SUBSET Buttons]
Pairs == [main : Files, bak : Files, tmp : Files, saved : Files]

Typed ==
    /\ req \in Launches
    /\ app \in Apps
    /\ pack \in Packs
    /\ ui \in Overlays
    /\ session \in Sessions
    /\ input \in Inputs
    /\ files \in [Keys -> Pairs]
    /\ states \in [at : [Seconds -> Nat \cup {NoState}], announced : SUBSET (Seconds \X Nat)]
    /\ count \in [launches : Nat, clock : Nat, events : Nat]

\* What an Engine gets of a file.
Opened(kind) == IF Opens(kind) THEN kind ELSE Absent

\* The session has the pack the player asked for, never a rejected one, and a watcher only of
\* a pack it was given.
PackFollows ==
    /\ app.pc \in Before => session.played = {} /\ pack.held = Absent /\ ~pack.watched
    /\ app.pc \in Before \ {"session"} => ~pack.rejected
    /\ req.explicit /\ app.pc \in During => pack.held # Absent
    /\ pack.rejected => ~pack.watched /\ pack.held = Absent
    /\ ~pack.watched => ~pack.changed /\ ~pack.due
    /\ At("watch") => /\ ~pack.watched
                      /\ ~pack.missed /\ ~pack.rejected => pack.held = Opened(pack.disk)

\* Every pair of files between two steps of player_config_save.
PairKept(pair) == pair.main \in {NoFile, pair.saved} /\ (pair.saved # NoFile => pair.saved \in {pair.main, pair.bak})
FilesKept ==
    /\ \A key \in Keys : PairKept(files[key])
    /\ At("backup") => (app.had <=> Prefs.main # NoFile)
    /\ At("publish") => Prefs.main = NoFile /\ (app.had => Prefs.bak = Prefs.saved)

\* A state is renamed to a name nobody has; a resumed state was announced.
StatesKept ==
    /\ At("rename") => states.at[app.second] = NoState
    /\ req.resume # NoState => states.at[req.resume] # NoState

\* What was held when the menu closed is masked, or will be at the next step.
GateFollows ==
    /\ input.tainted \subseteq input.down
    /\ ui.was \/ input.tainted \subseteq input.gate
    /\ ui.shown => ui.paused /\ ui.was
    /\ At("present") => ui.was = ui.paused

PlayerInv ==
    /\ Typed /\ PackFollows /\ FilesKept /\ StatesKept /\ GateFollows
    /\ PackIsTheOneAskedFor /\ KeptIsRecoverable

-----------------------------------------------------------------------------
\* Types.  The control of the process is written by a few operators.
LEMMA GotoTypes ==
    ASSUME app \in Apps, NEW pc \in Stages, Goto(pc)
    PROVE  app' \in Apps /\ app'.pc = pc
BY Zenon DEF Goto, Apps

LEMMA ExitTypes ==
    ASSUME app \in Apps, NEW code \in Nat, NEW word \in Words, Exit(code, word)
    PROVE  app' \in Apps /\ app'.pc = "ended"
<1>. DEFINE over == "ended"
<1>1. over \in Stages
  BY DEF Stages
<1>2. app' = [app EXCEPT !.pc = over, !.code = code, !.said = word]
  BY DEF Exit
<1>. HIDE DEF over
<1>3. app' \in Apps /\ app'.pc = over
  BY <1>1, <1>2, Zenon DEF Apps
<1>. QED  BY <1>3 DEF over

LEMMA DefaultsTypes == Defaults \in Configs
BY DEF Defaults, Configs

LEMMA HappensTypes ==
    ASSUME count \in [launches : Nat, clock : Nat, events : Nat], Happens
    PROVE  count' \in [launches : Nat, clock : Nat, events : Nat]
BY DEF Happens

\* The startup keeps the types.
LEMMA StartupTyped ==
    ASSUME Typed, Arguments \/ Materials \/ Devices \/ ValidatePack \/ CreateSession \/ Watch
    PROVE  Typed'
<1>1. CASE Arguments
  <2>1. app' \in Apps
    <3>1. CASE Goto(IF req.native THEN "native" ELSE "materials")
      BY <3>1, GotoTypes DEF Typed, Stages, Before, During
    <3>2. CASE \E code \in {64, 65} \cup ProbeCodes, word \in Words : Exit(code, word)
      BY <3>2, ExitTypes DEF Typed, ProbeCodes
    <3>. QED  BY <1>1, <3>1, <3>2 DEF Arguments, Words
  <2>2. count' \in [launches : Nat, clock : Nat, events : Nat]
    BY <1>1, HappensTypes DEF Arguments, Fault, Typed
  <2>. QED  BY <1>1, <2>1, <2>2 DEF Arguments, Typed
<1>2. CASE Materials
  <2>1. app' \in Apps
    <3>1. CASE Goto("devices")
      BY <3>1, GotoTypes DEF Typed, Stages, Before, During
    <3>2. CASE \E code \in {4, 64, 74, 78}, word \in Words : Exit(code, word)
      BY <3>2, ExitTypes DEF Typed
    <3>. QED  BY <1>2, <3>1, <3>2 DEF Materials, Words
  <2>2. count' \in [launches : Nat, clock : Nat, events : Nat]
    BY <1>2, HappensTypes DEF Materials, Fault, Typed
  <2>. QED  BY <1>2, <2>1, <2>2 DEF Materials, Typed
<1>3. CASE Devices
  <2>1. app' \in Apps
    <3>1. CASE Goto("validate")
      BY <3>1, GotoTypes DEF Typed, Stages, Before, During
    <3>2. CASE Exit(1, "")
      BY <3>2, ExitTypes DEF Typed, Words
    <3>. QED  BY <1>3, <3>1, <3>2 DEF Devices
  <2>2. count' \in [launches : Nat, clock : Nat, events : Nat]
    BY <1>3, HappensTypes DEF Devices, Fault, Typed
  <2>. QED  BY <1>3, <2>1, <2>2 DEF Devices, Typed
<1>4. CASE ValidatePack
  <2>1. app' \in Apps
    BY <1>4, GotoTypes, ExitTypes DEF ValidatePack, Typed, Stages, Before, During, Words
  <2>2. pack' \in Packs
    BY <1>4 DEF ValidatePack, Typed, Packs
  <2>. QED  BY <1>4, <2>1, <2>2 DEF ValidatePack, Typed
<1>5. CASE CreateSession
  <2>1. app' \in Apps
    BY <1>5, GotoTypes, ExitTypes DEF CreateSession, Typed, Stages, Before, During, Words
  <2>2. pack' \in Packs
    BY <1>5 DEF CreateSession, Created, Opens, PackKinds, Typed, Packs
  <2>3. count' \in [launches : Nat, clock : Nat, events : Nat]
    BY <1>5, HappensTypes DEF CreateSession, Fault, Typed
  <2>. QED  BY <1>5, <2>1, <2>2, <2>3 DEF CreateSession, Typed
<1>6. CASE Watch
  <2>1. app' \in Apps
    BY <1>6, GotoTypes DEF Watch, Typed, Stages, Before, During
  <2>2. pack' \in Packs
    BY <1>6 DEF Watch, Typed, Packs
  <2>. QED  BY <1>6, <2>1, <2>2 DEF Watch, Typed
<1>. QED  BY <1>1, <1>2, <1>3, <1>4, <1>5, <1>6

\* So does what is read back: the preferences and the saved state.
LEMMA LoadedTypes ==
    ASSUME NEW file \in Files
    PROVE  Loaded(file) \in Configs
<1>1. CASE file.kind = "whole"
  <2>1. file.cfg \in Configs
    BY <1>1 DEF Files, NoFile, Absent
  <2>. QED  BY <1>1, <2>1 DEF Loaded, Configs
<1>2. CASE file.kind # "whole"
  BY <1>2, DefaultsTypes DEF Loaded
<1>. QED  BY <1>1, <1>2

\* A frame that is played, or taken back, keeps the session's type.
LEMMA PlaysTypes ==
    ASSUME session \in Sessions, pack \in Packs, NEW frame \in Nat,
           session' = [session EXCEPT !.frame = frame, !.played = @ \cup {pack.held}]
    PROVE  session' \in Sessions
<1>. DEFINE played == session.played \cup {pack.held}
<1>1. played \in SUBSET PackKinds
  BY Zenon DEF Sessions, Packs
<1>2. session' = [session EXCEPT !.frame = frame, !.played = played]
  OBVIOUS
<1>. HIDE DEF played
<1>. QED  BY <1>1, <1>2, Zenon DEF Sessions

LEMMA ReadTyped ==
    ASSUME Typed, StatesKept, LoadConfig \/ Resume \/ NativeStart \/ NativeFrame
    PROVE  Typed'
<1>1. CASE LoadConfig
  <2>. DEFINE key == IF pack.held = Absent THEN "game" ELSE "pack"
              cfg == Loaded(files[key].main)
  <2>1. key \in Keys /\ files[key].main \in Files
    BY DEF Typed, Keys, Pairs
  <2>2. cfg \in Configs
    BY <2>1, LoadedTypes
  <2>3. /\ app' = [app EXCEPT !.pc = "resume", !.key = key]
        /\ ui' = [ui EXCEPT !.cfg = [cfg EXCEPT !.output = Resolve(cfg.output)]]
        /\ session' = [session EXCEPT !.mask = IF cfg.have THEN cfg.mask ELSE @]
        /\ UNCHANGED <<req, pack, input, files, states, count>>
    BY <1>1, Zenon DEF LoadConfig
  <2>. HIDE DEF key, cfg
  <2>4. app' \in Apps
    BY <2>1, <2>3 DEF Typed, Apps, Stages, During
  <2>5. ui' \in Overlays
    <3>1. [cfg EXCEPT !.output = Resolve(cfg.output)] \in Configs
      BY <2>2 DEF Configs, Resolve
    <3>. QED  BY <2>3, <3>1 DEF Typed, Overlays
  <2>6. session' \in Sessions
    BY <2>2, <2>3 DEF Typed, Sessions, Configs
  <2>. QED  BY <2>3, <2>4, <2>5, <2>6 DEF Typed
<1>3. CASE NativeStart
  <2>1. app' \in Apps
    BY <1>3, GotoTypes, ExitTypes DEF NativeStart, Typed, Stages, Before, During, Words
  <2>2. pack' \in Packs
    BY <1>3 DEF NativeStart, Opens, PackKinds, Typed, Packs
  <2>. QED  BY <1>3, <2>1, <2>2 DEF NativeStart, Typed
<1>4. CASE NativeFrame
  <2>1. app' \in Apps
    BY <1>4, ExitTypes DEF NativeFrame, Typed, Words
  <2>2. session' \in Sessions
    <3>1. session.frame \in Nat /\ session.frame + 1 \in Nat
      BY DEF Typed, Sessions
    <3>2. session' = session \/ session' = [session EXCEPT !.frame = session.frame + 1,
                                                         !.played = @ \cup {pack.held}]
      BY <1>4, Zenon DEF NativeFrame
    <3>. QED  BY <3>1, <3>2, PlaysTypes DEF Typed
  <2>3. count' \in [launches : Nat, clock : Nat, events : Nat]
    BY <1>4, HappensTypes DEF NativeFrame, Fault, Typed
  <2>. QED  BY <1>4, <2>1, <2>2, <2>3 DEF NativeFrame, Typed
<1>2. CASE Resume
  <2>1. app' \in Apps
    BY <1>2, GotoTypes DEF Resume, Typed, Stages, During
  <2>2. session' \in Sessions
    <3>1. req.resume < 0 \/ StateAt(req.resume) \in Nat
      <4>1. req.resume \in Seconds \cup {NoState}
        BY DEF Typed, Launches
      <4>2. CASE req.resume = NoState
        BY <4>2 DEF NoState
      <4>3. CASE req.resume # NoState
        <5>1. req.resume \in Seconds /\ states.at[req.resume] # NoState
          BY <4>1, <4>3 DEF StatesKept
        <5>2. states.at \in [Seconds -> Nat \cup {NoState}]
          BY DEF Typed
        <5>. QED  BY <5>1, <5>2 DEF StateAt
      <4>. QED  BY <4>2, <4>3
    <3>2. CASE session' = [session EXCEPT !.frame = IF req.resume < 0 THEN 0
                                                  ELSE StateAt(req.resume)]
      BY <3>1, <3>2 DEF Typed, Sessions
    <3>. QED  BY <1>2, <3>2 DEF Resume, Typed
  <2>3. count' \in [launches : Nat, clock : Nat, events : Nat]
    BY <1>2, HappensTypes DEF Resume, Fault, Typed
  <2>. QED  BY <1>2, <2>1, <2>2, <2>3 DEF Resume, Typed
<1>. QED  BY <1>1, <1>2, <1>3, <1>4

\* So does the loop.
LEMMA EditTypes ==
    ASSUME NEW cfg \in Configs, NEW edit \in Edits, session \in Sessions
    PROVE  Edit(cfg, edit) \in Configs /\ NewMask(Edit(cfg, edit), edit) \in {0, 1}
<1>1. CASE edit = "mask"
  <2>1. Edit(cfg, edit) = [cfg EXCEPT !.have = TRUE, !.mask = 1 - session.mask]
    BY <1>1 DEF Edit
  <2>2. 1 - session.mask \in {0, 1}
    BY DEF Sessions
  <2>3. Edit(cfg, edit) \in Configs /\ Edit(cfg, edit).mask \in {0, 1}
    BY <2>1, <2>2 DEF Configs
  <2>. QED  BY <1>1, <2>3 DEF NewMask, Sessions
<1>2. CASE edit = "gain"
  <2>1. Edit(cfg, edit) = [cfg EXCEPT !.gain = 3 - @]
    BY <1>2 DEF Edit
  <2>2. 3 - cfg.gain \in {1, 2}
    <3>1. cfg.gain \in {1, 2}
      BY DEF Configs
    <3>. QED  BY <3>1
  <2>3. Edit(cfg, edit) \in Configs
    BY <2>1, <2>2 DEF Configs
  <2>. QED  BY <1>2, <2>3 DEF NewMask, Sessions
<1>3. CASE edit = "restore"
  BY <1>3, DefaultsTypes DEF Edit, NewMask, Configs, Sessions
<1>4. CASE edit \in {"none", "quit"}
  BY <1>4 DEF Edit, NewMask, Configs, Sessions
<1>. QED  BY <1>1, <1>2, <1>3, <1>4 DEF Edits

LEMMA StartSaveTypes ==
    ASSUME app \in Apps, NEW cfg \in Configs, StartSave(cfg)
    PROVE  app' \in Apps
BY DEF StartSave, Apps, Stages, During

LEMMA EventsTyped ==
    ASSUME Typed,
           \/ \E b \in Buttons : Press(b) \/ LetGo(b)
           \/ TogglePause \/ CycleOutput \/ Quit
    PROVE  Typed'
<1>1. CASE \E b \in Buttons : Press(b) \/ LetGo(b)
  <2>1. input' \in Inputs
    <3>1. PICK b \in Buttons : Press(b) \/ LetGo(b)
      BY <1>1
    <3>. DEFINE more == input.down \cup {b}
                less == input.down \ {b}
                clean == input.tainted \ {b}
    <3>2. {more, less, clean} \subseteq SUBSET Buttons
      BY DEF Typed, Inputs
    <3>3. \/ input' = [input EXCEPT !.down = more]
          \/ input' = [input EXCEPT !.down = less, !.tainted = clean]
      BY <3>1 DEF Press, LetGo
    <3>. HIDE DEF more, less, clean
    <3>. QED  BY <3>2, <3>3 DEF Typed, Inputs
  <2>2. count' \in [launches : Nat, clock : Nat, events : Nat]
    BY <1>1, HappensTypes DEF Press, LetGo, Typed
  <2>. QED  BY <1>1, <2>1, <2>2 DEF Press, LetGo, Typed
<1>2. CASE TogglePause
  <2>1. input' \in Inputs
    BY <1>2 DEF TogglePause, Tainted, Typed, Inputs
  <2>2. ui' \in Overlays
    BY <1>2 DEF TogglePause, Typed, Overlays
  <2>. QED  BY <1>2, <2>1, <2>2, HappensTypes DEF TogglePause, Typed
<1>3. CASE CycleOutput
  <2>. DEFINE cfg == [ui.cfg EXCEPT !.output = "chosen"]
  <2>1. cfg \in Configs
    BY DEF Typed, Overlays, Configs
  <2>2. ui' \in Overlays
    BY <1>3, <2>1 DEF CycleOutput, Typed, Overlays
  <2>3. app' \in Apps
    BY <1>3, <2>1, StartSaveTypes DEF CycleOutput, Typed
  <2>. QED  BY <1>3, <2>2, <2>3, HappensTypes DEF CycleOutput, Typed
<1>4. CASE Quit
  BY <1>4 DEF Quit, Typed, Overlays
<1>. QED  BY <1>1, <1>2, <1>3, <1>4

LEMMA LoopTyped ==
    ASSUME Typed,
           \/ Poll \/ NotYet \/ Reload \/ Step \/ NoFrame
           \/ \E edit \in Edits, closes \in BOOLEAN : Present(edit, closes)
    PROVE  Typed'
<1>1. CASE Poll
  <2>1. pack' \in Packs
    BY <1>1 DEF Poll, Polled, Typed, Packs
  <2>2. app' \in Apps
    BY <1>1, GotoTypes DEF Poll, Typed, Stages, During
  <2>. QED  BY <1>1, <2>1, <2>2 DEF Poll, Typed
<1>2. CASE NotYet
  <2>1. app' \in Apps
    BY <1>2, GotoTypes DEF NotYet, Typed, Stages, During
  <2>. QED  BY <1>2, <2>1 DEF NotYet, Typed
<1>3. CASE Reload
  <2>1. app' \in Apps
    BY <1>3, GotoTypes, ExitTypes DEF Reload, Typed, Stages, During, Words
  <2>2. pack' \in Packs
    <3>1. Reopened \subseteq PackKinds
      BY DEF Reopened, Opens, PackKinds, Typed, Packs
    <3>2. \/ \E held \in Reopened : pack' = [pack EXCEPT !.due = FALSE, !.held = held]
          \/ pack' = [pack EXCEPT !.due = FALSE]
      BY <1>3 DEF Reload
    <3>. QED  BY <3>1, <3>2 DEF Typed, Packs
  <2>3. ui' \in Overlays /\ count' \in [launches : Nat, clock : Nat, events : Nat]
    BY <1>3, HappensTypes DEF Reload, Fault, Typed, Overlays
  <2>. QED  BY <1>3, <2>1, <2>2, <2>3 DEF Reload, Typed
<1>4. CASE Step
  <2>1. app' \in Apps
    BY <1>4, GotoTypes DEF Step, Typed, Stages, During
  <2>2. ui' \in Overlays
    BY <1>4 DEF Step, Typed, Overlays
  <2>3. input' \in Inputs
    <3>. DEFINE armed == Armed
                mask == Armed \cap input.down
                sent == input.down \ Armed
    <3>1. {armed, mask, sent} \subseteq SUBSET Buttons
      BY DEF Armed, Typed, Inputs
    <3>2. \/ input' = [input EXCEPT !.gate = armed]
          \/ input' = [input EXCEPT !.gate = mask, !.sent = sent]
      BY <1>4 DEF Step, Filter
    <3>. HIDE DEF armed, mask, sent
    <3>. QED  BY <3>1, <3>2 DEF Typed, Inputs
  <2>4. session' \in Sessions
    <3>1. session.frame \in Nat /\ session.frame + 1 \in Nat
          /\ (session.frame > 0 => session.frame - 1 \in Nat)
      BY DEF Typed, Sessions
    <3>2. CASE session' = [session EXCEPT !.frame = session.frame + 1, !.played = @ \cup {pack.held}]
      BY <3>1, <3>2, PlaysTypes DEF Typed
    <3>3. CASE /\ session.frame > 0
               /\ session' = [session EXCEPT !.frame = session.frame - 1,
                                              !.played = @ \cup {pack.held}]
      BY <3>1, <3>3, PlaysTypes DEF Typed
    <3>. QED  BY <1>4, <3>2, <3>3 DEF Step, Typed
  <2>. QED  BY <1>4, <2>1, <2>2, <2>3, <2>4 DEF Step, Typed
<1>5. CASE NoFrame
  <2>1. app' \in Apps
    BY <1>5, GotoTypes DEF NoFrame, NextTurn, Typed, Stages, During
  <2>. QED  BY <1>5, <2>1 DEF NoFrame, Typed
<1>6. ASSUME NEW edit \in Edits, NEW closes \in BOOLEAN, Present(edit, closes)
      PROVE  Typed'
  <2>. DEFINE u == Rendered(edit, closes)
  <2>1. u \in Overlays /\ u.cfg = Edit(ui.cfg, edit)
    <3>1. Edit(ui.cfg, edit) \in Configs
      BY EditTypes DEF Typed, Overlays
    <3>. QED  BY <3>1 DEF Rendered, Typed, Overlays
  <2>2. session' \in Sessions
    <3>1. NewMask(u.cfg, edit) \in {0, 1}
      BY <2>1, EditTypes DEF Typed, Overlays
    <3>. QED  BY <1>6, <3>1 DEF Present, Typed, Sessions
  <2>3. input' \in Inputs
    BY <1>6 DEF Present, Typed, Inputs
  <2>. HIDE DEF u
  <2>4. ui' = [u EXCEPT !.dirty = FALSE]
    BY <1>6 DEF Present, u
  <2>5. ui' \in Overlays
    BY <2>1, <2>4 DEF Overlays
  <2>6. app' \in Apps
    <3>1. StartSave(u.cfg) \/ Goto(NextTurn)
      BY <1>6 DEF Present, u
    <3>2. u.cfg \in Configs
      BY <2>1 DEF Overlays
    <3>. QED  BY <3>1, <3>2, StartSaveTypes, GotoTypes DEF NextTurn, Typed, Stages, During
  <2>7. count' \in [launches : Nat, clock : Nat, events : Nat]
    BY <1>6, HappensTypes DEF Present, Typed
  <2>. QED  BY <1>6, <2>2, <2>3, <2>5, <2>6, <2>7 DEF Present, Typed
<1>. QED  BY <1>1, <1>2, <1>3, <1>4, <1>5, <1>6

\* So do the files, the shutdown and the world.
LEMMA FilesTyped ==
    ASSUME Typed, WriteTemporary \/ Backup \/ Publish
    PROVE  Typed'
<1>1. Prefs \in Pairs /\ app.key \in Keys /\ NoFile \in Files
  BY DEF Prefs, Typed, Apps, Files
<1>2. ASSUME NEW pair \in Pairs, Change(pair)
      PROVE  files' \in [Keys -> Pairs]
  BY <1>1, <1>2 DEF Change, Typed
<1>3. ASSUME Saved
      PROVE  app' \in Apps
  BY <1>3, DefaultsTypes DEF Saved, Typed, Apps, Stages, During
<1>4. File(app.saving) \in Files
  BY DEF File, Files, Typed, Apps
<1>5. Happens => count' \in [launches : Nat, clock : Nat, events : Nat]
  BY HappensTypes DEF Typed
<1>6. CASE WriteTemporary
  <2>1. app' \in Apps
    BY <1>3, <1>6 DEF WriteTemporary, Typed, Apps, Stages, During
  <2>2. files' \in [Keys -> Pairs]
    <3>1. [Prefs EXCEPT !.tmp = File(app.saving)] \in Pairs /\ [Prefs EXCEPT !.tmp = NoFile] \in Pairs
      BY <1>1, <1>4 DEF Pairs
    <3>. QED  BY <1>2, <1>6, <3>1 DEF WriteTemporary
  <2>. QED  BY <1>5, <1>6, <2>1, <2>2 DEF WriteTemporary, Fault, Typed
<1>7. CASE Backup
  <2>1. app' \in Apps
    BY <1>3, <1>7, GotoTypes DEF Backup, Typed, Stages, During
  <2>2. files' \in [Keys -> Pairs]
    <3>1. BackedUp \in Pairs /\ [Prefs EXCEPT !.bak = NoFile, !.tmp = NoFile] \in Pairs
      BY <1>1 DEF BackedUp, Pairs
    <3>. QED  BY <1>2, <1>7, <3>1 DEF Backup, Typed
  <2>. QED  BY <1>5, <1>7, <2>1, <2>2 DEF Backup, Fault, Typed
<1>8. CASE Publish
  <2>1. app' \in Apps
    BY <1>3, <1>8 DEF Publish
  <2>2. files' \in [Keys -> Pairs]
    <3>1. ASSUME NEW bak \in {Prefs.bak} \cup (IF app.had THEN {NoFile} ELSE {})
          PROVE  [Prefs EXCEPT !.main = Prefs.tmp, !.tmp = NoFile, !.saved = Prefs.tmp,
                               !.bak = bak] \in Pairs
      BY <1>1 DEF Pairs
    <3>2. Restored \in Pairs /\ [Prefs EXCEPT !.tmp = NoFile] \in Pairs
      BY <1>1 DEF Restored, Pairs
    <3>. QED  BY <1>2, <1>8, <3>1, <3>2 DEF Publish
  <2>. QED  BY <1>5, <1>8, <2>1, <2>2 DEF Publish, Fault, Typed
<1>. QED  BY <1>6, <1>7, <1>8

LEMMA ShutdownTyped ==
    ASSUME Typed, WriteState \/ RenameState
    PROVE  Typed'
<1>1. CASE WriteState
  <2>1. ASSUME NEW second \in count.clock..MaxSeconds
        PROVE  second \in Nat /\ second \in Seconds
    BY PlayerAssumption DEF Typed, Seconds
  <2>2. app' \in Apps
    <3>1. ASSUME NEW second \in Seconds,
                 app' = [app EXCEPT !.pc = "rename", !.second = second]
          PROVE  app' \in Apps
      BY <3>1 DEF Typed, Apps, Stages, During
    <3>. QED  BY <1>1, <2>1, <3>1, ExitTypes DEF WriteState, Typed, Words
  <2>3. count' \in [launches : Nat, clock : Nat, events : Nat]
    BY <1>1, <2>1, HappensTypes DEF WriteState, Fault, Typed
  <2>. QED  BY <1>1, <2>2, <2>3 DEF WriteState, Typed
<1>2. CASE RenameState
  <2>1. app' \in Apps
    BY <1>2, ExitTypes DEF RenameState, Typed, Words
  <2>2. states' \in [at : [Seconds -> Nat \cup {NoState}], announced : SUBSET (Seconds \X Nat)]
    <3>1. app.second \in Seconds /\ session.frame \in Nat
      BY DEF Typed, Apps, Sessions
    <3>2. states.at \in [Seconds -> Nat \cup {NoState}] /\ states.announced \in SUBSET (Seconds \X Nat)
      BY DEF Typed
    <3>3. /\ [states.at EXCEPT ![app.second] = session.frame] \in [Seconds -> Nat \cup {NoState}]
          /\ states.announced \cup {<<app.second, session.frame>>} \in SUBSET (Seconds \X Nat)
      BY <3>1, <3>2
    <3>. QED  BY <1>2, <3>3 DEF RenameState, Typed
  <2>3. count' \in [launches : Nat, clock : Nat, events : Nat]
    BY <1>2, HappensTypes DEF RenameState, Fault, Typed
  <2>. QED  BY <1>2, <2>1, <2>2, <2>3 DEF RenameState, Typed
<1>. QED  BY <1>1, <1>2

LEMMA WorldTyped ==
    ASSUME Typed, (\E kind \in PackKinds : EditPack(kind)) \/ Die \/ Launch
    PROVE  Typed'
<1>1. CASE \E kind \in PackKinds : EditPack(kind)
  <2>1. pack' \in Packs
    BY <1>1 DEF EditPack, Typed, Packs
  <2>. QED  BY <1>1, <2>1, HappensTypes DEF EditPack, Typed
<1>2. CASE Die
  <2>1. app' \in Apps
    BY <1>2, GotoTypes DEF Die, Typed, Stages
  <2>. QED  BY <1>2, <2>1, HappensTypes DEF Die, Fault, Typed
<1>3. CASE Launch
  <2>1. req' \in Launches
    <3>1. PICK r \in {NoState} \cup {a[1] : a \in states.announced} :
                req' = [req EXCEPT !.resume = r]
      BY <1>3 DEF Launch
    <3>2. r \in Seconds \cup {NoState}
      BY <3>1 DEF Typed
    <3>. QED  BY <3>1, <3>2 DEF Typed, Launches
  <2>2. app' \in Apps
    <3>1. 0 \in Seconds /\ "arguments" \in Stages /\ "" \in Words /\ "game" \in Keys
      BY PlayerAssumption DEF Seconds, Stages, Before, Words, Keys
    <3>. QED  BY <1>3, <3>1, DefaultsTypes DEF Launch, Launched, Apps
  <2>3. pack' \in Packs
    BY <1>3 DEF Launch, Unread, Packs, PackKinds, Typed
  <2>4. ui' \in Overlays
    BY <1>3, DefaultsTypes DEF Launch, Off, Overlays
  <2>5. session' \in Sessions /\ input' \in Inputs
    BY <1>3 DEF Launch, Idle, Silence, Sessions, Inputs
  <2>6. count' \in [launches : Nat, clock : Nat, events : Nat]
    BY <1>3 DEF Launch, Typed
  <2>. QED  BY <1>3, <2>1, <2>2, <2>3, <2>4, <2>5, <2>6 DEF Launch, Typed
<1>. QED  BY <1>1, <1>2, <1>3

\* Every step keeps the types.
LEMMA TypesKept ==
    ASSUME Typed, StatesKept, [Next]_vars
    PROVE  Typed'
<1>1. CASE UNCHANGED vars
  BY <1>1 DEF vars, Typed
<1>. QED  BY <1>1, StartupTyped, ReadTyped, EventsTyped, LoopTyped, FilesTyped, ShutdownTyped,
             WorldTyped, Zenon DEF Next

-----------------------------------------------------------------------------
\* The pack.

\* A step that leaves the pack alone, and plays it or not.
Leaves ==
    /\ UNCHANGED <<req, pack>>
    /\ \/ session'.played = session.played /\ app'.pc \in {app.pc, "ended", "dead"}
       \/ session'.played = session.played /\ {app.pc, app'.pc} \subseteq Before \ {"session"}
       \/ /\ session'.played \in {session.played, session.played \cup {pack.held}}
          /\ {app.pc, app'.pc} \subseteq During \ {"watch"}
          /\ app.pc \in {"shutdown", "rename"} => app'.pc \in {"shutdown", "rename"}

LEMMA LeavesKept ==
    ASSUME Typed, PackFollows, PackIsTheOneAskedFor, Leaves
    PROVE  PackFollows' /\ PackIsTheOneAskedFor'
<1>. USE DEF PackFollows, PackIsTheOneAskedFor, ExplicitPackIsPlayed, PackChangesAreSeen,
             Alive, At, Opened, Opens, Leaves
<1>1. CASE session'.played = session.played /\ app'.pc \in {app.pc, "ended", "dead"}
  BY <1>1 DEF Before, During
<1>2. CASE session'.played = session.played /\ {app.pc, app'.pc} \subseteq Before \ {"session"}
  BY <1>2 DEF Before, During
<1>3. CASE /\ session'.played \in {session.played, session.played \cup {pack.held}}
           /\ {app.pc, app'.pc} \subseteq During \ {"watch"}
           /\ app.pc \in {"shutdown", "rename"} => app'.pc \in {"shutdown", "rename"}
  BY <1>3 DEF Before, During
<1>. QED  BY <1>1, <1>2, <1>3

\* Most steps do.
LEMMA MostLeave ==
    ASSUME Typed,
           \/ Arguments \/ Materials \/ Devices \/ LoadConfig \/ Resume \/ NativeFrame
           \/ \E b \in Buttons : Press(b) \/ LetGo(b)
           \/ TogglePause \/ CycleOutput \/ Quit \/ NotYet \/ Step \/ NoFrame
           \/ \E edit \in Edits, closes \in BOOLEAN : Present(edit, closes)
           \/ WriteTemporary \/ Backup \/ Publish \/ WriteState \/ RenameState \/ Die
           \/ UNCHANGED vars
    PROVE  Leaves
<1>. USE DEF Typed, Leaves, At, Before, During
<1>1. ASSUME NEW pc, Goto(pc)
      PROVE  app'.pc = pc
  BY <1>1 DEF Goto, Apps
<1>2. ASSUME NEW code, NEW word, Exit(code, word)
      PROVE  app'.pc = "ended"
  BY <1>2 DEF Exit, Apps
<1>3. ASSUME Saved
      PROVE  app'.pc \in {"events", "shutdown"}
  BY <1>3 DEF Saved, Apps
<1>4. ASSUME NEW cfg, StartSave(cfg)
      PROVE  app'.pc \in {"events", "write"}
  BY <1>4 DEF StartSave, Apps
<1>5. CASE Arguments \/ Materials \/ Devices
  BY <1>1, <1>2, <1>5 DEF Arguments, Materials, Devices
<1>6. CASE LoadConfig
  BY <1>6 DEF LoadConfig, Apps, Sessions
<1>7. CASE Resume
  BY <1>1, <1>7 DEF Resume, Sessions
<1>8. CASE NativeFrame
  BY <1>2, <1>8 DEF NativeFrame, Sessions
<1>9. CASE (\E b \in Buttons : Press(b) \/ LetGo(b)) \/ TogglePause \/ Quit
  BY <1>9 DEF Press, LetGo, TogglePause, Quit
<1>10. CASE CycleOutput
  BY <1>4, <1>10 DEF CycleOutput
<1>11. CASE NotYet
  BY <1>1, <1>11 DEF NotYet
<1>12. CASE Step
  BY <1>1, <1>12 DEF Step, Sessions
<1>13. CASE NoFrame
  BY <1>1, <1>13 DEF NoFrame, NextTurn
<1>14. CASE \E edit \in Edits, closes \in BOOLEAN : Present(edit, closes)
  BY <1>1, <1>4, <1>14 DEF Present, NextTurn, Sessions
<1>15. CASE WriteTemporary \/ Backup \/ Publish
  BY <1>1, <1>3, <1>15 DEF WriteTemporary, Backup, Publish, Apps
<1>16. CASE WriteState \/ RenameState
  BY <1>2, <1>16 DEF WriteState, RenameState, Apps
<1>17. CASE Die \/ UNCHANGED vars
  BY <1>1, <1>17 DEF Die, vars
<1>. QED  BY <1>5, <1>6, <1>7, <1>8, <1>9, <1>10, <1>11, <1>12, <1>13, <1>14, <1>15, <1>16, <1>17

\* Every step keeps what is known of the session's pack, and with it what is played.
LEMMA PackKept ==
    ASSUME Typed, PackFollows, PackIsTheOneAskedFor, [Next]_vars
    PROVE  PackFollows' /\ PackIsTheOneAskedFor'
<1>. USE DEF PackFollows, PackIsTheOneAskedFor, ExplicitPackIsPlayed, PackChangesAreSeen,
             Alive, At, Opened, Opens, Before, During
<1>1. ASSUME NEW pc, Goto(pc)
      PROVE  app'.pc = pc
  BY <1>1 DEF Goto, Typed, Apps
<1>2. ASSUME NEW code, NEW word, Exit(code, word)
      PROVE  app'.pc = "ended"
  BY <1>2 DEF Exit, Typed, Apps
<1>3. CASE ValidatePack
  BY <1>1, <1>2, <1>3 DEF ValidatePack, Typed, Packs
<1>4. CASE CreateSession
  BY <1>1, <1>2, <1>4 DEF CreateSession, Created, Typed, Packs, Absent
<1>5. CASE Watch
  <2>1. PICK created \in BOOLEAN : pack' = [pack EXCEPT !.watched = ~pack.rejected /\ created]
    BY <1>5 DEF Watch
  <2>2. /\ pack'.disk = pack.disk /\ pack'.held = pack.held /\ pack'.rejected = pack.rejected
        /\ pack'.changed = pack.changed /\ pack'.due = pack.due /\ pack'.missed = pack.missed
    BY <2>1 DEF Typed, Packs
  <2>3. pack'.watched => ~pack.rejected
    BY <2>1, Zenon DEF Typed, Packs
  <2>4. /\ app.pc = "watch" /\ app'.pc = "config"
        /\ UNCHANGED <<req, session>>
    BY <1>1, <1>5 DEF Watch
  <2>. QED  BY <2>2, <2>3, <2>4
<1>6. CASE NativeStart
  <2>1. /\ pack'.disk = pack.disk /\ pack'.rejected = pack.rejected /\ pack'.watched = pack.watched
        /\ pack'.changed = pack.changed /\ pack'.due = pack.due /\ pack'.missed = pack.missed
        /\ pack'.held = IF req.explicit /\ Opens(pack.disk) THEN pack.disk ELSE Absent
    BY <1>6 DEF NativeStart, Typed, Packs
  <2>2. /\ app.pc = "native"
        /\ app'.pc = IF req.explicit /\ pack'.held = Absent THEN "ended" ELSE "native loop"
        /\ UNCHANGED <<req, session>>
    BY <1>1, <1>2, <1>6 DEF NativeStart
  <2>. QED  BY <2>1, <2>2
<1>7. CASE Poll
  BY <1>1, <1>7 DEF Poll, Polled, Typed, Packs
<1>8. CASE Reload
  <2>1. /\ app.pc = "reload" /\ pack.due /\ pack.watched /\ ~pack.rejected
        /\ UNCHANGED <<req, session>>
    BY <1>8 DEF Reload, Typed, Packs
  <2>2. CASE \E held \in Reopened :
                /\ pack' = [pack EXCEPT !.due = FALSE, !.held = held]
                /\ IF MustEnd(held) THEN Exit(4, "pack_open_failed") ELSE Goto("step")
    <3>1. PICK held \in Reopened :
                /\ pack' = [pack EXCEPT !.due = FALSE, !.held = held]
                /\ IF MustEnd(held) THEN Exit(4, "pack_open_failed") ELSE Goto("step")
      BY <2>2
    <3>2. /\ pack'.disk = pack.disk /\ pack'.held = held /\ pack'.rejected = pack.rejected
          /\ pack'.watched = pack.watched /\ pack'.missed = pack.missed
      BY <3>1 DEF Typed, Packs
    <3>3. app'.pc = IF MustEnd(held) THEN "ended" ELSE "step"
      BY <1>1, <1>2, <3>1
    <3>4. pack.disk # "broken" => held = Opened(pack.disk)
      BY DEF Reopened, Absent, PackKinds, Typed, Packs
    <3>. QED  BY <2>1, <3>2, <3>3, <3>4 DEF MustEnd
  <2>3. CASE Goto("shutdown") /\ pack' = [pack EXCEPT !.due = FALSE]
    <3>1. /\ pack'.disk = pack.disk /\ pack'.held = pack.held /\ pack'.rejected = pack.rejected
          /\ pack'.watched = pack.watched /\ pack'.missed = pack.missed
      BY <2>3 DEF Typed, Packs
    <3>. QED  BY <1>1, <2>1, <2>3, <3>1
  <2>. QED  BY <1>8, <2>2, <2>3 DEF Reload
<1>9. CASE \E kind \in PackKinds : EditPack(kind)
  BY <1>9 DEF EditPack, Typed, Packs
<1>10. CASE Launch
  BY <1>10 DEF Launch, Launched, Unread, Idle
<1>. QED  BY <1>3, <1>4, <1>5, <1>6, <1>7, <1>8, <1>9, <1>10, MostLeave, LeavesKept, Zenon DEF Next

-----------------------------------------------------------------------------
\* The preferences' files.

\* What a step does to the pair it writes.
LEMMA ChangeEffect ==
    ASSUME Typed, NEW pair, Change(pair)
    PROVE  files'[app.key] = pair /\ \A key \in Keys : key # app.key => files'[key] = files[key]
BY DEF Change, Typed, Apps

\* A change of one pair keeps all of them when it keeps that one.
LEMMA ChangeKeeps ==
    ASSUME Typed, FilesKept, NEW pair, Change(pair), PairKept(pair)
    PROVE  \A key \in Keys : PairKept(files'[key])
BY ChangeEffect DEF FilesKept

\* Saving is over, whatever it left.
LEMMA SavedEffect ==
    ASSUME Typed, Saved
    PROVE  app'.pc \in {"events", "shutdown"}
BY DEF Saved, Typed, Apps

LEMMA FilesStep ==
    ASSUME Typed, FilesKept, [Next]_vars
    PROVE  FilesKept'
<1>. Prefs = files[app.key] /\ app.key \in Keys /\ Prefs \in Pairs /\ PairKept(Prefs)
  BY DEF Typed, Apps, Prefs, FilesKept
<1>1. CASE WriteTemporary
  <2>1. CASE /\ Change([Prefs EXCEPT !.tmp = File(app.saving)])
             /\ app' = [app EXCEPT !.pc = "backup", !.had = Prefs.main # NoFile]
    <3>. DEFINE pair == [Prefs EXCEPT !.tmp = File(app.saving)]
    <3>1. pair.main = Prefs.main /\ pair.bak = Prefs.bak /\ pair.saved = Prefs.saved
      BY DEF Pairs
    <3>2. PairKept(pair)
      BY <3>1 DEF PairKept
    <3>3. app'.pc = "backup" /\ app'.key = app.key
      BY <2>1 DEF Typed, Apps
    <3>4. app'.had <=> Prefs.main # NoFile
      BY <2>1, Zenon DEF Typed, Apps
    <3>5. Prefs' = pair
      BY <2>1, <3>3, ChangeEffect DEF Prefs
    <3>. HIDE DEF pair
    <3>6. \A key \in Keys : PairKept(files'[key])
      BY <2>1, <3>2, ChangeKeeps DEF pair
    <3>. QED  BY <3>1, <3>3, <3>4, <3>5, <3>6 DEF FilesKept, At
  <2>2. CASE Change([Prefs EXCEPT !.tmp = NoFile]) /\ Saved
    <3>1. PairKept([Prefs EXCEPT !.tmp = NoFile])
      BY DEF Pairs, PairKept
    <3>. QED  BY <2>2, <3>1, ChangeKeeps, SavedEffect DEF FilesKept, At
  <2>. QED  BY <1>1, <2>1, <2>2 DEF WriteTemporary
<1>2. CASE Backup
  <2>1. app.pc = "backup" /\ (app.had <=> Prefs.main # NoFile)
    BY <1>2 DEF Backup, FilesKept, At
  <2>2. CASE app.had /\ Change(BackedUp) /\ Goto("publish")
    <3>1. BackedUp.main = NoFile /\ BackedUp.bak = Prefs.main /\ BackedUp.saved = Prefs.saved
      BY DEF BackedUp, Pairs
    <3>2. Prefs.main = Prefs.saved
      BY <2>1, <2>2 DEF PairKept
    <3>3. PairKept(BackedUp)
      BY <3>1, <3>2 DEF PairKept
    <3>4. app'.pc = "publish" /\ app'.key = app.key
      BY <2>2 DEF Goto, Typed, Apps
    <3>5. Prefs' = BackedUp
      BY <2>2, <3>4, ChangeEffect DEF Prefs
    <3>6. \A key \in Keys : PairKept(files'[key])
      BY <2>2, <3>3, ChangeKeeps
    <3>. QED  BY <3>1, <3>2, <3>4, <3>5, <3>6 DEF FilesKept, At
  <2>3. CASE ~app.had /\ UNCHANGED files /\ Goto("publish")
    <3>1. app'.pc = "publish" /\ app'.key = app.key /\ app'.had = app.had
      BY <2>3 DEF Goto, Typed, Apps
    <3>2. Prefs' = Prefs
      BY <2>3, <3>1 DEF Prefs
    <3>. QED  BY <2>1, <2>3, <3>1, <3>2 DEF FilesKept, At
  <2>4. CASE app.had /\ Change([Prefs EXCEPT !.bak = NoFile, !.tmp = NoFile]) /\ Saved
    <3>1. PairKept([Prefs EXCEPT !.bak = NoFile, !.tmp = NoFile])
      BY <2>1, <2>4 DEF Pairs, PairKept
    <3>. QED  BY <2>4, <3>1, ChangeKeeps, SavedEffect DEF FilesKept, At
  <2>. QED  BY <1>2, <2>2, <2>3, <2>4 DEF Backup
<1>3. CASE Publish
  <2>1. Prefs.main = NoFile /\ (app.had => Prefs.bak = Prefs.saved)
    BY <1>3 DEF Publish, FilesKept, At
  <2>2. Saved
    BY <1>3 DEF Publish
  <2>3. \A key \in Keys : PairKept(files'[key])
    <3>1. ASSUME NEW bak,
                 Change([Prefs EXCEPT !.main = Prefs.tmp, !.tmp = NoFile, !.saved = Prefs.tmp,
                                      !.bak = bak])
          PROVE  \A key \in Keys : PairKept(files'[key])
      <4>1. PairKept([Prefs EXCEPT !.main = Prefs.tmp, !.tmp = NoFile, !.saved = Prefs.tmp,
                                   !.bak = bak])
        BY DEF Pairs, PairKept
      <4>. QED  BY <3>1, <4>1, ChangeKeeps
    <3>2. CASE Change(Restored)
      <4>1. PairKept(Restored)
        BY <2>1 DEF Restored, Pairs, PairKept
      <4>. QED  BY <3>2, <4>1, ChangeKeeps
    <3>3. CASE Change([Prefs EXCEPT !.tmp = NoFile])
      <4>1. PairKept([Prefs EXCEPT !.tmp = NoFile])
        BY DEF Pairs, PairKept
      <4>. QED  BY <3>3, <4>1, ChangeKeeps
    <3>. QED  BY <1>3, <3>1, <3>2, <3>3 DEF Publish
  <2>. QED  BY <2>2, <2>3, SavedEffect DEF FilesKept, At
<1>4. CASE UNCHANGED files /\ app'.pc \notin {"backup", "publish"}
  BY <1>4 DEF FilesKept, At
<1>5. CASE UNCHANGED <<files, app>>
  BY <1>5 DEF FilesKept, At, Prefs
<1>6. ASSUME NEW pc, Goto(pc)
      PROVE  app'.pc = pc
  BY <1>6 DEF Goto, Typed, Apps
<1>7. ASSUME NEW code, NEW word, Exit(code, word)
      PROVE  app'.pc = "ended"
  BY <1>7 DEF Exit, Typed, Apps
<1>8. ASSUME NEW cfg, StartSave(cfg)
      PROVE  app'.pc \in {"events", "write"}
  BY <1>8 DEF StartSave, Typed, Apps
<1>9. CASE Arguments \/ Materials \/ Devices \/ ValidatePack \/ CreateSession \/ Watch
  BY <1>4, <1>6, <1>7, <1>9 DEF Arguments, Materials, Devices, ValidatePack, CreateSession, Watch
<1>10. CASE LoadConfig
  BY <1>4, <1>10 DEF LoadConfig, Typed, Apps
<1>11. CASE Resume \/ NativeStart
  BY <1>4, <1>6, <1>7, <1>11 DEF Resume, NativeStart
<1>12. CASE NativeFrame
  BY <1>4, <1>5, <1>7, <1>12 DEF NativeFrame
<1>13. CASE (\E b \in Buttons : Press(b) \/ LetGo(b)) \/ TogglePause \/ Quit
            \/ \E kind \in PackKinds : EditPack(kind)
  BY <1>5, <1>13 DEF Press, LetGo, TogglePause, Quit, EditPack
<1>14. CASE CycleOutput
  BY <1>4, <1>8, <1>14 DEF CycleOutput
<1>15. CASE Poll \/ NotYet \/ Reload \/ Step \/ NoFrame \/ Die
  BY <1>4, <1>6, <1>7, <1>15 DEF Poll, NotYet, Reload, Step, NoFrame, NextTurn, Die
<1>16. CASE \E edit \in Edits, closes \in BOOLEAN : Present(edit, closes)
  BY <1>4, <1>6, <1>8, <1>16 DEF Present, NextTurn
<1>17. CASE WriteState \/ RenameState
  BY <1>4, <1>7, <1>17 DEF WriteState, RenameState, Typed, Apps
<1>18. CASE Launch
  BY <1>4, <1>18 DEF Launch, Launched
<1>19. CASE UNCHANGED vars
  BY <1>5, <1>19 DEF vars
<1>. QED  BY <1>1, <1>2, <1>3, <1>9, <1>10, <1>11, <1>12, <1>13, <1>14, <1>15, <1>16, <1>17, <1>18,
             <1>19, Zenon DEF Next

\* What was saved last is in the file or in its backup.
LEMMA FilesAreRecoverable == FilesKept => PreferencesAreRecoverable
BY DEF FilesKept, PairKept, PreferencesAreRecoverable

-----------------------------------------------------------------------------
\* The saved states.

LEMMA StatesStep ==
    ASSUME Typed, StatesKept, AnnouncedStateLoads, [Next]_vars
    PROVE  StatesKept' /\ AnnouncedStateLoads'
<1>. USE DEF StatesKept, AnnouncedStateLoads
<1>1. CASE WriteState
  <2>1. UNCHANGED <<req, states>> /\ AnnouncedStateLoads'
    BY <1>1 DEF WriteState
  <2>2. CASE app'.pc = "rename"
    <3>1. \E second \in count.clock..MaxSeconds :
              ~Taken(second) /\ app' = [app EXCEPT !.pc = "rename", !.second = second]
      BY <1>1, <2>2 DEF WriteState, Exit, Typed, Apps
    <3>. QED  BY <2>1, <3>1 DEF Taken, Typed, Apps
  <2>. QED  BY <2>1, <2>2 DEF At
<1>2. CASE RenameState
  <2>1. app'.pc = "ended" /\ UNCHANGED req /\ states.at[app.second] = NoState
    BY <1>2 DEF RenameState, Exit, At, Typed, Apps
  <2>2. CASE states' = [at |-> [states.at EXCEPT ![app.second] = session.frame],
                        announced |-> states.announced \cup {<<app.second, session.frame>>}]
    <3>1. /\ states'.at = [states.at EXCEPT ![app.second] = session.frame]
          /\ states'.announced = states.announced \cup {<<app.second, session.frame>>}
      BY <2>2
    <3>2. /\ app.second \in Seconds /\ session.frame \in Nat
          /\ states.at \in [Seconds -> Nat \cup {NoState}]
          /\ states.announced \subseteq Seconds \X Nat
      BY DEF Typed, Apps, Sessions
    <3>3. \A second \in Seconds :
              states'.at[second] = IF second = app.second THEN session.frame ELSE states.at[second]
      BY <3>1, <3>2
    <3>4. session.frame # NoState
      BY <3>2 DEF NoState
    <3>5. ASSUME NEW a \in states'.announced
          PROVE  states'.at[a[1]] = a[2]
      <4>1. CASE a = <<app.second, session.frame>>
        BY <3>2, <3>3, <4>1
      <4>2. CASE a \in states.announced
        <5>1. a[1] \in Seconds /\ a[2] \in Nat /\ states.at[a[1]] = a[2]
          BY <3>2, <4>2
        <5>2. a[1] # app.second
          BY <2>1, <5>1 DEF NoState
        <5>. QED  BY <3>3, <5>1, <5>2
      <4>. QED  BY <3>1, <4>1, <4>2
    <3>6. req'.resume # NoState => states'.at[req'.resume] # NoState
      <4>1. req.resume \in Seconds \cup {NoState}
        BY DEF Typed, Launches
      <4>. QED  BY <2>1, <3>3, <3>4, <4>1
    <3>. QED  BY <2>1, <3>5, <3>6 DEF At
  <2>3. CASE UNCHANGED states
    BY <2>1, <2>3 DEF At
  <2>. QED  BY <1>2, <2>2, <2>3 DEF RenameState
<1>3. CASE Launch
  <2>1. app'.pc = "arguments" /\ UNCHANGED states
    BY <1>3 DEF Launch, Launched
  <2>2. PICK r \in {NoState} \cup {a[1] : a \in states.announced} : req' = [req EXCEPT !.resume = r]
    BY <1>3 DEF Launch
  <2>3. req'.resume = r
    BY <2>2 DEF Typed, Launches
  <2>4. ASSUME NEW a \in states.announced
        PROVE  states.at[a[1]] # NoState
    <3>1. a[2] \in Nat /\ states.at[a[1]] = a[2]
      BY DEF Typed
    <3>. QED  BY <3>1 DEF NoState
  <2>. QED  BY <2>1, <2>2, <2>3, <2>4 DEF At
<1>4. CASE UNCHANGED <<req, states>> /\ app'.pc # "rename"
  BY <1>4 DEF At
<1>5. CASE UNCHANGED <<req, states, app>>
  BY <1>5 DEF At
<1>6. ASSUME NEW pc, Goto(pc)
      PROVE  app'.pc = pc
  BY <1>6 DEF Goto, Typed, Apps
<1>7. ASSUME NEW code, NEW word, Exit(code, word)
      PROVE  app'.pc = "ended"
  BY <1>7 DEF Exit, Typed, Apps
<1>8. ASSUME NEW cfg, StartSave(cfg)
      PROVE  app'.pc \in {"events", "write"}
  BY <1>8 DEF StartSave, Typed, Apps
<1>9. CASE Arguments \/ Materials \/ Devices \/ ValidatePack \/ CreateSession \/ Watch
  BY <1>4, <1>6, <1>7, <1>9 DEF Arguments, Materials, Devices, ValidatePack, CreateSession, Watch
<1>10. CASE LoadConfig
  BY <1>4, <1>10 DEF LoadConfig, Typed, Apps
<1>11. CASE Resume \/ NativeStart
  BY <1>4, <1>6, <1>7, <1>11 DEF Resume, NativeStart
<1>12. CASE NativeFrame
  BY <1>4, <1>5, <1>7, <1>12 DEF NativeFrame
<1>13. CASE (\E b \in Buttons : Press(b) \/ LetGo(b)) \/ TogglePause \/ Quit
            \/ \E kind \in PackKinds : EditPack(kind)
  BY <1>5, <1>13 DEF Press, LetGo, TogglePause, Quit, EditPack
<1>14. CASE CycleOutput
  BY <1>4, <1>8, <1>14 DEF CycleOutput
<1>15. CASE Poll \/ NotYet \/ Reload \/ Step \/ NoFrame \/ Die
  BY <1>4, <1>6, <1>7, <1>15 DEF Poll, NotYet, Reload, Step, NoFrame, NextTurn, Die
<1>16. CASE \E edit \in Edits, closes \in BOOLEAN : Present(edit, closes)
  BY <1>4, <1>6, <1>8, <1>16 DEF Present, NextTurn
<1>17. CASE WriteTemporary \/ Backup \/ Publish
  BY <1>4, <1>6, <1>17, SavedEffect DEF WriteTemporary, Backup, Publish, Typed, Apps
<1>18. CASE UNCHANGED vars
  BY <1>5, <1>18 DEF vars
<1>. QED  BY <1>1, <1>2, <1>3, <1>9, <1>10, <1>11, <1>12, <1>13, <1>14, <1>15, <1>16, <1>17, <1>18,
             Zenon DEF Next

-----------------------------------------------------------------------------
\* The buttons.

\* A step gives the game none of the buttons held since the menu closed, and masks them.
LEMMA StepMasks ==
    ASSUME Typed, GateFollows, Step
    PROVE  /\ GateFollows'
           /\ session'.frame > session.frame => input'.sent \cap input.tainted = {}
<1>1. /\ ui'.was = ui.paused /\ ui'.paused = ui.paused /\ ui'.shown = ui.shown
      /\ app'.pc = "present"
  BY DEF Step, Goto, Typed, Apps, Overlays
<1>2. ui.paused \/ input.tainted \subseteq Armed
  BY DEF GateFollows, Armed
<1>3. ui.paused \/ input.tainted \subseteq Armed \cap input.down
  BY <1>2 DEF GateFollows
<1>4. input'.tainted = input.tainted /\ input'.down = input.down
  BY DEF Step, Typed, Inputs
<1>5. input'.gate = Armed \/ (~ui.paused /\ input'.gate = Armed \cap input.down)
  BY DEF Step, Filter, Typed, Inputs
<1>6. GateFollows'
  BY <1>1, <1>2, <1>3, <1>4, <1>5 DEF GateFollows, At
<1>7. ASSUME session'.frame > session.frame
      PROVE  ~ui.paused /\ input'.sent = input.down \ Armed
  <2>1. session.frame \in Nat
    BY DEF Typed, Sessions
  <2>2. CASE /\ ~ui.paused
             /\ input' = [input EXCEPT !.gate = Armed \cap input.down, !.sent = input.down \ Armed]
    BY <2>2 DEF Typed, Inputs
  <2>3. CASE UNCHANGED session \/ session' = [session EXCEPT !.frame = @ - 1, !.played = @ \cup {pack.held}]
    <3>1. session'.frame = session.frame \/ session'.frame = session.frame - 1
      BY <2>3, Zenon DEF Typed, Sessions
    <3>. QED  BY <1>7, <2>1, <3>1
  <2>. QED  BY <2>2, <2>3 DEF Step, Filter
<1>. QED  BY <1>2, <1>6, <1>7

LEMMA GateStep ==
    ASSUME Typed, GateFollows, [Next]_vars
    PROVE  GateFollows'
<1>1. CASE \E b \in Buttons : Press(b)
  BY <1>1 DEF Press, GateFollows, At, Typed, Inputs
<1>2. CASE \E b \in Buttons : LetGo(b)
  BY <1>2 DEF LetGo, GateFollows, At, Typed, Inputs
<1>3. CASE TogglePause
  <2>1. /\ input'.tainted = Tainted /\ input'.down = input.down /\ input'.gate = input.gate
        /\ ui'.was = ui.was /\ ui'.shown = FALSE /\ app'.pc = "events"
    BY <1>3 DEF TogglePause, At, Typed, Inputs, Overlays
  <2>. QED  BY <2>1 DEF Tainted, GateFollows, At
<1>4. CASE \E edit \in Edits, closes \in BOOLEAN : Present(edit, closes)
  <2>1. PICK edit \in Edits, closes \in BOOLEAN : Present(edit, closes)
    BY <1>4
  <2>. DEFINE u == Rendered(edit, closes)
  <2>2. /\ u.was = ui.was
        /\ u.shown => u.paused /\ ui.paused
    <3>1. /\ u.was = ui.was
          /\ u.paused = (ui.paused /\ ~closes)
          /\ u.shown = (ui.paused /\ ~closes)
      BY Zenon DEF Rendered, Typed, Overlays
    <3>. QED  BY <3>1
  <2>3. /\ ui'.was = u.was /\ ui'.paused = u.paused /\ ui'.shown = u.shown
    <3>1. ui' = [u EXCEPT !.dirty = FALSE]
      BY <2>1 DEF Present
    <3>2. u \in Overlays \/ DOMAIN u = DOMAIN ui
      BY DEF Rendered
    <3>. QED  BY <3>1 DEF Rendered, Typed, Overlays
  <2>4. /\ ui.was = ui.paused
        /\ app'.pc # "present"
    <3>1. app'.pc \in {"events", "write", "shutdown"}
      BY <2>1 DEF Present, StartSave, Goto, NextTurn, Typed, Apps
    <3>. QED  BY <2>1, <3>1 DEF Present, GateFollows, At
  <2>5. CASE closes
    <3>1. input'.tainted = input.down /\ input'.down = input.down /\ ui.paused
      BY <2>1, <2>5 DEF Present, Typed, Inputs
    <3>. QED  BY <2>2, <2>3, <2>4, <3>1 DEF GateFollows, At
  <2>6. CASE ~closes
    <3>1. UNCHANGED input
      BY <2>1, <2>6 DEF Present
    <3>. QED  BY <2>2, <2>3, <2>4, <3>1 DEF GateFollows, At
  <2>. QED  BY <2>5, <2>6
<1>5. CASE Launch
  BY <1>5 DEF Launch, Launched, Off, Silence, GateFollows, At
<1>6. CASE Step
  BY <1>6, StepMasks
<1>7. CASE /\ UNCHANGED input /\ app'.pc \in {app.pc} \cup (Stages \ {"present"})
           /\ ui'.was = ui.was /\ ui'.paused = ui.paused /\ ui'.shown = ui.shown
  BY <1>7 DEF GateFollows, At
<1>8. ASSUME NEW pc, Goto(pc)
      PROVE  app'.pc = pc
  BY <1>8 DEF Goto, Typed, Apps
<1>9. ASSUME NEW code, NEW word, Exit(code, word)
      PROVE  app'.pc = "ended"
  BY <1>9 DEF Exit, Typed, Apps
<1>10. ASSUME NEW cfg, StartSave(cfg)
      PROVE  app'.pc \in {"events", "write"}
  BY <1>10 DEF StartSave, Typed, Apps
<1>. USE DEF Stages, Before, During
<1>11. CASE Arguments \/ Materials \/ Devices \/ ValidatePack \/ CreateSession \/ Watch
  BY <1>7, <1>8, <1>9, <1>11 DEF Arguments, Materials, Devices, ValidatePack, CreateSession, Watch
<1>12. CASE LoadConfig
  BY <1>7, <1>12 DEF LoadConfig, Typed, Apps, Overlays
<1>13. CASE Resume \/ NativeStart \/ NativeFrame
  BY <1>7, <1>8, <1>9, <1>13 DEF Resume, NativeStart, NativeFrame
<1>14. CASE CycleOutput \/ Quit
  BY <1>7, <1>10, <1>14 DEF CycleOutput, Quit, Typed, Overlays
<1>15. CASE Poll \/ NotYet \/ NoFrame \/ Die
  BY <1>7, <1>8, <1>15 DEF Poll, NotYet, NoFrame, NextTurn, Die
<1>16. CASE Reload
  BY <1>7, <1>8, <1>9, <1>16 DEF Reload, Typed, Overlays
<1>17. CASE WriteTemporary \/ Backup \/ Publish
  BY <1>7, <1>8, <1>17, SavedEffect DEF WriteTemporary, Backup, Publish, Typed, Apps
<1>18. CASE WriteState \/ RenameState
  BY <1>7, <1>9, <1>18 DEF WriteState, RenameState, Typed, Apps
<1>19. CASE \E kind \in PackKinds : EditPack(kind)
  BY <1>7, <1>19 DEF EditPack
<1>20. CASE UNCHANGED vars
  BY <1>7, <1>20 DEF vars
<1>. QED  BY <1>1, <1>2, <1>3, <1>4, <1>5, <1>6, <1>11, <1>12, <1>13, <1>14, <1>15, <1>16, <1>17,
             <1>18, <1>19, <1>20, Zenon DEF Next

-----------------------------------------------------------------------------
\* The theorems.

LEMMA PlayerInvInit == Init => PlayerInv
<1>. SUFFICES ASSUME Init PROVE PlayerInv
  OBVIOUS
<1>1. Typed
  <2>1. 0 \in Seconds /\ "arguments" \in Stages /\ "" \in Words /\ "game" \in Keys
    BY PlayerAssumption DEF Seconds, Stages, Before, Words, Keys
  <2>2. app \in Apps
    BY <2>1, DefaultsTypes DEF Init, Launched, Apps
  <2>3. req \in Launches /\ ui \in Overlays
    BY DefaultsTypes DEF Init, Requests, Launches, Off, Overlays
  <2>4. pack \in Packs /\ session \in Sessions /\ input \in Inputs
    BY DEF Init, Unread, Packs, PackKinds, Idle, Sessions, Silence, Inputs
  <2>5. files \in [Keys -> Pairs]
    BY DEF Init, Pairs, Files
  <2>6. /\ states \in [at : [Seconds -> Nat \cup {NoState}], announced : SUBSET (Seconds \X Nat)]
        /\ count \in [launches : Nat, clock : Nat, events : Nat]
    BY DEF Init
  <2>. QED  BY <2>2, <2>3, <2>4, <2>5, <2>6 DEF Typed
<1>2. PackFollows /\ PackIsTheOneAskedFor
  BY DEF Init, Launched, Unread, Idle, PackFollows, PackIsTheOneAskedFor, ExplicitPackIsPlayed,
         PackChangesAreSeen, At, Before, During
<1>3. FilesKept
  <2>1. \A key \in Keys : files[key].main = NoFile /\ files[key].saved = NoFile
    BY DEF Init
  <2>. QED  BY <2>1 DEF Init, Launched, FilesKept, PairKept, At
<1>4. StatesKept /\ AnnouncedStateLoads
  BY DEF Init, Launched, Requests, StatesKept, AnnouncedStateLoads, At
<1>5. GateFollows
  BY DEF Init, Launched, Off, Silence, GateFollows, At
<1>. QED  BY <1>1, <1>2, <1>3, <1>4, <1>5, FilesAreRecoverable DEF PlayerInv, KeptIsRecoverable

LEMMA PlayerInvStep == PlayerInv /\ [Next]_vars => PlayerInv'
<1>. SUFFICES ASSUME PlayerInv, [Next]_vars PROVE PlayerInv'
  OBVIOUS
<1>1. Typed'
  BY TypesKept DEF PlayerInv
<1>2. PackFollows' /\ PackIsTheOneAskedFor'
  BY PackKept DEF PlayerInv
<1>3. FilesKept' /\ PreferencesAreRecoverable'
  <2>1. FilesKept'
    BY FilesStep DEF PlayerInv
  <2>. QED  BY <2>1, FilesAreRecoverable DEF FilesKept, PairKept, PreferencesAreRecoverable
<1>4. StatesKept' /\ AnnouncedStateLoads'
  BY StatesStep DEF PlayerInv, KeptIsRecoverable
<1>5. GateFollows'
  BY GateStep DEF PlayerInv
<1>. QED  BY <1>1, <1>2, <1>3, <1>4, <1>5 DEF PlayerInv, KeptIsRecoverable

\* What is played is the pack the player asked for, as its file is now, through any edits of the
\* file, faults, deaths and launches (runtime_application.cpp: the startup, the reload and the
\* native provider).
THEOREM AskedPackIsPlayed == Spec => []PackIsTheOneAskedFor
<1>1. PlayerInv => PackIsTheOneAskedFor
  BY DEF PlayerInv
<1>. QED  BY PlayerInvInit, PlayerInvStep, <1>1, PTL DEF Spec

\* What the player was told is kept is on disk, between any two steps of any launch: the last
\* preferences saved are in their file or its backup, and an announced state is in its file
\* (player_config.cpp, save_state_store.cpp).
THEOREM KeptStaysRecoverable == Spec => []KeptIsRecoverable
<1>1. PlayerInv => KeptIsRecoverable
  BY DEF PlayerInv
<1>. QED  BY PlayerInvInit, PlayerInvStep, <1>1, PTL DEF Spec

\* For any buttons, pressed and let go in any order, a frame is never given one that has been held
\* since the menu closed (game_input.cpp: ResumeGate; runtime_application.cpp: the loop).
THEOREM ButtonsDoNotLeak == Spec => HeldButtonsDoNotLeak
<1>1. PlayerInv /\ [Next]_vars =>
          [At("step") /\ session'.frame > session.frame => input'.sent \cap input.tainted = {}]_vars
  <2>. SUFFICES ASSUME PlayerInv, [Next]_vars, At("step"), session'.frame > session.frame
                PROVE  input'.sent \cap input.tainted = {}
    OBVIOUS
  <2>1. CASE Step
    BY <2>1, StepMasks DEF PlayerInv
  <2>2. CASE UNCHANGED session
    <3>1. session.frame \in Nat
      BY DEF PlayerInv, Typed, Sessions
    <3>. QED  BY <2>2, <3>1
  <2>3. Step \/ UNCHANGED session
    BY DEF Next, vars, At, Arguments, Materials, Devices, ValidatePack, CreateSession, Watch,
           LoadConfig, Resume, NativeStart, NativeFrame, Press, LetGo, TogglePause, CycleOutput, Quit,
           Poll, NotYet, Reload, NoFrame, Present, WriteTemporary, Backup, Publish, WriteState,
           RenameState, EditPack, Die, Launch, Alive
  <2>. QED  BY <2>1, <2>2, <2>3
<1>. QED  BY PlayerInvInit, PlayerInvStep, <1>1, PTL DEF Spec, HeldButtonsDoNotLeak
=============================================================================
