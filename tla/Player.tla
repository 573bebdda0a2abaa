-------------------------------- MODULE Player --------------------------------
(***************************************************************************)
(* The player's process: src/runtime_application.cpp with its pause panel  *)
(* (player_overlay.cpp), its preferences (player_config.cpp), its saved    *)
(* states (save_state_store.cpp), its input (game_input.cpp) and the       *)
(* native provider (native_runtime.cpp).  The process is launched several  *)
(* times over the same files and may die between any two steps.  Pictures, *)
(* sound and the GPU are in Presentation; a pack is what the Engine makes  *)
(* of its file, a saved state the number of frames played.                 *)
(***************************************************************************)
EXTENDS Integers, FiniteSets

CONSTANTS Buttons,                                   \* digital inputs mapped to the game
          MaxLaunches, MaxFrames, MaxSeconds,        \* bounds
          MaxEvents      \* edits of the pack, choices of the player, presses and faults
ASSUME PlayerAssumption == {MaxLaunches, MaxFrames, MaxSeconds, MaxEvents} \subseteq Nat

VARIABLES req,      \* what this launch was asked: provider, explicit pack, state to resume
          app,      \* the step of the process, how it ended and what it told Play
          pack,     \* the pack's file, and what the session holds of it
          ui,       \* the overlay and the preferences in memory
          session,  \* what the Engine's session plays: subsystems, frame
          input,    \* buttons down, ResumeGate, last state given to the game
          files,    \* preferences' file, backup and temporary of each pair of game and pack
          states,   \* saved states by the second of their name, and the announced ones
          count     \* bounded counters
vars == <<req, app, pack, ui, session, input, files, states, count>>

Absent == "absent"
\* An Engine opens a pack that validation would reject; it cannot open a broken one.
PackKinds == {Absent, "good", "incompatible", "broken"}
Opens(kind) == kind \in {"good", "incompatible"}

\* PlayerConfig{}: a mask of 1 is every subsystem on, a gain of 2 is 200 %.
Defaults == [have |-> FALSE, mask |-> 0, gain |-> 1, output |-> ""]
NoFile == [kind |-> Absent]
File(cfg) == [kind |-> "whole", cfg |-> cfg]

\* The name of the preferences' file: with or without a pack in the session.
Keys == {"pack", "game"}
Seconds == 0..MaxSeconds
NoState == -1

Requests == [native : BOOLEAN, explicit : BOOLEAN, resume : {NoState}]
Launched == [pc |-> "arguments", code |-> 0, said |-> "", saving |-> Defaults, key |-> "game",
             had |-> FALSE, second |-> 0]
Unread(kind) == [disk |-> kind, rejected |-> FALSE, held |-> Absent,
                 watched |-> FALSE, changed |-> FALSE, due |-> FALSE, missed |-> FALSE]
Off == [paused |-> FALSE, was |-> FALSE, dirty |-> FALSE, running |-> TRUE, cfg |-> Defaults,
        shown |-> FALSE]
Silence == [down |-> {}, gate |-> {}, sent |-> {}, tainted |-> {}]
Idle == [mask |-> 1, frame |-> 0, played |-> {}]

Init ==
    /\ req \in Requests
    /\ app = Launched
    /\ pack = Unread("good")
    /\ ui = Off
    /\ session = Idle
    /\ input = Silence
    /\ files = [key \in Keys |-> [main |-> NoFile, bak |-> NoFile, tmp |-> NoFile,
                                  saved |-> NoFile]]
    /\ states = [at |-> [s \in Seconds |-> NoState], announced |-> {}]
    /\ count = [launches |-> 1, clock |-> 0, events |-> 0]

At(pc) == app.pc = pc
Goto(pc) == app' = [app EXCEPT !.pc = pc]
Exit(code, word) == app' = [app EXCEPT !.pc = "ended", !.code = code, !.said = word]
Happens == count.events < MaxEvents /\ count' = [count EXCEPT !.events = @ + 1]
Fault == Happens
Alive == ~At("ended") /\ ~At("dead")

(***************************************************************************)
(* Startup.  Every stage goes on, ends the process with a code and a       *)
(* warning, or goes on without the part that failed.                       *)
(***************************************************************************)
\* --probe-core: the core was read, cannot be loaded, or is not a core.
ProbeCodes == {0, 2, 3}
\* Options, and the modes that answer and leave: capabilities, QA session, probes.
Arguments ==
    /\ At("arguments")
    /\ UNCHANGED <<req, pack, ui, session, input, files, states>>
    /\ \/ Goto(IF req.native THEN "native" ELSE "materials") /\ UNCHANGED count
       \/ /\ Fault
          /\ \/ Exit(64, "cli_invalid_argument")
             \/ ~req.native /\ Exit(65, "protocol_incompatible")
             \/ ~req.native /\ \E code \in ProbeCodes : Exit(code, "probe")

\* Core and ROM named, reservations, trust registry, inspection of an explicit pack, input map.
Materials ==
    /\ At("materials")
    /\ UNCHANGED <<req, pack, ui, session, input, files, states>>
    /\ \/ /\ req.explicit => Opens(pack.disk)
          /\ Goto("devices") /\ UNCHANGED count
       \/ /\ req.explicit /\ ~Opens(pack.disk)
          /\ Exit(4, "pack_open_failed") /\ UNCHANGED count
       \/ /\ Fault
          /\ \/ Exit(64, "cli_invalid_argument")
             \/ Exit(74, "reservation_failed")
             \/ Exit(78, "trust_registry_invalid")
             \/ (req.explicit => Opens(pack.disk)) /\ Exit(78, "input_map_invalid")

\* SDL and a window are needed; Vulkan and the swapchain are not.
Devices ==
    /\ At("devices")
    /\ UNCHANGED <<req, pack, ui, session, input, files, states>>
    /\ \/ Goto("validate") /\ UNCHANGED count
       \/ Fault /\ Exit(1, "")

\* validate_pack, when the file exists: an explicit pack that is rejected ends the process,
\* one found by convention is forgotten.
ValidatePack ==
    LET rejected == pack.disk # Absent /\ pack.disk # "good" IN
    /\ At("validate")
    /\ pack' = [pack EXCEPT !.rejected = rejected]
    /\ IF rejected /\ req.explicit
       THEN Exit(4, "pack_open_failed")
       ELSE Goto("session")
    /\ UNCHANGED <<req, ui, session, input, files, states, count>>

\* AytherSession::create succeeds without its pack; the check after it does not let an
\* explicit one be missing.
Created == [pack EXCEPT !.held = IF ~pack.rejected /\ Opens(pack.disk) THEN pack.disk ELSE Absent]
CreateSession ==
    /\ At("session")
    /\ UNCHANGED <<req, ui, session, input, files, states>>
    /\ \/ /\ pack' = Created
          /\ IF req.explicit /\ pack'.held = Absent
             THEN Exit(4, "pack_open_failed")
             ELSE Goto("watch")
          /\ UNCHANGED count
       \/ Fault /\ Exit(1, "core_load_failed") /\ UNCHANGED pack

\* PackWatcher::create; without it the pack is never reloaded.
Watch ==
    /\ At("watch")
    /\ Goto("config")
    /\ \E created \in BOOLEAN : pack' = [pack EXCEPT !.watched = ~pack.rejected /\ created]
    /\ UNCHANGED <<req, ui, session, input, files, states, count>>

\* player_config_load_checked: no file and an unreadable one are the defaults, and the key
\* `subsystems' of a file is a choice whatever wrote it.
Loaded(file) ==
    IF file.kind = "whole" THEN [file.cfg EXCEPT !.have = TRUE] ELSE Defaults
\* output_profile_resolve: the player's choice, else what the pack recommends.
Resolve(output) == IF output = "" THEN "recommended" ELSE output
\* The preferences are applied to the session in this order: profile, mask, buses, switches,
\* output.
LoadConfig ==
    LET key == IF pack.held = Absent THEN "game" ELSE "pack"
        cfg == Loaded(files[key].main) IN
    /\ At("config")
    /\ app' = [app EXCEPT !.pc = "resume", !.key = key]
    /\ ui' = [ui EXCEPT !.cfg = [cfg EXCEPT !.output = Resolve(cfg.output)]]
    /\ session' = [session EXCEPT !.mask = IF cfg.have THEN cfg.mask ELSE @]
    /\ UNCHANGED <<req, pack, input, files, states, count>>

\* SaveStateStore::load: what a whole file holds.
StateAt(second) == states.at[second]
\* --load-state: a state that cannot be restored is a warning and a game from the start.
Resume ==
    /\ At("resume")
    /\ UNCHANGED <<req, pack, ui, input, files, states>>
    /\ \/ /\ Goto("events") /\ UNCHANGED count
          /\ session' = [session EXCEPT !.frame = IF req.resume < 0 THEN 0
                                                  ELSE StateAt(req.resume)]
       \/ req.resume >= 0 /\ Fault /\ UNCHANGED session /\ Goto("events")

(***************************************************************************)
(* The native provider: no pack by convention, no panel, no preferences.   *)
(***************************************************************************)
NativeStart ==
    /\ At("native")
    /\ pack' = [pack EXCEPT !.held = IF req.explicit /\ Opens(pack.disk) THEN pack.disk
                                     ELSE Absent]
    /\ IF req.explicit /\ pack'.held = Absent THEN Exit(1, "") ELSE Goto("native loop")
    /\ UNCHANGED <<req, ui, session, input, files, states, count>>

\* One frame, delivered to audio and screen; anything that fails ends the process.
NativeFrame ==
    /\ At("native loop")
    /\ UNCHANGED <<req, pack, ui, input, files, states>>
    /\ \/ /\ session.frame < MaxFrames
          /\ session' = [session EXCEPT !.frame = @ + 1, !.played = @ \cup {pack.held}]
          /\ UNCHANGED <<app, count>>
       \/ session.frame = MaxFrames /\ Exit(0, "") /\ UNCHANGED <<session, count>>
       \/ Fault /\ Exit(1, "") /\ UNCHANGED session

(***************************************************************************)
(* The loop: events, reload of the pack, a step of the game, a frame.      *)
(***************************************************************************)
\* Buttons change while SDL pumps its events.
Press(b) ==
    /\ At("events") /\ b \notin input.down /\ Happens
    /\ input' = [input EXCEPT !.down = @ \cup {b}]
    /\ UNCHANGED <<req, app, pack, ui, session, files, states>>
LetGo(b) ==
    /\ At("events") /\ b \in input.down
    /\ input' = [input EXCEPT !.down = @ \ {b}, !.tainted = @ \ {b}]
    /\ UNCHANGED <<req, app, pack, ui, session, files, states, count>>

\* Escape and Guide.  Leaving a menu that was on the screen taints what is held.
Tainted == IF ui.shown THEN input.down ELSE input.tainted
TogglePause ==
    /\ At("events") /\ Happens
    /\ ui' = [ui EXCEPT !.paused = ~@, !.shown = FALSE]
    /\ input' = [input EXCEPT !.tainted = Tainted]
    /\ UNCHANGED <<req, app, pack, session, files, states>>
\* player_config_save refuses a gain above 1 before it touches a file.
Saves(cfg) == cfg.gain <= 1
StartSave(cfg) ==
    app' = IF Saves(cfg) THEN [app EXCEPT !.pc = "write", !.saving = cfg]
           ELSE [app EXCEPT !.pc = "events"]
\* F4: the next output profile, saved at once.
CycleOutput ==
    LET cfg == [ui.cfg EXCEPT !.output = "chosen"] IN
    /\ At("events") /\ Happens
    /\ ui' = [ui EXCEPT !.cfg = cfg]
    /\ StartSave(cfg)
    /\ UNCHANGED <<req, pack, session, input, files, states>>

Quit ==
    /\ At("events") /\ ui.running
    /\ ui' = [ui EXCEPT !.running = FALSE]
    /\ UNCHANGED <<req, app, pack, session, input, files, states, count>>

\* No event is left.  The watcher is polled every turn; the first change starts the wait of
\* 100 ms.
\* Fault: the wait starts again only with a change of this turn.
PolledAnew == [pack EXCEPT !.changed = FALSE, !.due = pack.changed]
Polled == [pack EXCEPT !.changed = FALSE, !.due = @ \/ pack.changed]
Poll ==
    /\ At("events")
    /\ pack' = Polled
    /\ Goto("reload")
    /\ UNCHANGED <<req, ui, session, input, files, states, count>>
NotYet ==
    /\ At("reload")
    /\ Goto("step")
    /\ UNCHANGED <<req, pack, ui, session, input, files, states, count>>

\* set_pack closes the pack it had; one that cannot be opened may leave the old one.
Reopened == IF Opens(pack.disk) THEN {pack.disk}
            ELSE IF pack.disk = Absent THEN {Absent} ELSE {Absent, pack.held}
\* An explicit pack that is gone or broken ends the process here, before another frame.
MustEnd(held) == req.explicit /\ (pack.disk = "broken" \/ held = Absent)
Reload ==
    /\ At("reload") /\ pack.due
    /\ UNCHANGED <<req, session, input, files, states>>
    /\ \/ \E held \in Reopened :
            /\ pack' = [pack EXCEPT !.due = FALSE, !.held = held]
            /\ IF MustEnd(held) THEN Exit(4, "pack_open_failed") ELSE Goto("step")
            /\ UNCHANGED <<ui, count>>
       \/ \* vkDeviceWaitIdle failed
          /\ Fault /\ Goto("shutdown") /\ ui' = [ui EXCEPT !.running = FALSE]
          /\ pack' = [pack EXCEPT !.due = FALSE]

\* ResumeGate::filter: what is masked and still down stays out; what was let go is unmasked.
Filter(gate, down) == [mask |-> gate \cap down, sent |-> down \ gate]
\* Fault: armed when the menu opens.
ArmedOnOpen == IF ~ui.was /\ ui.paused THEN input.down ELSE input.gate
\* arm_resume_gate, in the first turn that finds the menu closed.
Armed == IF ui.was /\ ~ui.paused THEN input.down ELSE input.gate
Step ==
    /\ At("step")
    /\ Goto("present")
    /\ ui' = [ui EXCEPT !.was = ui.paused]
    /\ \/ /\ ui.paused \/ session.frame = MaxFrames
          /\ input' = [input EXCEPT !.gate = Armed] /\ UNCHANGED session
       \/ \* a frame, or several of the same input with Tab held
          /\ ~ui.paused /\ session.frame < MaxFrames
          /\ LET f == Filter(Armed, input.down) IN
             input' = [input EXCEPT !.gate = f.mask, !.sent = f.sent]
          /\ session' = [session EXCEPT !.frame = @ + 1, !.played = @ \cup {pack.held}]
       \/ \* Backspace: the input is not polled
          /\ ~ui.paused /\ session.frame > 0
          /\ input' = [input EXCEPT !.gate = Armed]
          /\ session' = [session EXCEPT !.frame = @ - 1, !.played = @ \cup {pack.held}]
    /\ UNCHANGED <<req, pack, files, states, count>>

\* --frames reached, or Quit.
NextTurn == IF ui'.running THEN "events" ELSE "shutdown"
NoFrame ==
    /\ At("present")
    /\ UNCHANGED ui
    /\ Goto(NextTurn)
    /\ UNCHANGED <<req, pack, session, input, files, states, count>>

\* What the panel does to the preferences and to the session at once.
Edit(cfg, edit) ==
    CASE edit = "mask" -> [cfg EXCEPT !.have = TRUE, !.mask = 1 - session.mask]
      [] edit = "gain" -> [cfg EXCEPT !.gain = 3 - @]
      [] edit = "restore" -> [Defaults EXCEPT !.have = TRUE, !.mask = 1]
      [] OTHER -> cfg
NewMask(cfg, edit) == IF edit \in {"mask", "restore"} THEN cfg.mask ELSE session.mask
Edits == {"none", "mask", "gain", "restore", "quit"}
\* PlayerOverlay::render, while paused: Continuar, then the rest of the panel.
Rendered(edit, closes) ==
    [ui EXCEPT !.paused = @ /\ ~closes,
               !.shown = ui.paused /\ ~closes,
               !.cfg = Edit(@, edit),
               !.dirty = @ \/ edit \in {"mask", "gain", "restore"},
               !.running = @ /\ edit # "quit"]
\* take_config_dirty() && !is_paused()
SavesPanel(u) == u.dirty /\ ~u.paused
Present(edit, closes) ==
    LET u == Rendered(edit, closes) IN
    /\ At("present")
    /\ IF edit = "none" /\ ~closes THEN UNCHANGED count ELSE ui.paused /\ Happens
    /\ session' = [session EXCEPT !.mask = NewMask(u.cfg, edit)]
    /\ input' = IF closes THEN [input EXCEPT !.tainted = input.down] ELSE input
    /\ IF SavesPanel(u)
       THEN ui' = [u EXCEPT !.dirty = FALSE] /\ StartSave(u.cfg)
       ELSE ui' = [u EXCEPT !.dirty = FALSE] /\ Goto(NextTurn)
    /\ UNCHANGED <<req, pack, files, states>>

(***************************************************************************)
(* player_config_save: temporary, backup, publication, cleanup.            *)
(***************************************************************************)
Prefs == files[app.key]
Change(prefs) == files' = [files EXCEPT ![app.key] = prefs]
Saved == app' = [app EXCEPT !.pc = IF ui.running THEN "events" ELSE "shutdown",
                            !.saving = Defaults, !.had = FALSE]
WriteTemporary ==
    /\ At("write")
    /\ UNCHANGED <<req, pack, ui, session, input, states>>
    /\ \/ /\ Change([Prefs EXCEPT !.tmp = File(app.saving)])
          /\ app' = [app EXCEPT !.pc = "backup", !.had = Prefs.main # NoFile]
          /\ UNCHANGED count
       \/ Fault /\ Change([Prefs EXCEPT !.tmp = NoFile]) /\ Saved

\* Fault: the file is removed to make room for the new one.
Removed == [Prefs EXCEPT !.main = NoFile]
\* The file becomes the backup; the backup there was is removed first.
BackedUp == [Prefs EXCEPT !.bak = Prefs.main, !.main = NoFile]
Backup ==
    /\ At("backup")
    /\ UNCHANGED <<req, pack, ui, session, input, states>>
    /\ \/ /\ IF app.had THEN Change(BackedUp) ELSE UNCHANGED files
          /\ Goto("publish") /\ UNCHANGED count
       \/ app.had /\ Fault /\ Change([Prefs EXCEPT !.bak = NoFile, !.tmp = NoFile]) /\ Saved

\* What a failed publication leaves when the backup can be put back.
Restored == IF app.had THEN [Prefs EXCEPT !.tmp = NoFile, !.main = Prefs.bak, !.bak = NoFile]
            ELSE [Prefs EXCEPT !.tmp = NoFile]
\* The backup is removed after the publication; a publication that fails puts it back.
Publish ==
    /\ At("publish")
    /\ UNCHANGED <<req, pack, ui, session, input, states>>
    /\ \/ /\ \E bak \in {Prefs.bak} \cup (IF app.had THEN {NoFile} ELSE {}) :
                Change([Prefs EXCEPT !.main = Prefs.tmp, !.tmp = NoFile, !.saved = Prefs.tmp,
                                     !.bak = bak])
          /\ Saved /\ UNCHANGED count
       \/ Fault /\ Change(Restored) /\ Saved
       \/ Fault /\ Change([Prefs EXCEPT !.tmp = NoFile]) /\ Saved

(***************************************************************************)
(* Shutdown: the state of the game is written, renamed and announced.      *)
(***************************************************************************)
\* The name holds the second; the state of the same second is not replaced.
Taken(second) == states.at[second] # NoState
WriteState ==
    /\ At("shutdown")
    /\ UNCHANGED <<req, pack, ui, session, input, files, states>>
    /\ \/ \E second \in count.clock..MaxSeconds :
            /\ count' = [count EXCEPT !.clock = second]
            /\ IF Taken(second) THEN Exit(0, "state_save_failed")
               ELSE app' = [app EXCEPT !.pc = "rename", !.second = second]
       \/ Fault /\ Exit(0, "exit")
RenameState ==
    /\ At("rename")
    /\ UNCHANGED <<req, pack, ui, session, input, files>>
    /\ \/ /\ states' = [at |-> [states.at EXCEPT ![app.second] = session.frame],
                        announced |-> states.announced \cup {<<app.second, session.frame>>}]
          /\ Exit(0, "exit") /\ UNCHANGED count
       \/ Fault /\ Exit(0, "persistence_io_failed") /\ UNCHANGED states

(***************************************************************************)
(* The world: the pack's author, the end of the process, Ayther Play.      *)
(***************************************************************************)
EditPack(kind) ==
    /\ Alive /\ kind # pack.disk /\ Happens
    /\ pack' = [pack EXCEPT !.disk = kind, !.changed = @ \/ pack.watched,
                            !.missed = @ \/ At("watch")]
    /\ UNCHANGED <<req, app, ui, session, input, files, states>>
Die ==
    /\ Alive /\ Fault /\ Goto("dead")
    /\ UNCHANGED <<req, pack, ui, session, input, files, states>>
Launch ==
    /\ ~Alive /\ count.launches < MaxLaunches
    /\ req' \in {[req EXCEPT !.resume = r] :
                    r \in {NoState} \cup {a[1] : a \in states.announced}}
    /\ app' = Launched /\ pack' = Unread(pack.disk) /\ ui' = Off /\ session' = Idle
    /\ input' = Silence
    /\ count' = [count EXCEPT !.launches = @ + 1]
    /\ UNCHANGED <<files, states>>

Next ==
    \/ Arguments \/ Materials \/ Devices \/ ValidatePack \/ CreateSession \/ Watch
    \/ LoadConfig \/ Resume \/ NativeStart \/ NativeFrame
    \/ \E b \in Buttons : Press(b) \/ LetGo(b)
    \/ TogglePause \/ CycleOutput \/ Quit
    \/ Poll \/ NotYet \/ Reload \/ Step \/ NoFrame
    \/ \E edit \in Edits, closes \in BOOLEAN : Present(edit, closes)
    \/ WriteTemporary \/ Backup \/ Publish \/ WriteState \/ RenameState
    \/ \E kind \in PackKinds : EditPack(kind)
    \/ Die \/ Launch
Spec == Init /\ [][Next]_vars

(***************************************************************************)
(* Properties.                                                             *)
(***************************************************************************)
\* No frame is played without the pack the player asked for, through edits of its file before,
\* during and after startup; and a pack found by convention that validation rejected is not
\* brought back by the search of another (runtime_application.cpp:359-375, 531-607, 1123-1131).
ExplicitPackIsPlayed ==
    /\ req.explicit => Absent \notin session.played
    /\ pack.rejected => session.played \subseteq {Absent}

\* While the pack is watched, a session whose watcher has nothing to tell and that waits for
\* no reload holds what the file holds (runtime_application.cpp:1095-1152).  An edit between
\* the opening of the pack and the start of the watch is missed.
PackChangesAreSeen ==
    (pack.watched /\ ~pack.missed /\ ~pack.changed /\ ~pack.due /\ pack.disk # "broken"
     /\ Alive /\ ~At("shutdown") /\ ~At("rename"))
        => pack.held = (IF Opens(pack.disk) THEN pack.disk ELSE Absent)

\* What is played is the pack that was asked for, as its file is now.
PackIsTheOneAskedFor == ExplicitPackIsPlayed /\ PackChangesAreSeen

\* A button held since the menu closed does not reach the game before it is let go, whoever
\* closed the menu and whatever was rewound since (runtime_application.cpp:1160-1165).
HeldButtonsDoNotLeak == [][At("step") /\ session'.frame > session.frame
                              => input'.sent \cap input.tainted = {}]_vars

\* Once preferences were saved, the last ones saved are in their file or in its backup,
\* whatever failed and wherever the process died (player_config.cpp:343-372).
PreferencesAreRecoverable ==
    \A key \in Keys : files[key].saved # NoFile =>
        files[key].saved \in {files[key].main, files[key].bak}

\* A state announced to Play is in its file as it was at the end of that game
\* (save_state_store.cpp:201-243).
AnnouncedStateLoads == \A a \in states.announced : states.at[a[1]] = a[2]

\* What the player was told is kept can be had again at the next launch.
KeptIsRecoverable == PreferencesAreRecoverable /\ AnnouncedStateLoads

\* "guardar al SALIR del panel" (runtime_application.cpp:1480): the first frame presented after
\* the panel was left saves the preferences changed in it, unless they are already in the file.
PanelEditsAreSaved ==
    [][(Present("none", FALSE) /\ ~ui.paused /\ ui.cfg.have /\ Saves(ui.cfg))
          => \/ app'.pc = "write"
             \/ Prefs.main # NoFile /\ Prefs.main.cfg.mask = ui.cfg.mask]_vars
\* "This distinguishes an explicit "disable all" choice from an unset value."
\* (player_config.h:31): subsystems nobody chose to turn off are on.
UnsetIsNotDisableAll ==
    (At("resume") /\ session.mask = 0) => \E key \in Keys : files[key].main # NoFile /\ files[key].main.cfg.have
=============================================================================
