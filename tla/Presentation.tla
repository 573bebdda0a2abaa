---------------------------- MODULE Presentation ----------------------------
(***************************************************************************)
(* The swapchain (vulkan_backend/vk_swapchain.cpp) under its three         *)
(* clients: the player's main loop (runtime_application.cpp), the window   *)
(* of the audio QA (audio_qa_presentation.cpp) and the native runner       *)
(* (native_runtime.cpp).                                                   *)
(*                                                                         *)
(* Two frames are in flight.  Each frame slot has a fence the processor    *)
(* waits on and a semaphore that the acquisition of an image signals and   *)
(* the submitted frame consumes.  Any call of Vulkan may fail, at any      *)
(* point of the frame; every client answers by replacing the swapchain,    *)
(* and that may fail too, halfway.  The images are not modelled; neither   *)
(* is what is drawn, only whether the framebuffers drawn through are those *)
(* of the swapchain in use.                                                *)
(***************************************************************************)
EXTENDS Naturals, FiniteSets

CONSTANTS
    MaxFaults,    \* bound: Vulkan calls that fail
    MaxResizes    \* bound: changes of the window's size

Slots == 0 .. 1

(* Size 0 is a minimised window. *)
Sizes == 0 .. 2

(* What is drawn after the frame itself: the CRT pass and the menu. *)
Layers == {"post", "overlay"}

VARIABLES
    client,     \* which program presents
    pc,         \* where its frame is
    win,        \* the size of the window
    asked,      \* the size the client read when it began the frame
    resized,    \* the player: an unread resize event
    extent,     \* the size of the swapchain
    slot,       \* frame_index_
    fence,      \* per slot: signaled, pending (submitted), reset (not submitted)
    ready_,     \* per slot: image_ready is signaled and nobody has consumed it
    layers,     \* the layers that were initialised and are in use
    stale,      \* the layers whose framebuffers belong to a destroyed swapchain
    swapOk,     \* the player's swap_ok
    query,      \* the native runner: slots with a timestamp query pending
    shown,      \* presented_, modulo the two slots
    lost,       \* the audio QA: a frame was lost and no recovery has been tried since
    failed,     \* what has failed while a swapchain was being replaced
    faults, resizes

sync == <<slot, fence, ready_>>
budget == <<faults, resizes>>
vars == <<client, pc, win, asked, resized, extent, sync, layers, stale, swapOk,
          query, shown, lost, failed, budget>>

TypeOK ==
    /\ client \in {"player", "qa", "native"}
    /\ pc \in {"context", "swapchain", "renderer", "post", "overlay", "idle", "begin", "recording",
              "rebuild", "resize", "over"}
    /\ win \in Sizes /\ asked \in Sizes /\ extent \in Sizes
    /\ lost \in BOOLEAN /\ resized \in BOOLEAN /\ swapOk \in BOOLEAN
    /\ slot \in Slots /\ shown \in Slots
    /\ fence \in [Slots -> {"signaled", "pending", "reset"}]
    /\ ready_ \in [Slots -> BOOLEAN]
    /\ layers \subseteq Layers /\ stale \subseteq Layers
    /\ query \subseteq Slots
    /\ failed \subseteq {"swapchain", "resize", "overlay"}
    /\ faults \in 0 .. MaxFaults /\ resizes \in 0 .. MaxResizes

Init ==
    /\ client \in {"player", "qa", "native"}
    /\ pc = "context" /\ win \in Sizes
    /\ asked = 0 /\ extent = 0 /\ resized = FALSE /\ swapOk = FALSE
    /\ slot = 0 /\ shown = 0 /\ query = {}
    /\ fence = [s \in Slots |-> "signaled"] /\ ready_ = [s \in Slots |-> FALSE]
    /\ layers = {} /\ stale = {} /\ lost = FALSE /\ failed = {}
    /\ faults = 0 /\ resizes = 0

Fault == faults < MaxFaults /\ faults' = faults + 1

(***************************************************************************)
(* Starting, in the order of the code: context, swapchain and renderer,    *)
(* without which there is no picture (the native runner ends, the others   *)
(* go on unseen); then the layers, each of which is left out if any of its *)
(* objects cannot be created.                                              *)
(***************************************************************************)

Started(step, next) ==
    /\ pc = step /\ pc' = next
    /\ UNCHANGED <<client, win, asked, resized, sync, stale, query, shown, lost, failed, budget>>

Refused(step) ==
    /\ pc = step /\ pc' = "over"
    /\ UNCHANGED <<client, win, asked, resized, extent, sync, layers, stale, swapOk,
                   query, shown, lost, failed, resizes>>

InitContext ==
    \/ Started("context", "swapchain") /\ UNCHANGED <<extent, layers, swapOk>>
    \/ Refused("context") /\ Fault

InitSwapchain ==
    \/ /\ win > 0 /\ Started("swapchain", "renderer")
       /\ extent' = win /\ swapOk' = TRUE /\ UNCHANGED layers
    \/ Refused("swapchain") /\ ((win = 0 /\ UNCHANGED faults) \/ Fault)

InitRenderer ==
    \/ /\ Started("renderer", IF client = "native" THEN "idle" ELSE "post")
       /\ UNCHANGED <<extent, layers, swapOk>>
    \/ Refused("renderer") /\ Fault

InitPostprocess ==
    /\ Started("post", "overlay") /\ layers' \in {{}, {"post"}}
    /\ UNCHANGED <<extent, swapOk>>

InitOverlay ==
    /\ Started("overlay", "idle") /\ layers' \in {layers, layers \cup {"overlay"}}
    /\ UNCHANGED <<extent, swapOk>>

Start == InitContext \/ InitSwapchain \/ InitRenderer \/ InitPostprocess \/ InitOverlay

(***************************************************************************)
(* The environment.                                                        *)
(***************************************************************************)

Resize ==
    /\ resizes < MaxResizes /\ resizes' = resizes + 1
    /\ win' \in Sizes \ {win} /\ resized' = TRUE
    /\ UNCHANGED <<client, pc, asked, extent, sync, layers, stale, swapOk,
                   query, shown, lost, failed, faults>>

(* The graphics processor ends a frame: it had waited for the image and     *)
(* signals the fence.                                                       *)
GpuCompletes(s) ==
    /\ fence[s] = "pending"
    /\ fence' = [fence EXCEPT ![s] = "signaled"]
    /\ ready_' = [ready_ EXCEPT ![s] = FALSE]
    /\ UNCHANGED <<client, pc, win, asked, resized, extent, slot, layers, stale, swapOk,
                   query, shown, lost, failed, budget>>

(***************************************************************************)
(* The start of a frame.                                                   *)
(***************************************************************************)

\* Fault: the resize event is not taken off the queue.
KeepsResizeEvent ==
    /\ client = "player" /\ pc = "idle" /\ resized
    /\ pc' = IF swapOk THEN "rebuild" ELSE "idle"
    /\ UNCHANGED <<client, win, asked, resized, extent, sync, layers, stale, swapOk,
                   query, shown, lost, failed, budget>>
(* The player rebuilds on the resize event, if it still has a swapchain. *)
ReadResize ==
    /\ client = "player" /\ pc = "idle" /\ resized
    /\ resized' = FALSE
    /\ pc' = IF swapOk THEN "rebuild" ELSE "idle"
    /\ UNCHANGED <<client, win, asked, extent, sync, layers, stale, swapOk,
                   query, shown, lost, failed, budget>>

(* The player draws only while it has a swapchain; the audio QA skips a     *)
(* minimised window and replaces a swapchain of another size first.         *)
StartFrame ==
    /\ pc = "idle"
    /\ \/ client = "native"
       \/ client = "player" /\ swapOk /\ ~resized
       \/ client = "qa" /\ win > 0
    /\ asked' = win
    /\ pc' = IF client = "qa" /\ win # extent THEN "resize" ELSE "begin"
    /\ UNCHANGED <<client, win, resized, extent, sync, layers, stale, swapOk,
                   query, shown, lost, failed, budget>>

(* What a client does with a frame that failed. *)
GiveUpFrame ==
    /\ pc' = IF client = "native" THEN "over" ELSE "rebuild"
    /\ lost' = (client = "qa")

(***************************************************************************)
(* begin_frame: waits for the slot's fence, acquires an image, and starts  *)
(* recording.  A failure after the acquisition leaves image_ready signaled *)
(* (or about to be) with no submission to consume it.                      *)
(***************************************************************************)

BeginFrame ==
    /\ pc = "begin" /\ fence[slot] = "signaled"
    /\ pc' = "recording"
    /\ ready_' = [ready_ EXCEPT ![slot] = TRUE]
    /\ query' = query \ {shown}             \* the native runner's collect_gpu_query
    /\ UNCHANGED <<client, win, asked, resized, extent, slot, fence, layers, stale,
                   swapOk, shown, lost, failed, budget>>

BeginFails ==
    /\ pc = "begin" /\ fence[slot] = "signaled"
    /\ Fault /\ GiveUpFrame
    /\ \/ UNCHANGED ready_
       \/ ready_' = [ready_ EXCEPT ![slot] = TRUE]
    /\ UNCHANGED <<client, win, asked, resized, extent, slot, fence, layers, stale,
                   swapOk, query, shown, failed, resizes>>

(***************************************************************************)
(* end_frame: the fence is reset just before the submission.               *)
(***************************************************************************)

(* vkEndCommandBuffer or vkResetFences fails. *)
EndFails ==
    /\ pc = "recording" /\ Fault /\ GiveUpFrame
    /\ UNCHANGED <<client, win, asked, resized, extent, sync, layers, stale,
                   swapOk, query, shown, failed, resizes>>

SubmitFails ==
    /\ pc = "recording" /\ Fault /\ GiveUpFrame
    /\ fence' = [fence EXCEPT ![slot] = "reset"]
    /\ UNCHANGED <<client, win, asked, resized, extent, slot, ready_, layers, stale,
                   swapOk, query, shown, failed, resizes>>

(* The next frame takes the other slot, whatever the presentation says. *)
NextSlot == (slot + 1) % 2

Submitted ==
    /\ pc = "recording"
    /\ fence' = [fence EXCEPT ![slot] = "pending"]
    /\ slot' = NextSlot

PresentFails ==
    /\ Submitted /\ Fault /\ GiveUpFrame
    /\ UNCHANGED <<client, win, asked, resized, extent, ready_, layers, stale,
                   swapOk, query, shown, failed, resizes>>

EndFrame ==
    /\ Submitted
    /\ pc' = "idle" /\ shown' = (shown + 1) % 2
    /\ query' = IF client = "native" THEN query \cup {shown} ELSE query
    /\ UNCHANGED <<client, win, asked, resized, extent, ready_, layers, stale,
                   swapOk, lost, failed, budget>>

(***************************************************************************)
(* Replacing the swapchain.  It waits for the device to be idle, builds    *)
(* the whole replacement with its own fences and semaphores, and only then *)
(* destroys the old one: the framebuffers of every layer are stale until   *)
(* the layer is rebuilt.                                                   *)
(***************************************************************************)

(* The player reads the size when it rebuilds, the audio QA when it began   *)
(* the frame.                                                               *)
SizeAsked == IF client = "player" THEN win ELSE asked

Rebuilding == pc \in {"rebuild", "resize"} /\ \A s \in Slots : fence[s] # "pending"

(* create_sync: fences are created signaled, semaphores are not. *)
FreshSync ==
    /\ slot' = 0 /\ fence' = [s \in Slots |-> "signaled"]
    /\ ready_' = [s \in Slots |-> FALSE]

(* The new swapchain, with the layers that were rebuilt over it. *)
Built(rebuilt) ==
    /\ SizeAsked > 0 /\ extent' = SizeAsked
    /\ FreshSync
    /\ stale' = layers \ rebuilt

(* What is left in use of the layers when one could not be rebuilt: the CRT *)
(* pass is given up for a plain blit; the menu stays.                       *)
Kept(broken) == layers \ (broken \cap {"post"})

AfterRebuild(ok) ==
    pc' = IF pc = "resize" /\ ok THEN "begin" ELSE "idle"

Rebuild ==
    /\ Rebuilding
    /\ Built(layers) /\ AfterRebuild(TRUE) /\ swapOk' = TRUE
    /\ UNCHANGED <<client, win, asked, resized, layers, query, shown, lost, failed, budget>>

LayerFails(layer) ==
    /\ Rebuilding /\ layer \in layers
    /\ Fault /\ Built(layers \ {layer}) /\ AfterRebuild(TRUE) /\ swapOk' = TRUE
    /\ layers' = Kept({layer})
    /\ failed' = IF layer = "overlay" THEN failed \cup {"overlay"} ELSE failed
    /\ UNCHANGED <<client, win, asked, resized, query, shown, lost, resizes>>

(* No replacement: the old swapchain stays.  The player stops presenting;   *)
(* the audio QA comes back with the next frame or recovery.                 *)
RebuildFails ==
    /\ pc \in {"rebuild", "resize"}
    /\ \/ SizeAsked = 0 /\ UNCHANGED faults
       \/ Fault
    /\ AfterRebuild(FALSE)
    /\ swapOk' = (client # "player")
    /\ lost' = (client = "qa") /\ failed' = failed \cup {"swapchain"}
    /\ UNCHANGED <<client, win, asked, resized, extent, sync, layers, stale,
                   query, shown, resizes>>

(* The audio QA returns between the two: a new swapchain, an image of the   *)
(* renderer that could not be resized, and no layer rebuilt.                *)
ResizeFails ==
    /\ client = "qa" /\ Rebuilding
    /\ Fault /\ Built({}) /\ AfterRebuild(FALSE)
    /\ lost' = TRUE /\ failed' = failed \cup {"resize"}
    /\ UNCHANGED <<client, win, asked, resized, layers, swapOk, query, shown, resizes>>

(* recover_video, called by the session while the picture is lost. *)
RecoverVideo ==
    /\ client = "qa" /\ pc = "idle" /\ lost
    /\ pc' = "rebuild" /\ asked' = win /\ lost' = FALSE
    /\ UNCHANGED <<client, win, resized, extent, sync, layers, stale, swapOk,
                   query, shown, failed, budget>>

(* The teardown waits for the device. *)
Close ==
    /\ pc = "idle" /\ \A s \in Slots : fence[s] # "pending"
    /\ pc' = "over"
    /\ UNCHANGED <<client, win, asked, resized, extent, sync, layers, stale, swapOk,
                   query, shown, lost, failed, budget>>

Frame ==
    \/ ReadResize \/ StartFrame
    \/ BeginFrame \/ BeginFails
    \/ EndFrame \/ EndFails \/ SubmitFails \/ PresentFails
    \/ Rebuild \/ RebuildFails \/ ResizeFails
    \/ \E layer \in Layers : LayerFails(layer)

Next ==
    \/ Start \/ Resize
    \/ \E s \in Slots : GpuCompletes(s)
    \/ Frame \/ RecoverVideo \/ Close

(* The main loop goes on and the graphics processor ends what it was given. *)
Spec ==
    /\ Init /\ [][Next]_vars
    /\ WF_vars(Frame) /\ WF_vars(Start)
    /\ \A s \in Slots : WF_vars(GpuCompletes(s))

(***************************************************************************)
(* What a frame draws through.                                             *)
(***************************************************************************)

(* The CRT pass, whenever it is in use; without it, a blit. *)
PostDraws == pc = "recording" /\ "post" \in layers

(* The menu, or the overlay of the audio QA. *)
OverlayDraws == pc = "recording" /\ "overlay" \in layers

-----------------------------------------------------------------------------
(* Whatever call of a frame fails, a frame never waits on a fence that was  *)
(* reset and not submitted (it would wait for ever), never acquires an      *)
(* image with a semaphore that is still signaled, and the native runner     *)
(* never reads the query of an unfinished frame.  (vk_swapchain.cpp:131-240 *)
(* and the clients' answers to a failure.)  The one exception: the audio QA *)
(* goes on with the old swapchain after a replacement failed.               *)
SlotIsUsable ==
    pc = "begin" /\ ~(client = "qa" /\ "swapchain" \in failed) =>
        /\ fence[slot] # "reset"
        /\ fence[slot] = "signaled" => ~ready_[slot]
        /\ fence[slot] = "signaled" /\ shown \in query => fence[shown] = "signaled"

(* A frame draws only through framebuffers of the swapchain in use, except  *)
(* the menu after its own rebuild failed, and the audio QA's layers after   *)
(* the renderer could not be resized.  (The rebuild of the player,          *)
(* runtime_application.cpp:971-1001, and of audio_qa_presentation.cpp.)     *)
ViewsAreLive ==
    /\ PostDraws /\ "post" \in stale => "resize" \in failed
    /\ OverlayDraws /\ "overlay" \in stale => failed \cap {"resize", "overlay"} # {}

(* While no replacement has failed, a window that is not minimised keeps    *)
(* being drawn in: each failed frame is followed by others that are shown.  *)
Shows(parity) == shown = parity
Unbroken == client # "native" /\ failed = {} /\ pc # "over"
Visible == win > 0
PictureComesBack == []Unbroken /\ <>[]Visible => []<>Shows(0) /\ []<>Shows(1)
=============================================================================
