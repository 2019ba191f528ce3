--------------------------- MODULE ScanoutBuffers ---------------------------
(***************************************************************************)
(* The life of a Vulkan backing store, from Flutter to the display and     *)
(* back into the pool: src/vk_gbm_render_surface.c (slots, front buffer,   *)
(* snapshots, completion fences), the composition kept by window.c, the    *)
(* KMS requests of modesetting.c and their page flips, and as much of      *)
(* frame_scheduler.c as decides which request is committed.                *)
(*                                                                         *)
(* Reference counts are dropped without any lock, on whichever thread      *)
(* retires the last user, while the raster thread looks for a free slot.   *)
(* So releasing a slot is not one step: the decrement, the clean-up of the *)
(* slot, the clearing of is_locked and the release of the surface are      *)
(* steps of their own.  todo[t] is what thread t still has to do, the call *)
(* stack read from the inside out: a step removes the first task and may   *)
(* put the tasks it calls in front of the others.                          *)
(*                                                                         *)
(* A slot is a pair <<surface, index>>.  A layer of a composition or of a  *)
(* request remembers in `image` which fill of the slot it stands for; this *)
(* is history, the code has only the pointer to the slot.                  *)
(***************************************************************************)
EXTENDS Naturals, Sequences, FiniteSets, Functions

CONSTANTS
    Threads,
    EventLoop,      \* the thread that polls the DRM fd
    Raster,         \* the engine's raster thread
    MaxSurfaces,    \* render surfaces created over time, one per size change
    Pool,           \* the slots of a surface, VK_GBM_BUFFER_COUNT of them
    MaxLayers,      \* backing stores in one Flutter frame
    MaxFills,       \* bound on the backing stores handed out
    MaxRequests,    \* bound on the compositions pushed, and so on the requests
    Legacy          \* builder->use_legacy: no atomic modesetting

ASSUME ThreadsAssumption == EventLoop \in Threads /\ Raster \in Threads
ASSUME ModeAssumption == Legacy \in BOOLEAN
ASSUME BoundsAssumption ==
    /\ MaxSurfaces \in Nat \ {0} /\ IsFiniteSet(Pool) /\ 0 \notin Pool
    /\ MaxLayers \in Nat \ {0} /\ MaxFills \in Nat /\ MaxRequests \in Nat \ {0}

VARIABLES
    locked,       \* is_locked of every slot
    owner,        \* the slot's surface pointer is set
    nrefs,        \* n_refs of every slot
    store,        \* what the engine holds: flutter_owned and how far it is
    completion,   \* completion_captured / completion_fd
    image,        \* history: number of the fill that the slot holds
    fills,        \* history: number of fills so far
    life, srefs,  \* of every surface: allocated?, n_refs
    front,        \* front_fb of every surface
    sem,          \* render_finished_semaphore and semaphore_failed
    gpu,          \* slots with rendering submitted and not finished
    current,      \* window->render_surface
    composition,  \* window->composition: the layers' snapshots
    building,     \* the composition compositor_push_fl_layers is filling
    winlock,      \* holders of the window lock
    pushes,       \* history: compositions pushed so far
    refs, layers, \* of every KMS request: n_refs, pushed layers
    waiting, queued,            \* frame_scheduler
    inflight, callback,         \* kernel's pending flip, scanout_callback
    screen, flips,              \* last_flipped, pending_flip_dispatches
    lost,                       \* request of a commit whose flip never comes
    todo

slotVars == <<locked, owner, nrefs, store, completion, image, fills>>
surfVars == <<life, srefs, front, current>>
gpuVars == <<sem, gpu>>
winVars == <<composition, building, winlock, pushes>>
reqVars == <<refs, layers>>
schedVars == <<waiting, queued>>
kmsVars == <<inflight, callback, screen, flips, lost>>
vars == <<slotVars, surfVars, gpuVars, winVars, reqVars, schedVars, kmsVars,
          todo>>

Surfaces == 1 .. MaxSurfaces
Slots == Surfaces \X Pool
Requests == 1 .. MaxRequests
Images == 0 .. MaxFills
NoSlot == <<0, 0>>

SurfaceOf(s) == s[1]

Task(op, arg) == [op |-> op, req |-> 0, slot |-> arg]
ReqTask(op, r) == [op |-> op, req |-> r, slot |-> NoSlot]
Present(r, l) == [op |-> "present", req |-> r, slot |-> l.slot]
Call(op) == [op |-> op, req |-> 0, slot |-> NoSlot]

Ops == {"fill", "queue", "snapshot", "push", "repaint", "build", "present",
        "submit", "unlock", "commit", "failed", "dispatch", "scanout",
        "requnref", "unref", "unpin", "reset", "clear", "unown", "deinit"}
Tasks == [op : Ops, req : 0 .. MaxRequests, slot : Slots \cup {NoSlot} \cup (Surfaces \X {0})]

At(t, op) == todo[t] # <<>> /\ Head(todo[t]).op = op
Then(t, tasks) == todo' = [todo EXCEPT ![t] = tasks \o Tail(@)]
Idle(t) == todo[t] = <<>>
Unrefs(ls) == [i \in DOMAIN ls |-> Task("unref", ls[i].slot)]

TypeOK ==
    /\ locked \in [Slots -> BOOLEAN] /\ owner \in [Slots -> BOOLEAN]
    /\ nrefs \in [Slots -> Nat]
    /\ store \in [Slots -> {"none", "empty", "rendered", "presented"}]
    /\ completion \in [Slots -> {"none", "fence", "done"}]
    /\ image \in [Slots -> Images] /\ fills \in Images
    /\ life \in [Surfaces -> {"new", "live", "freed"}]
    /\ srefs \in [Surfaces -> Nat]
    /\ front \in [Surfaces -> Slots \cup {NoSlot}]
    /\ sem \in [Surfaces -> [handle : BOOLEAN, failed : BOOLEAN, signalled : BOOLEAN]]
    /\ gpu \subseteq Slots
    /\ current \in Surfaces
    /\ \A c \in {composition, building} :
           c \in Seq([slot : Slots, image : Images])
    /\ winlock \in SUBSET Threads
    /\ pushes \in 0 .. MaxRequests
    /\ refs \in [Requests -> Nat]
    /\ layers \in [Requests -> Seq([slot : Slots, image : Images, fence : BOOLEAN])]
    /\ waiting \in BOOLEAN
    /\ queued \in 0 .. MaxRequests /\ inflight \in 0 .. MaxRequests
    /\ callback \in 0 .. MaxRequests /\ screen \in 0 .. MaxRequests
    /\ flips \in Seq([retired : 0 .. MaxRequests, frame : 0 .. MaxRequests])
    /\ lost \in 0 .. MaxRequests
    /\ todo \in [Threads -> Seq(Tasks)]

NoSemaphore == [handle |-> FALSE, failed |-> FALSE, signalled |-> FALSE]
Semaphore == [NoSemaphore EXCEPT !.handle = TRUE]

(* The window has just created its first render surface; the driver may or *)
(* may not be able to export SYNC_FD semaphores.                           *)
Init ==
    /\ locked = [s \in Slots |-> FALSE]
    /\ owner = [s \in Slots |-> FALSE]
    /\ nrefs = [s \in Slots |-> 0]
    /\ store = [s \in Slots |-> "none"]
    /\ completion = [s \in Slots |-> "none"]
    /\ image = [s \in Slots |-> 0]
    /\ fills = 0
    /\ life = [x \in Surfaces |-> IF x = 1 THEN "live" ELSE "new"]
    /\ srefs = [x \in Surfaces |-> IF x = 1 THEN 1 ELSE 0]
    /\ front = [x \in Surfaces |-> NoSlot]
    /\ \E e \in {Semaphore, NoSemaphore} : sem = [x \in Surfaces |-> e]
    /\ gpu = {}
    /\ current = 1
    /\ composition = <<>>
    /\ building = <<>>
    /\ winlock = {}
    /\ pushes = 0
    /\ refs = [r \in Requests |-> 0]
    /\ layers = [r \in Requests |-> <<>>]
    /\ waiting = FALSE
    /\ queued = 0
    /\ inflight = 0
    /\ callback = 0
    /\ screen = 0
    /\ flips = <<>>
    /\ lost = 0
    /\ todo = [t \in Threads |-> <<>>]

-----------------------------------------------------------------------------
(* The engine's raster thread.                                             *)

(* on_flutter_create_backing_store, same size: window_get_render_surface   *)
(* returns the cached surface, render_surface_fill comes next.             *)
CreateBackingStore ==
    /\ Idle(Raster)
    /\ fills < MaxFills
    /\ todo' = [todo EXCEPT ![Raster] = <<Call("fill")>>]
    /\ UNCHANGED <<slotVars, surfVars, gpuVars, winVars, reqVars, schedVars, kmsVars>>

(* The same with another size: kms_window_get_render_surface_internal      *)
(* makes a new surface and drops the window's reference to the old one.    *)
Resize ==
    /\ Idle(Raster)
    /\ fills < MaxFills
    /\ current + 1 \in Surfaces
    /\ current' = current + 1
    /\ life' = [life EXCEPT ![current + 1] = "live"]
    /\ srefs' = [srefs EXCEPT ![current + 1] = 1]
    /\ todo' = [todo EXCEPT ![Raster] =
                   <<Task("unown", <<current, 0>>), Call("fill")>>]
    /\ UNCHANGED <<slotVars, front, gpuVars, winVars, reqVars, schedVars, kmsVars>>

FreeSlots == {s \in {current} \X Pool : ~locked[s]}

(* vk_gbm_render_surface_fill: a slot whose is_locked could be set, for    *)
(* Flutter, with a reference to the surface; EAGAIN when there is none.    *)
(* The scan takes the lowest slot it finds free, but slots are released    *)
(* while it runs, so any free slot may be the one.                         *)
Fill(t) ==
    /\ At(t, "fill")
    /\ Then(t, <<>>)
    /\ \/ /\ FreeSlots = {}
          /\ UNCHANGED <<slotVars, srefs>>
       \/ \E s \in FreeSlots :
             /\ locked' = [locked EXCEPT ![s] = TRUE]
             /\ completion' = [completion EXCEPT ![s] = "none"]
             /\ owner' = [owner EXCEPT ![s] = TRUE]
             /\ nrefs' = [nrefs EXCEPT ![s] = 1]
             /\ store' = [store EXCEPT ![s] = "empty"]
             /\ srefs' = [srefs EXCEPT ![current] = @ + 1]
             /\ image' = [image EXCEPT ![s] = fills + 1]
             /\ fills' = fills + 1
    /\ UNCHANGED <<life, front, current, gpuVars, winVars, reqVars, schedVars, kmsVars>>

(* The engine submits the rendering of a store.                            *)
Render(s) ==
    /\ Idle(Raster)
    /\ store[s] = "empty"
    /\ store' = [store EXCEPT ![s] = "rendered"]
    /\ gpu' = gpu \cup {s}
    /\ UNCHANGED <<locked, owner, nrefs, completion, image, fills, surfVars,
                   sem, winVars, reqVars, schedVars, kmsVars, todo>>

(* The GPU finishes the rendering of a slot.                               *)
GpuDone(s) ==
    /\ s \in gpu
    /\ gpu' = gpu \ {s}
    /\ UNCHANGED <<slotVars, surfVars, sem, winVars, reqVars, schedVars, kmsVars, todo>>

(* on_flutter_release_backing_store: the destruction callback of a store,  *)
(* presented or not.                                                       *)
ReleaseBackingStore(s) ==
    /\ Idle(Raster)
    /\ store[s] # "none"
    /\ store' = [store EXCEPT ![s] = "none"]
    /\ todo' = [todo EXCEPT ![Raster] = <<Task("unref", s)>>]
    /\ UNCHANGED <<locked, owner, nrefs, completion, image, fills, surfVars,
                   gpuVars, winVars, reqVars, schedVars, kmsVars>>

(* on_flutter_present_layers / compositor_push_fl_layers: for every layer  *)
(* render_surface_queue_present and render_surface_get_present_surface,    *)
(* then the composition is pushed to the window.                           *)
PresentLayers(stores) ==
    /\ Idle(Raster)
    /\ \A i \in DOMAIN stores : store[stores[i]] \in {"rendered", "presented"}
    /\ IsInjective(stores)
    /\ pushes < MaxRequests
    /\ todo' = [todo EXCEPT ![Raster] =
           [i \in DOMAIN stores |-> Task("queue", stores[i])]
           \o <<ReqTask("push", pushes + 1)>>]
    /\ pushes' = pushes + 1
    /\ UNCHANGED <<slotVars, surfVars, gpuVars, composition, building, winlock,
                   reqVars, schedVars, kmsVars>>

(* set_front_fb: pin the new front buffer, then let go of the old one.     *)
SetFrontFb(x, s) ==
    /\ front' = [front EXCEPT ![x] = s]
    /\ nrefs' = IF front[x] = s \/ s = NoSlot THEN nrefs
                ELSE [nrefs EXCEPT ![s] = @ + 1]

(* Mutant: the old front buffer keeps its pin.                             *)
MutUnpinNever(x, s) == <<>>

UnpinOld(x, s) ==
    IF front[x] \in {s, NoSlot} THEN <<>> ELSE <<Task("unpin", front[x])>>

(* vk_gbm_render_surface_queue_present: did_update invalidates the         *)
(* completion that was captured for an earlier content of the store.       *)
QueuePresent(t) ==
    LET s == Head(todo[t]).slot
        x == SurfaceOf(s)
    IN  /\ At(t, "queue")
        /\ completion' = IF store[s] = "rendered"
                         THEN [completion EXCEPT ![s] = "none"] ELSE completion
        /\ store' = [store EXCEPT ![s] = "presented"]
        /\ SetFrontFb(x, s)
        /\ Then(t, UnpinOld(x, s) \o <<Task("snapshot", s)>>)
        /\ UNCHANGED <<locked, owner, image, fills, life, srefs, current,
                       gpuVars, winVars, reqVars, schedVars, kmsVars>>

(* Mutant: the surface is retained, the slot is not.                       *)
MutRefSurfaceOnly(s) ==
    /\ nrefs' = nrefs
    /\ srefs' = [srefs EXCEPT ![SurfaceOf(s)] = @ + 1]

(* Mutant: the slot is retained, its surface is not.                       *)
MutRefSlotOnly(s) ==
    /\ nrefs' = [nrefs EXCEPT ![s] = @ + 1]
    /\ srefs' = srefs

(* locked_fb_ref: every owner but the front pin also retains the surface.  *)
LockedFbRef(s) ==
    /\ nrefs' = [nrefs EXCEPT ![s] = @ + 1]
    /\ srefs' = [srefs EXCEPT ![SurfaceOf(s)] = @ + 1]

(* vk_gbm_render_surface_get_present_surface: a snapshot of this image for *)
(* the composition.  Without memory the composition is given up.           *)
Snapshot(t) ==
    LET s == Head(todo[t]).slot
    IN  /\ At(t, "snapshot")
        /\ \/ /\ LockedFbRef(s)
              /\ building' = Append(building, [slot |-> s, image |-> image[s]])
              /\ Then(t, <<>>)
           \/ /\ building' = <<>>
              /\ todo' = [todo EXCEPT ![t] = Unrefs(building)]
              /\ UNCHANGED <<nrefs, srefs>>
        /\ UNCHANGED <<locked, owner, store, completion, image, fills, life, front,
                       current, gpuVars, composition, winlock, pushes, reqVars,
                       schedVars, kmsVars>>

-----------------------------------------------------------------------------
(* window.c: the composition on display.                                   *)

(* kms_window_push_composition: the new composition replaces the old one,  *)
(* whose snapshots are released with the window lock held.                 *)
PushComposition(t) ==
    /\ At(t, "push")
    /\ winlock = {}
    /\ winlock' = {t}
    /\ composition' = building
    /\ building' = <<>>
    /\ Then(t, Unrefs(composition) \o <<ReqTask("build", Head(todo[t]).req)>>)
    /\ UNCHANGED <<slotVars, surfVars, gpuVars, pushes, reqVars, schedVars, kmsVars>>

(* window_request_repaint: push the current composition again.  WebKit's   *)
(* thread asks for it, and the platform thread for a new cursor.           *)
RequestRepaint(t) ==
    /\ t # Raster /\ Idle(t)
    /\ winlock = {}
    /\ composition # <<>>
    /\ pushes < MaxRequests
    /\ winlock' = {t}
    /\ pushes' = pushes + 1
    /\ todo' = [todo EXCEPT ![t] = <<ReqTask("build", pushes + 1)>>]
    /\ UNCHANGED <<slotVars, surfVars, gpuVars, composition, building, reqVars,
                   schedVars, kmsVars>>

(* The rest of kms_window_push_composition_locked: a request builder       *)
(* (or ENOMEM), every layer presented into it, then the frame submitted.   *)
CreateRequest(t) ==
    LET r == Head(todo[t]).req
    IN  /\ At(t, "build")
        /\ \/ /\ refs' = [refs EXCEPT ![r] = 1]
              /\ Then(t, [i \in DOMAIN composition |-> Present(r, composition[i])]
                         \o <<ReqTask("submit", r), Call("unlock")>>)
           \/ /\ Then(t, <<Call("unlock")>>)
              /\ UNCHANGED refs
        /\ UNCHANGED <<slotVars, surfVars, gpuVars, winVars, layers, schedVars, kmsVars>>

UnlockWindow(t) ==
    /\ At(t, "unlock")
    /\ winlock' = {}
    /\ Then(t, <<>>)
    /\ UNCHANGED <<slotVars, surfVars, gpuVars, composition, building, pushes,
                   reqVars, schedVars, kmsVars>>

-----------------------------------------------------------------------------
(* present_fb: one layer into a request.                                   *)

(* The completion of the slot's rendering.  A captured one is reused.      *)
(* Otherwise a semaphore signal is submitted behind the rendering and      *)
(* exported as a sync-file (-1, "done", when it has signalled already); if *)
(* one of the two calls fails, or there is no semaphore, the code waits    *)
(* for the device, and a semaphore that failed is destroyed after it.      *)
SubmitFails(e) == [e EXCEPT !.failed = TRUE]

ExportFails(e) == [e EXCEPT !.failed = TRUE, !.signalled = TRUE]

CaptureByExport(s, e) ==
    IF e.handle /\ ~e.failed
    THEN {[ok |-> TRUE, sem |-> e, by |-> c, idle |-> FALSE] :
             c \in {"fence"} \cup (IF s \in gpu THEN {} ELSE {"done"})}
    ELSE {}
SemaphoreAtWait(e) ==
    IF e.handle /\ ~e.failed THEN {SubmitFails(e), ExportFails(e)} ELSE {e}
CaptureByWait(e) ==
    UNION {{[ok |-> TRUE, by |-> "done", idle |-> TRUE,
             sem |-> IF w.failed /\ w.handle THEN [NoSemaphore EXCEPT !.failed = TRUE]
                     ELSE w],
            [ok |-> FALSE, by |-> "none", idle |-> FALSE, sem |-> w]} :
           w \in SemaphoreAtWait(e)}
CaptureOutcomes(s) ==
    LET e == sem[SurfaceOf(s)]
    IN  IF completion[s] # "none"
        THEN {[ok |-> TRUE, by |-> completion[s], idle |-> FALSE, sem |-> e]}
        ELSE CaptureByExport(s, e) \cup CaptureByWait(e)

(* Mutant: the second push does not wait for the fence.                    *)
MutPushNoPoll(by) ==
    {p \in [ok : BOOLEAN, fence : BOOLEAN, polled : BOOLEAN] :
        ~p.polled /\ (p.fence => p.ok /\ by = "fence" /\ ~Legacy)}

(* kms_req_builder_push_fb_layer with a duplicate of the fence.  A plane   *)
(* without IN_FENCE_FD, or the legacy interface, makes the code poll the   *)
(* fence and push again without one; the duplication, the poll and the     *)
(* push may fail.                                                          *)
PushOutcomes(by) ==
    {p \in [ok : BOOLEAN, fence : BOOLEAN, polled : BOOLEAN] :
        /\ p.polled => by = "fence"
        /\ p.fence = (p.ok /\ by = "fence" /\ ~p.polled)
        /\ p.fence => ~Legacy}

(* Failing at any layer drops the builder with the layers pushed so far.   *)
PresentFb(t) ==
    LET s == Head(todo[t]).slot
        r == Head(todo[t]).req
    IN  /\ At(t, "present")
        /\ \E c \in CaptureOutcomes(s) : \E p \in PushOutcomes(c.by) :
              /\ sem' = [sem EXCEPT ![SurfaceOf(s)] = c.sem]
              /\ gpu' = IF c.idle THEN {} ELSE IF p.polled THEN gpu \ {s} ELSE gpu
              /\ completion' =
                     [completion EXCEPT ![s] = IF p.polled THEN "done" ELSE c.by]
              /\ IF c.ok /\ p.ok
                 THEN /\ LockedFbRef(s)
                      /\ layers' = [layers EXCEPT ![r] = Append(@,
                             [slot |-> s, image |-> image[s], fence |-> p.fence])]
                      /\ Then(t, <<>>)
                 ELSE /\ todo' = [todo EXCEPT ![t] =
                             <<ReqTask("requnref", r), Call("unlock")>>]
                      /\ UNCHANGED <<nrefs, srefs, layers>>
        /\ UNCHANGED <<locked, owner, store, image, fills, life, front, current,
                       winVars, refs, schedVars, kmsVars>>

-----------------------------------------------------------------------------
(* The frame scheduler and the KMS requests.                               *)

(* frame_scheduler_present_frame: behind a commit in flight the frame goes *)
(* to the mailbox and the one it displaces is cancelled (on_cancel_frame); *)
(* otherwise it is committed.  No memory for the frame: the request goes.  *)
SubmitFrame(t) ==
    LET r == Head(todo[t]).req
    IN  /\ At(t, "submit")
        /\ \/ /\ waiting
              /\ queued' = r
              /\ Then(t, IF queued = 0 THEN <<>> ELSE <<ReqTask("requnref", queued)>>)
              /\ UNCHANGED waiting
           \/ /\ ~waiting
              /\ waiting' = TRUE
              /\ Then(t, <<ReqTask("commit", r)>>)
              /\ UNCHANGED queued
           \/ /\ Then(t, <<ReqTask("requnref", r)>>)
              /\ UNCHANGED schedVars
        /\ UNCHANGED <<slotVars, surfVars, gpuVars, winVars, reqVars, kmsVars>>

(* drmdev_on_page_flip_locked: r is on screen now; the request it replaces *)
(* and the scanout callback are recorded, to be dispatched without lock.   *)
RecordFlip(r, frame) ==
    /\ flips' = Append(flips, [retired |-> screen, frame |-> frame])
    /\ screen' = r
    /\ callback' = 0

(* on_present_frame / kms_req_commit_nonblocking.  The page-flip event     *)
(* takes a reference to the request.  drmModeSetCrtc (legacy) has flipped  *)
(* when it returns, and the commit asks for the time of the last vblank;   *)
(* when that fails it gives the frame's reference back and yet returns 0,  *)
(* for the error is in a second variable named ok: the scanout callback    *)
(* stays set, for a flip that nobody will record, and `waiting` with it.   *)
(* Otherwise the thread dispatches whatever flips are recorded.            *)
CommitFrame(t) ==
    LET r == Head(todo[t]).req
    IN  /\ At(t, "commit")
        /\ \/ /\ inflight = 0                                  \* accepted
              /\ refs' = [refs EXCEPT ![r] = @ + 1]
              /\ inflight' = r
              /\ callback' = r
              /\ Then(t, <<Call("dispatch")>>)
              /\ UNCHANGED <<screen, flips, lost>>
           \/ /\ Legacy                                        \* drmModeSetCrtc
              /\ refs' = [refs EXCEPT ![r] = @ + 1]
              /\ RecordFlip(r, r)
              /\ Then(t, <<Call("dispatch")>>)
              /\ UNCHANGED <<inflight, lost>>
           \/ /\ Legacy                                        \* no vblank time
              /\ lost' = r
              /\ Then(t, <<ReqTask("requnref", r)>>)
              /\ UNCHANGED <<refs, inflight, callback, screen, flips>>
           \/ /\ Then(t, <<ReqTask("requnref", r), Call("failed")>>)  \* refused
              /\ UNCHANGED <<refs, kmsVars>>
        /\ UNCHANGED <<slotVars, surfVars, gpuVars, winVars, layers, schedVars>>

(* Mutant: the pipeline is not reset.                                      *)
MutPresentFailedStays(t) ==
    /\ At(t, "failed")
    /\ Then(t, <<>>)
    /\ UNCHANGED <<slotVars, surfVars, gpuVars, winVars, reqVars, schedVars, kmsVars>>

(* frame_scheduler_on_present_failed *)
OnPresentFailed(t) ==
    /\ At(t, "failed")
    /\ waiting' = FALSE
    /\ queued' = 0
    /\ Then(t, IF queued = 0 THEN <<>> ELSE <<ReqTask("requnref", queued)>>)
    /\ UNCHANGED <<slotVars, surfVars, gpuVars, winVars, reqVars, kmsVars>>

(* drmdev_on_event_fd_ready: the kernel has flipped, which it does only    *)
(* when the request's fences have signalled.                               *)
OnEventFdReady ==
    /\ Idle(EventLoop)
    /\ inflight # 0
    /\ \A i \in DOMAIN layers[inflight] :
           layers[inflight][i].fence => layers[inflight][i].slot \notin gpu
    /\ inflight' = 0
    /\ RecordFlip(inflight, callback)
    /\ UNCHANGED lost
    /\ todo' = [todo EXCEPT ![EventLoop] = <<Call("dispatch")>>]
    /\ UNCHANGED <<slotVars, surfVars, gpuVars, winVars, reqVars, schedVars>>

(* drmdev_dispatch_page_flips: the retired request is released first, then *)
(* the scanout callback runs; until no flip is left.                       *)
DispatchPageFlips(t) ==
    /\ At(t, "dispatch")
    /\ \/ /\ flips = <<>>
          /\ Then(t, <<>>)
          /\ UNCHANGED flips
       \/ /\ flips # <<>>
          /\ flips' = Tail(flips)
          /\ LET f == Head(flips)
             IN Then(t, (IF f.retired = 0 THEN <<>> ELSE <<ReqTask("requnref", f.retired)>>)
                        \o (IF f.frame = 0 THEN <<>> ELSE <<ReqTask("scanout", f.frame)>>)
                        \o <<Call("dispatch")>>)
    /\ UNCHANGED <<slotVars, surfVars, gpuVars, winVars, reqVars, schedVars,
                   inflight, callback, screen, lost>>

(* on_scanout / frame_scheduler_on_scanout: commit the queued frame if     *)
(* there is one, then destroy the frame that was scanned out.              *)
OnScanout(t) ==
    LET r == Head(todo[t]).req
    IN  /\ At(t, "scanout")
        /\ waiting' = (waiting /\ queued # 0)
        /\ queued' = IF waiting THEN 0 ELSE queued
        /\ Then(t, (IF waiting /\ queued # 0 THEN <<ReqTask("commit", queued)>> ELSE <<>>)
                   \o <<ReqTask("requnref", r)>>)
        /\ UNCHANGED <<slotVars, surfVars, gpuVars, winVars, reqVars, kmsVars>>

(* kms_req_unref, kms_req_builder_destroy: on_release_layer of each layer. *)
ReqUnref(t) ==
    LET r == Head(todo[t]).req
    IN  /\ At(t, "requnref")
        /\ refs' = [refs EXCEPT ![r] = @ - 1]
        /\ IF refs[r] = 1
           THEN /\ layers' = [layers EXCEPT ![r] = <<>>]
                /\ Then(t, Unrefs(layers[r]))
           ELSE Then(t, <<>>) /\ UNCHANGED layers
        /\ UNCHANGED <<slotVars, surfVars, gpuVars, winVars, schedVars, kmsVars>>

-----------------------------------------------------------------------------
(* Releasing a slot.                                                       *)

(* Mutant: the slot is returned to the pool before it is cleaned.          *)
MutDestroyClearsFirst(s) == <<Task("clear", s), Task("reset", s)>>

Destroy(s) == <<Task("reset", s), Task("clear", s)>>

(* locked_fb_unref: read the owner, decrement, destroy at zero, and only   *)
(* then let go of the surface.                                             *)
LockedFbUnref(t) ==
    LET s == Head(todo[t]).slot
    IN  /\ At(t, "unref")
        /\ nrefs' = [nrefs EXCEPT ![s] = @ - 1]
        /\ Then(t, (IF nrefs[s] = 1 THEN Destroy(s) ELSE <<>>)
                   \o <<Task("unown", <<SurfaceOf(s), 0>>)>>)
        /\ UNCHANGED <<locked, owner, store, completion, image, fills, surfVars,
                       gpuVars, winVars, reqVars, schedVars, kmsVars>>

(* The old front buffer in set_front_fb: the pin has no surface reference. *)
UnpinFront(t) ==
    LET s == Head(todo[t]).slot
    IN  /\ At(t, "unpin")
        /\ nrefs' = [nrefs EXCEPT ![s] = @ - 1]
        /\ Then(t, IF nrefs[s] = 1 THEN Destroy(s) ELSE <<>>)
        /\ UNCHANGED <<locked, owner, store, completion, image, fills, surfVars,
                       gpuVars, winVars, reqVars, schedVars, kmsVars>>

(* locked_fb_destroy: first clean the slot ...                             *)
ResetSlot(t) ==
    LET s == Head(todo[t]).slot
    IN  /\ At(t, "reset")
        /\ completion' = [completion EXCEPT ![s] = "none"]
        /\ owner' = [owner EXCEPT ![s] = FALSE]
        /\ Then(t, <<>>)
        /\ UNCHANGED <<locked, nrefs, store, image, fills, surfVars, gpuVars,
                       winVars, reqVars, schedVars, kmsVars>>

(* ... then atomic_flag_clear gives it back to the pool.                   *)
ClearSlot(t) ==
    LET s == Head(todo[t]).slot
    IN  /\ At(t, "clear")
        /\ locked' = [locked EXCEPT ![s] = FALSE]
        /\ Then(t, <<>>)
        /\ UNCHANGED <<owner, nrefs, store, completion, image, fills, surfVars,
                       gpuVars, winVars, reqVars, schedVars, kmsVars>>

(* surface_unref; the last one runs vk_gbm_render_surface_deinit, which    *)
(* first unpins the front buffer.                                          *)
SurfaceUnref(t) ==
    LET x == SurfaceOf(Head(todo[t]).slot)
    IN  /\ At(t, "unown")
        /\ srefs' = [srefs EXCEPT ![x] = @ - 1]
        /\ IF srefs[x] = 1
           THEN /\ SetFrontFb(x, NoSlot)
                /\ Then(t, UnpinOld(x, NoSlot) \o <<Task("deinit", <<x, 0>>)>>)
           ELSE Then(t, <<>>) /\ UNCHANGED <<front, nrefs>>
        /\ UNCHANGED <<locked, owner, store, completion, image, fills, life, current,
                       gpuVars, winVars, reqVars, schedVars, kmsVars>>

(* The rest of the deinit: wait for the device (which may fail; the images *)
(* are then never freed), destroy semaphore and images, free the surface.  *)
SurfaceDeinit(t) ==
    LET x == SurfaceOf(Head(todo[t]).slot)
    IN  /\ At(t, "deinit")
        /\ life' = [life EXCEPT ![x] = "freed"]
        /\ \/ /\ gpu' = {}
              /\ sem' = [sem EXCEPT ![x] = NoSemaphore]
           \/ UNCHANGED gpuVars
        /\ Then(t, <<>>)
        /\ UNCHANGED <<slotVars, srefs, front, current, winVars, reqVars, schedVars,
                       kmsVars>>

-----------------------------------------------------------------------------
Step(t) ==
    \/ Fill(t) \/ QueuePresent(t) \/ Snapshot(t) \/ PushComposition(t)
    \/ CreateRequest(t) \/ UnlockWindow(t) \/ PresentFb(t) \/ SubmitFrame(t)
    \/ CommitFrame(t) \/ OnPresentFailed(t) \/ DispatchPageFlips(t)
    \/ OnScanout(t) \/ ReqUnref(t) \/ LockedFbUnref(t) \/ UnpinFront(t)
    \/ ResetSlot(t) \/ ClearSlot(t) \/ SurfaceUnref(t) \/ SurfaceDeinit(t)

Engine ==
    \/ CreateBackingStore \/ Resize
    \/ \E s \in Slots : Render(s) \/ ReleaseBackingStore(s)
    \/ \E n \in 1 .. MaxLayers : \E stores \in [1 .. n -> Slots] : PresentLayers(stores)

Next ==
    \/ Engine
    \/ \E t \in Threads : Step(t) \/ RequestRepaint(t)
    \/ OnEventFdReady
    \/ \E s \in Slots : GpuDone(s)

Spec == Init /\ [][Next]_vars

(* Fairness: a thread that is not blocked keeps running, the GPU finishes  *)
(* what was submitted, and the kernel delivers the flip of a commit it     *)
(* accepted although the event loop is busy again and again.               *)
FairSpec ==
    /\ Spec
    /\ \A t \in Threads : SF_vars(Step(t))
    /\ \A s \in Slots : WF_vars(GpuDone(s))
    /\ SF_vars(OnEventFdReady)

-----------------------------------------------------------------------------
(* Owners.  A task is named by its distance from the bottom of the stack,  *)
(* which stays the same while other tasks come and go above it.            *)

TasksOn(ops, s) ==
    UNION {{<<"task", t, Len(todo[t]) - i>> :
               i \in {j \in DOMAIN todo[t] : todo[t][j].op \in ops /\ todo[t][j].slot = s}} :
           t \in Threads}
TasksOnReq(ops, r) ==
    UNION {{<<"task", t, Len(todo[t]) - i>> :
               i \in {j \in DOMAIN todo[t] : todo[t][j].op \in ops /\ todo[t][j].req = r}} :
           t \in Threads}
LayersOn(name, n, seq, s) == {<<name, n, i>> : i \in {j \in DOMAIN seq : seq[j].slot = s}}
When(p, name) == IF p THEN {<<name, 0, 0>>} ELSE {}

(* Owners of a slot that also retain its surface: Flutter, the snapshots   *)
(* of a composition, the layers of a request, a release under way.         *)
Owners(s) ==
    When(store[s] # "none", "flutter")
    \cup LayersOn("composition", 0, composition, s)
    \cup LayersOn("building", 0, building, s)
    \cup (UNION {LayersOn("request", r, layers[r], s) : r \in Requests})
    \cup TasksOn({"unref"}, s)

(* The front buffer's pin, which does not.                                 *)
Pins(s) == When(front[SurfaceOf(s)] = s, "front") \cup TasksOn({"unpin"}, s)

SurfaceOwners(x) ==
    When(current = x, "window") \cup TasksOn({"unown"}, <<x, 0>>)
    \cup UNION {{<<"slot", s, o>> : o \in Owners(s)} : s \in {x} \X Pool}

RequestOwners(r) ==
    TasksOnReq({"submit", "commit", "scanout", "requnref"}, r)
    \cup When(queued = r, "mailbox") \cup When(inflight = r, "event")
    \cup When(callback = r, "callback") \cup When(screen = r, "last_flipped")
    \cup {<<"retired", 0, i>> : i \in {j \in DOMAIN flips : flips[j].retired = r}}
    \cup {<<"flipped", 0, i>> : i \in {j \in DOMAIN flips : flips[j].frame = r}}

-----------------------------------------------------------------------------
(* Properties.                                                             *)

(* The reference count of every slot is the number of its owners, whatever *)
(* thread is in the middle of releasing it: no slot leaks out of the pool  *)
(* and none is released twice (locked_fb_ref, locked_fb_unref,             *)
(* set_front_fb, and every path that gives up a composition or request).   *)
RefsMatchOwners ==
    \A s \in Slots : nrefs[s] = Cardinality(Owners(s) \cup Pins(s))

(* A slot that a composition or a KMS request refers to is never handed    *)
(* out again: it still holds the image that was presented, also when the   *)
(* same composition is repainted later or its request waits in the         *)
(* mailbox (vk_gbm_render_surface_fill against concurrent releases).       *)
ImagesStable ==
    \A seq \in {composition, building} \cup {layers[r] : r \in Requests} :
        \A i \in DOMAIN seq :
            locked[seq[i].slot] /\ image[seq[i].slot] = seq[i].image

(* What the display shows has been rendered: the flip waited for a fence,  *)
(* or present_fb waited for the rendering before it pushed the layer       *)
(* without one.  And present_fb never submits a signal of a semaphore      *)
(* whose last signal was not consumed by an export.  `screen` is the       *)
(* driver's last_flipped: after a lost flip the display shows a request    *)
(* that the driver has already released, and nothing is said of it.        *)
ScanoutAfterRender ==
    /\ screen # 0 => \A i \in DOMAIN layers[screen] : layers[screen][i].slot \notin gpu
    /\ \A x \in Surfaces : sem[x].handle /\ ~sem[x].failed => ~sem[x].signalled

(* A slot back in the pool carries nothing over to its next user, and      *)
(* a slot in use has its surface pointer: the clean-up of locked_fb_destroy *)
(* never lands on a slot that fill has already taken again.                *)
CleanWhenFree ==
    \A s \in Slots :
        /\ ~locked[s] => nrefs[s] = 0 /\ ~owner[s] /\ completion[s] = "none"
        /\ nrefs[s] > 0 => locked[s] /\ owner[s]

(* The same count for surfaces: the window and the owners of their slots,  *)
(* but not the front buffer's pin.                                         *)
SurfaceRefsMatchOwners ==
    \A x \in Surfaces : srefs[x] = Cardinality(SurfaceOwners(x))

(* A render surface replaced after a resize lives until the last of its    *)
(* buffers has left Flutter, the composition, the mailbox and the screen.  *)
SurfaceOutlivesOwners ==
    \A s \in Slots :
        locked[s] \/ Owners(s) # {} => life[SurfaceOf(s)] = "live"

(* Every KMS request is counted by its frame, the page-flip event and      *)
(* last_flipped, through refused, displaced and nested commits; only a     *)
(* request that is counted has layers.                                     *)
RequestRefsMatchOwners ==
    \A r \in Requests :
        /\ \A t \in Threads : \A i \in DOMAIN todo[t] :
               todo[t][i].op = "present" /\ todo[t][i].req = r => refs[r] = 1
        /\ (\A t \in Threads : \A i \in DOMAIN todo[t] :
               ~(todo[t][i].op = "present" /\ todo[t][i].req = r))
           => refs[r] = Cardinality(RequestOwners(r))
        /\ layers[r] # <<>> => refs[r] > 0

(* Slots, surfaces and requests together: no count is ever wrong.          *)
CountsMatchOwners == RefsMatchOwners /\ SurfaceRefsMatchOwners /\ RequestRefsMatchOwners

(* A slot whose last reference is gone returns to the pool.                *)
DroppedSlotFreed ==
    \A s \in Slots : (locked[s] /\ nrefs[s] = 0) ~> ~locked[s]

(* Every request comes to be what the display shows, or is released: none  *)
(* stays with a thread for ever, holding buffers, and none in the mailbox, *)
(* unless it waits there behind a commit whose flip is lost.               *)
EveryRequestSettles ==
    \A r \in Requests :
        refs[r] > 0 ~> \/ refs[r] = 0 \/ screen = r
                       \/ lost # 0 /\ queued = r

(* Buffers and requests come back, but for the one behind a lost flip.     *)
EverythingReleased == DroppedSlotFreed /\ EveryRequestSettles

=============================================================================
