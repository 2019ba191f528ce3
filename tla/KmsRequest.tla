----------------------------- MODULE KmsRequest -----------------------------
(***************************************************************************)
(* From a Flutter composition to what the display controller shows: the    *)
(* request builder of src/modesetting.c (which plane, which zpos, which    *)
(* properties for every layer), the commit (mode blob, planes to disable,  *)
(* atomic and legacy interface, committed_state), the flip that follows,   *)
(* and window.c's part in it: kms_window_push_composition_locked and the   *)
(* cursor.                                                                 *)
(*                                                                         *)
(* A request is built with the window lock held and may be committed much  *)
(* later, from the mailbox of the frame scheduler; what it has to disable  *)
(* is found out at the commit, from committed_state, the program's idea of *)
(* what the kernel shows.  Another DRM master may change the display while *)
(* this process is not the master; `foreign` is a history of what it       *)
(* touched.                                                                *)
(*                                                                         *)
(* Requests are values here: their reference counts, and the buffers of    *)
(* Flutter's layers, are the subject of ScanoutBuffers.  A `format` stands *)
(* for a pixel format with its modifier.  Planes are numbered in the order *)
(* of their ids, as the kernel lists them.                                 *)
(***************************************************************************)
EXTENDS Naturals, Sequences, FiniteSets, FiniteSetsExt

CONSTANTS
    Threads, EventLoop, Raster,
    Devices,        \* possible display controllers
    Compositions,   \* possible layers of a Flutter frame, bottom first
    MaxPushes,      \* bound on the requests built, for frames and cursors
    MaxCursors      \* bound on the cursor buffers that exist at a time

ASSUME ThreadsAssumption == EventLoop \in Threads /\ Raster \in Threads
ASSUME BoundAssumption == MaxPushes \in Nat /\ MaxCursors \in Nat

(* fetch_plane and fetch_planes assert the ranges, and that a zpos which   *)
(* cannot be set has one value.  Object id 0 is no plane.                  *)
ASSUME DevicesAssumption ==
    \A d \in Devices :
        /\ d.atomic \in BOOLEAN /\ d.zpos \in BOOLEAN
        /\ DOMAIN d.planes \subseteq Nat \ {0} /\ DOMAIN d.planes # {}
        /\ IsFiniteSet(DOMAIN d.planes)
        /\ \A p \in DOMAIN d.planes :
              LET plane == d.planes[p]
              IN  /\ plane.zmin \in Nat /\ plane.zmax \in Nat /\ plane.zmin <= plane.zmax
                  /\ plane.fixed \in BOOLEAN
                  /\ plane.fixed => plane.zmin = plane.zmax

VARIABLES
    dev,                \* the controller: atomic, zpos, planes
    master,             \* is_drm_master
    kernel, kmode,      \* what the kernel shows: every plane, the mode
    committed,          \* committed_state of every plane
    cmode, cblob,       \* committed_state of the CRTC
    blobs,              \* mode blobs that exist in the kernel
    composition,        \* window->composition
    winlock,            \* holder of the window lock
    builder,            \* the request that the holder is filling
    pushes,             \* history: requests built so far
    waiting, queued,    \* frame_scheduler
    inflight, screen,   \* committed and not flipped, last_flipped
    cursor, crefs,      \* window->kms.cursor; n_refs of all cursor buffers
    lock, editing,      \* drmdev lock; threads that are changing drmdev->fbs
    todo,               \* what each thread still has to do, innermost first
    shown, foreign,     \* history: last request accepted, planes (0: the
                        \* mode) another master has changed since
    lost                \* history: the vblank query after a mode set failed

kernelVars == <<dev, master, kernel, kmode, foreign>>
stateVars == <<committed, cmode, cblob, blobs>>
winVars == <<composition, winlock, builder, pushes>>
flowVars == <<waiting, queued, inflight, screen, shown, lost>>
cursorVars == <<cursor, crefs>>
fbVars == <<lock, editing>>
vars == <<kernelVars, stateVars, winVars, flowVars, cursorVars, fbVars, todo>>

Planes == DOMAIN dev.planes
Cursors == 1 .. MaxCursors
Formats == {"opaque", "alpha", "video"}
Blends == {"none", "premultiplied"}
Modes == {"ours", "other"}     \* the window's; any other, or none

(* Framebuffers: none, another master's, Flutter's (from 2 on), cursors.   *)
Off == 0
ForeignFb == 1
CursorFb(c) == 100 + c

(* on_flutter_present_layers: there is a layer.  Only the window's cursor  *)
(* prefers a cursor plane.                                                 *)
FlutterLayers ==
    [fb : 2 .. 100, format : Formats, rotation : BOOLEAN, enforce : BOOLEAN,
     fence : BOOLEAN, fresh : BOOLEAN, prefer_cursor : {FALSE}, cursor : {0}]
ASSUME CompositionsAssumption ==
    \A c \in Compositions : c # <<>> /\ c \in Seq(FlutterLayers)

NoReq == [some |-> FALSE]
Task(op, r) == [op |-> op, req |-> r, cursor |-> 0]
Call(op) == Task(op, NoReq)
Drop(c) == [op |-> "rmfb", req |-> NoReq, cursor |-> c]
Ops == {"addfb", "layer", "cursor", "submit", "unlock", "commit", "failed",
        "release", "scanout", "rmfb", "unlist"}

At(t, op) == todo[t] # <<>> /\ Head(todo[t]).op = op
Then(t, tasks) == todo' = [todo EXCEPT ![t] = tasks \o Tail(@)]
Idle(t) == todo[t] = <<>>

IsReq(r) ==
    r.some =>
        /\ r.available \subseteq Planes
        /\ r.next_zpos \in Nat
        /\ \A i \in DOMAIN r.layers :
               r.layers[i].plane \in Planes /\ r.layers[i].format \in Formats
        /\ \A i \in DOMAIN r.props : r.props[i].plane \in Planes

TypeOK ==
    /\ dev \in Devices /\ master \in BOOLEAN
    /\ kernel \in [Planes -> [fb : Nat, format : Formats, zpos : Nat, blend : Blends]]
    /\ kmode \in Modes /\ cmode \in Modes
    /\ committed \in [Planes -> [fb : Nat, format : Formats \cup {"unknown"}]]
    /\ cblob \in Nat /\ blobs \subseteq Nat
    /\ composition \in Compositions \cup {<<>>} /\ pushes \in 0 .. MaxPushes
    /\ winlock \subseteq Threads /\ lock \subseteq Threads /\ editing \subseteq Threads
    /\ \A r \in {builder, queued, inflight, screen, shown} : IsReq(r)
    /\ waiting \in BOOLEAN /\ lost \in BOOLEAN
    /\ cursor \in 0 .. MaxCursors /\ crefs \in [Cursors -> Nat]
    /\ \A t \in Threads : \A i \in DOMAIN todo[t] :
           todo[t][i].op \in Ops /\ IsReq(todo[t][i].req)
    /\ foreign \subseteq Planes \cup {0}

(* drmdev_new has read what the last program left on the display.  The     *)
(* format of a foreign framebuffer may be unknown (drmModeGetFB2).         *)
Init ==
    /\ dev \in Devices
    /\ master = TRUE
    /\ \E on \in {{}, {1, Max(DOMAIN dev.planes)}} :
       \E f \in {"opaque", "unknown"} :
          /\ kernel = [p \in Planes |->
                 [fb |-> IF p \in on THEN ForeignFb ELSE Off, format |-> "opaque",
                  zpos |-> dev.planes[p].zmin, blend |-> "none"]]
          /\ committed = [p \in Planes |->
                 [fb |-> kernel[p].fb, format |-> IF p \in on THEN f ELSE "unknown"]]
    /\ kmode \in Modes
    /\ cmode = kmode
    /\ cblob = 0
    /\ blobs = {}
    /\ composition = <<>>
    /\ winlock = {}
    /\ builder = NoReq
    /\ pushes = 0
    /\ waiting = FALSE
    /\ queued = NoReq /\ inflight = NoReq /\ screen = NoReq /\ shown = NoReq
    /\ cursor = 0
    /\ crefs = [c \in Cursors |-> 0]
    /\ lock = {}
    /\ editing = {}
    /\ todo = [t \in Threads |-> <<>>]
    /\ foreign = {}
    /\ lost = FALSE

-----------------------------------------------------------------------------
(* The request builder.                                                    *)

(* drmdev_create_request_builder: every plane of the CRTC is available;    *)
(* set_connector and set_mode follow for every request.                    *)
NewBuilder ==
    [some |-> TRUE, available |-> Planes, layers |-> <<>>, props |-> <<>>,
     next_zpos |-> IF dev.zpos THEN Min({dev.planes[p].zmin : p \in Planes}) ELSE 0]

(* plane_qualifies, for the available planes.  A zpos limit or an id limit *)
(* of 0 is no limit.                                                       *)
Qualifying(b, type, format, rotation, zlow, idlow) ==
    {p \in b.available :
        LET plane == dev.planes[p]
        IN  /\ plane.type = type
            /\ format \in plane.formats
            /\ zlow.limit => dev.zpos /\ zlow.zpos <= plane.zmax
            /\ rotation => plane.rotates
            /\ p >= idlow}

NoLimit == [limit |-> FALSE, zpos |-> 0]
AtLeast(z) == [limit |-> TRUE, zpos |-> z]
Opaque(format) == IF format = "alpha" THEN "opaque" ELSE format

(* allocate_plane, called again and again with weaker demands: the first   *)
(* plane that meets the first demand which any plane meets; 0 if none.     *)
FirstFit(demands) ==
    LET met == {i \in DOMAIN demands : demands[i] # {}}
    IN  IF met = {} THEN 0 ELSE Min(demands[Min(met)])

DemandsCursor(b, l, rotation) ==
    <<Qualifying(b, "cursor", l.format, rotation, NoLimit, 0)>>
DemandsBottom(b, l, rotation) ==
    <<Qualifying(b, "primary", l.format, rotation, NoLimit, 0),
      Qualifying(b, "primary", Opaque(l.format), rotation, NoLimit, 0)>>
DemandsAbove(b, l, rotation) ==
    <<Qualifying(b, "overlay", l.format, rotation, AtLeast(b.next_zpos), 0),
      Qualifying(b, "overlay", l.format, rotation, NoLimit,
                 b.layers[Len(b.layers)].plane + 1)>>

(* The plane for a layer: a cursor plane if it prefers one, the primary    *)
(* plane at the bottom, an overlay above; each first with the rotation and *)
(* then, unless it is enforced, without.                                   *)
ChoosePlane(b, l) ==
    LET Both(Demands(_, _, _)) ==
            Demands(b, l, l.rotation)
            \o (IF l.rotation /\ ~l.enforce THEN Demands(b, l, FALSE) ELSE <<>>)
    IN  FirstFit((IF l.prefer_cursor THEN Both(DemandsCursor) ELSE <<>>)
                 \o (IF b.layers = <<>> THEN Both(DemandsBottom) ELSE Both(DemandsAbove)))

(* The smallest zpos above the last layer that is not below the plane's    *)
(* range; nothing compares it with the upper end.                          *)
ZposFor(b, p) == Max({b.next_zpos, dev.planes[p].zmin})

(* Mutant: only the bottom layer sets the blend mode.                      *)
MutBlendFor(b) == IF b.layers = <<>> THEN "none" ELSE "keep"

BlendFor(b) == IF b.layers = <<>> THEN "none" ELSE "premultiplied"

PropsFor(b, l, p) ==
    [plane |-> p, fb |-> l.fb, format |-> l.format,
     zpos |-> ZposFor(b, p), blend |-> BlendFor(b)]

(* The plane is taken and (atomic) the layer's properties are added to the *)
(* request.                                                                *)
AddProperties(b, l, p) ==
    [b EXCEPT !.available = @ \ {p},
              !.props = IF dev.atomic THEN Append(@, PropsFor(b, l, p)) ELSE @]

(* Mutant: the properties of a failed layer stay in the request.           *)
MutRollBack(b, n, p) == [b EXCEPT !.available = @ \cup {p}]

(* drmModeAtomicSetCursor to where the layer began, release_plane.         *)
RollBack(b, n, p) ==
    [b EXCEPT !.available = @ \cup {p}, !.props = SubSeq(@, 1, n)]

PushedLayer(b, l, p) ==
    [AddProperties(b, l, p) EXCEPT
        !.layers = Append(@, [plane |-> p, fb |-> l.fb, format |-> l.format,
                              cursor |-> l.cursor]),
        !.next_zpos = IF dev.zpos THEN ZposFor(b, p) + 1 ELSE @]

(* kms_req_builder_push_fb_layer: what becomes of the builder, with the    *)
(* answer.  An in-fence needs the atomic interface and a plane that takes  *)
(* one (EOPNOTSUPP: the caller may try `again`); adding any of the         *)
(* properties may fail.                                                    *)
PushFbLayer(b, l) ==
    LET p == ChoosePlane(b, l)
        Failed(partly) == RollBack(partly, Len(b.props), p)
    IN  IF l.fence /\ ~dev.atomic THEN {[ok |-> FALSE, again |-> TRUE, b |-> b]}
        ELSE IF p = 0 THEN {[ok |-> FALSE, again |-> FALSE, b |-> b]}
        ELSE IF l.fence /\ ~dev.planes[p].fences
        THEN {[ok |-> FALSE, again |-> TRUE,
               b |-> Failed([b EXCEPT !.available = @ \ {p}])]}
        ELSE {[ok |-> TRUE, again |-> FALSE, b |-> PushedLayer(b, l, p)]}
             \cup (IF dev.atomic
                   THEN {[ok |-> FALSE, again |-> FALSE, b |-> Failed(AddProperties(b, l, p))]}
                   ELSE {})

-----------------------------------------------------------------------------
(* window.c                                                                *)

(* The layers of c into a new request, then the cursor.  The buffer of a   *)
(* bottom layer that is `fresh` has no DRM framebuffer when it is first    *)
(* presented.                                                              *)
BuildTasks(c, new) ==
    (IF new /\ c[1].fresh THEN <<Call("addfb"), Call("unlist")>> ELSE <<>>)
    \o [i \in DOMAIN c |-> Call("layer")] \o <<Call("cursor"), Call("submit")>>

(* kms_window_push_composition: the window keeps the composition, also     *)
(* when there is no memory for a builder.                                  *)
PushComposition(c) ==
    /\ Idle(Raster)
    /\ winlock = {}
    /\ pushes < MaxPushes
    /\ pushes' = pushes + 1
    /\ composition' = c
    /\ \/ /\ winlock' = {Raster}
          /\ builder' = NewBuilder
          /\ todo' = [todo EXCEPT ![Raster] = BuildTasks(c, TRUE) \o <<Call("unlock")>>]
       \/ UNCHANGED <<winlock, builder, todo>>
    /\ UNCHANGED <<kernelVars, stateVars, flowVars, cursorVars, fbVars>>

(* surface_present_kms for the next layer.  A producer whose fence is not  *)
(* taken waits for the rendering and pushes again without it.  A layer     *)
(* that cannot be shown drops the request.                                 *)
PresentLayer(t) ==
    LET l == composition[Len(builder.layers) + 1]
        first == PushFbLayer(builder, l)
        all == UNION {IF o.again THEN PushFbLayer(o.b, [l EXCEPT !.fence = FALSE])
                      ELSE {o} : o \in first}
    IN  /\ At(t, "layer")
        /\ \E o \in all :
              IF o.ok
              THEN builder' = o.b /\ Then(t, <<>>)
              ELSE /\ builder' = NoReq
                   /\ todo' = [todo EXCEPT ![t] = <<Task("release", o.b), Call("unlock")>>]
        /\ UNCHANGED <<kernelVars, stateVars, composition, winlock, pushes, flowVars,
                       cursorVars, fbVars>>

CursorLayer(c) ==
    [fb |-> CursorFb(c), format |-> "alpha", rotation |-> TRUE, enforce |-> FALSE,
     fence |-> FALSE, prefer_cursor |-> TRUE, cursor |-> c]

(* cursor_buffer_ref *)
RefCursor(c) == crefs' = [crefs EXCEPT ![c] = @ + 1]

(* The cursor on top.  Without a plane for it the frame is shown without.  *)
PresentCursor(t) ==
    /\ At(t, "cursor")
    /\ Then(t, <<>>)
    /\ IF cursor = 0
       THEN UNCHANGED <<builder, crefs>>
       ELSE \E o \in PushFbLayer(builder, CursorLayer(cursor)) :
               /\ builder' = o.b
               /\ IF o.ok THEN RefCursor(cursor) ELSE UNCHANGED crefs
    /\ UNCHANGED <<kernelVars, stateVars, composition, winlock, pushes, flowVars, cursor, fbVars>>

(* kms_req_builder_build and frame_scheduler_present_frame, or no memory   *)
(* for the frame.                                                          *)
SubmitFrame(t) ==
    /\ At(t, "submit")
    /\ builder' = NoReq
    /\ \/ /\ waiting
          /\ queued' = builder
          /\ Then(t, IF queued.some THEN <<Task("release", queued)>> ELSE <<>>)
          /\ UNCHANGED waiting
       \/ /\ ~waiting
          /\ waiting' = TRUE
          /\ Then(t, <<Task("commit", builder)>>)
          /\ UNCHANGED queued
       \/ /\ Then(t, <<Task("release", builder)>>)
          /\ UNCHANGED <<waiting, queued>>
    /\ UNCHANGED <<kernelVars, stateVars, composition, winlock, pushes, inflight, screen,
                   shown, lost, cursorVars, fbVars>>

UnlockWindow(t) ==
    /\ At(t, "unlock")
    /\ winlock' = {}
    /\ Then(t, <<>>)
    /\ UNCHANGED <<kernelVars, stateVars, composition, builder, pushes, flowVars,
                   cursorVars, fbVars>>

(* The window lets go of its cursor buffer.                                *)
UnrefOld == IF cursor # 0 /\ crefs[cursor] = 1 THEN <<Drop(cursor), Call("unlist")>> ELSE <<>>

(* Cursor buffers that do not exist.                                       *)
FreeCursors ==
    {c \in Cursors : crefs[c] = 0 /\ \A t \in Threads : \A i \in DOMAIN todo[t] :
                                         todo[t][i].cursor # c}

(* kms_window_set_cursor_locked with another icon: a new buffer replaces   *)
(* the old one and the composition is pushed again.  (Moving the cursor    *)
(* changes nothing but a position, which is not modelled.)                 *)
SetCursorIcon(c) ==
    /\ Idle(EventLoop)
    /\ winlock = {}
    /\ c \in FreeCursors /\ c = Min(FreeCursors)
    /\ pushes < MaxPushes
    /\ pushes' = pushes + 1
    /\ winlock' = {EventLoop}
    /\ cursor' = c
    /\ crefs' = [d \in Cursors |->
                    IF d = c THEN 1 ELSE IF d = cursor THEN crefs[d] - 1 ELSE crefs[d]]
    /\ builder' = IF composition = <<>> THEN NoReq ELSE NewBuilder
    /\ todo' = [todo EXCEPT ![EventLoop] =
           <<Call("addfb"), Call("unlist")>> \o UnrefOld
           \o (IF composition = <<>> THEN <<>> ELSE BuildTasks(composition, FALSE))
           \o <<Call("unlock")>>]
    /\ UNCHANGED <<kernelVars, stateVars, composition, flowVars, fbVars>>

(* The same with enabled = false: the buffer is dropped, nothing is        *)
(* repainted; the cursor stays on screen until the next composition.       *)
DisableCursor ==
    /\ Idle(EventLoop)
    /\ winlock = {}
    /\ cursor # 0
    /\ winlock' = {EventLoop}
    /\ cursor' = 0
    /\ crefs' = [crefs EXCEPT ![cursor] = @ - 1]
    /\ todo' = [todo EXCEPT ![EventLoop] = UnrefOld \o <<Call("unlock")>>]
    /\ UNCHANGED <<kernelVars, stateVars, composition, builder, pushes, flowVars, fbVars>>

-----------------------------------------------------------------------------
(* The list of framebuffers.                                               *)

(* drmdev_add_fb, drmdev_rm_fb: with the drmdev lock.  Removing a          *)
(* framebuffer also takes it off every plane.                              *)
EditFbs(t) ==
    /\ At(t, "addfb") \/ At(t, "rmfb")
    /\ lock = {}
    /\ lock' = {t}
    /\ editing' = editing \cup {t}
    /\ kernel' = [p \in Planes |->
           IF At(t, "rmfb") /\ kernel[p].fb = CursorFb(Head(todo[t]).cursor)
           THEN [kernel[p] EXCEPT !.fb = Off] ELSE kernel[p]]
    /\ Then(t, <<>>)
    /\ UNCHANGED <<dev, master, kmode, foreign, stateVars, winVars, flowVars, cursorVars>>

FbsEdited(t) ==
    /\ At(t, "unlist")
    /\ lock' = lock \ {t}
    /\ editing' = editing \ {t}
    /\ Then(t, <<>>)
    /\ UNCHANGED <<kernelVars, stateVars, winVars, flowVars, cursorVars>>

CursorsOf(r) == {r.layers[i].cursor : i \in DOMAIN r.layers} \ {0}

(* kms_req_builder_destroy: the release callback of every layer.  The      *)
(* cursor's is cursor_buffer_unref_with_locked_drmdev, which removes the   *)
(* framebuffer without taking the drmdev lock.                             *)
ReleaseRequest(t) ==
    LET r == Head(todo[t]).req
        last == {c \in CursorsOf(r) : crefs[c] = 1}
    IN  /\ At(t, "release")
        /\ crefs' = [c \in Cursors |-> IF c \in CursorsOf(r) THEN crefs[c] - 1 ELSE crefs[c]]
        /\ IF last = {}
           THEN Then(t, <<>>) /\ UNCHANGED <<kernel, editing>>
           ELSE /\ editing' = editing \cup {t}
                /\ kernel' = [p \in Planes |->
                       IF \E c \in last : kernel[p].fb = CursorFb(c)
                       THEN [kernel[p] EXCEPT !.fb = Off] ELSE kernel[p]]
                /\ Then(t, <<Call("unlist")>>)
        /\ UNCHANGED <<dev, master, kmode, foreign, stateVars, winVars, flowVars,
                       cursor, lock>>

-----------------------------------------------------------------------------
(* kms_req_commit_common.                                                  *)

(* The window sets its mode on every request; it is only uploaded when the *)
(* CRTC's committed mode differs.                                          *)
UploadMode == cmode # "ours"
NewBlob == Min((1 .. 3) \ blobs)

(* Mutant: the new blob of a refused commit is kept.                       *)
MutRefused(t, r, uploaded) ==
    /\ blobs' = IF uploaded THEN blobs \cup {NewBlob} ELSE blobs
    /\ Then(t, <<Task("release", r), Call("failed")>>)

(* Nothing changed in the kernel: the blob is destroyed, committed_state   *)
(* stays, on_present_frame destroys the frame.                             *)
Refused(t, r, uploaded) ==
    /\ LET new == IF uploaded THEN {NewBlob} ELSE {} IN blobs' = (blobs \cup new) \ new
    /\ Then(t, <<Task("release", r), Call("failed")>>)

(* Planes the request does not use and committed_state has on our CRTC.    *)
PlanesToDisable(r) == {p \in r.available : committed[p].fb # Off}

(* What the kernel checks before it accepts an atomic request; it may      *)
(* still refuse it for reasons of its own.                                 *)
Possible(r) ==
    \A i \in DOMAIN r.props :
        LET plane == dev.planes[r.props[i].plane]
        IN  /\ r.props[i].format \in plane.formats
            /\ dev.zpos /\ ~plane.fixed => r.props[i].zpos <= plane.zmax

PropOf(r, p) == CHOOSE i \in DOMAIN r.props : r.props[i].plane = p
InRequest(r) == {r.props[i].plane : i \in DOMAIN r.props}

(* The kernel applies the properties and keeps all others.                 *)
Applied(r) ==
    [p \in Planes |->
        IF p \in InRequest(r)
        THEN LET a == r.props[PropOf(r, p)]
                 plane == dev.planes[p]
             IN  [fb |-> a.fb, format |-> a.format,
                  zpos |-> IF dev.zpos /\ ~plane.fixed THEN a.zpos ELSE kernel[p].zpos,
                  blend |-> IF plane.blends /\ a.blend \in Blends THEN a.blend
                            ELSE kernel[p].blend]
        ELSE IF p \in PlanesToDisable(r) THEN [kernel[p] EXCEPT !.fb = Off]
        ELSE kernel[p]]

(* After an accepted commit: committed_state of the planes ...             *)
RecordLayers(r) ==
    committed' = [p \in Planes |->
        IF \E i \in DOMAIN r.layers : r.layers[i].plane = p
        THEN LET l == r.layers[CHOOSE i \in DOMAIN r.layers : r.layers[i].plane = p]
             IN  [fb |-> l.fb, format |-> l.format]
        ELSE committed[p]]

(* ... and of the CRTC: the old blob is destroyed and the new one stored.  *)
RecordMode(kept) ==
    IF UploadMode
    THEN /\ cmode' = "ours"
         /\ cblob' = NewBlob
         /\ blobs' = (blobs \ {cblob}) \cup kept
    ELSE UNCHANGED <<cmode, cblob, blobs>>

(* Not master, or no blob: refused before anything is asked of the kernel. *)
CommitEarlyFailure(t) ==
    LET r == Head(todo[t]).req
    IN  /\ At(t, "commit")
        /\ lock = {}
        /\ ~master \/ UploadMode
        /\ Refused(t, r, FALSE)
        /\ UNCHANGED <<kernelVars, committed, cmode, cblob, winVars, flowVars,
                       cursorVars, fbVars>>

CommitRefused(t) ==
    LET r == Head(todo[t]).req
    IN  /\ At(t, "commit")
        /\ lock = {}
        /\ master
        /\ Refused(t, r, UploadMode)
        /\ UNCHANGED <<kernelVars, committed, cmode, cblob, winVars, flowVars,
                       cursorVars, fbVars>>

CommitAtomic(t) ==
    LET r == Head(todo[t]).req
    IN  /\ At(t, "commit")
        /\ lock = {}
        /\ master
        /\ dev.atomic /\ Possible(r) /\ ~inflight.some
        /\ kernel' = Applied(r)
        /\ RecordLayers(r)
        /\ RecordMode({NewBlob})
        /\ kmode' = IF UploadMode THEN "ours" ELSE kmode
        /\ foreign' = foreign \ (InRequest(r) \cup PlanesToDisable(r)
                                 \cup (IF UploadMode THEN {0} ELSE {}))
        /\ inflight' = r
        /\ shown' = r
        /\ Then(t, <<>>)
        /\ UNCHANGED <<dev, master, winVars, waiting, queued, screen, lost,
                       cursorVars, fbVars>>

(* The legacy interface shows the bottom layer only.                       *)
NeedsSetCrtc(r) ==
    UploadMode \/ committed[r.layers[1].plane].format # r.layers[1].format

ShowBottom(r) ==
    LET l == r.layers[1]
    IN  /\ kernel' = [kernel EXCEPT ![l.plane].fb = l.fb, ![l.plane].format = l.format]
        /\ l.format \in dev.planes[l.plane].formats

(* drmModePageFlip: not to another format.                                 *)
CommitPageFlip(t) ==
    LET r == Head(todo[t]).req
    IN  /\ At(t, "commit")
        /\ lock = {}
        /\ master
        /\ ~dev.atomic /\ ~NeedsSetCrtc(r) /\ ~inflight.some
        /\ kernel[r.layers[1].plane].fb # Off
        /\ kernel[r.layers[1].plane].format = r.layers[1].format
        /\ ShowBottom(r)
        /\ foreign' = foreign \ {r.layers[1].plane}
        /\ RecordLayers(r)
        /\ inflight' = r
        /\ shown' = r
        /\ Then(t, <<>>)
        /\ UNCHANGED <<dev, master, kmode, cmode, cblob, blobs, winVars, waiting,
                       queued, screen, lost, cursorVars, fbVars>>

(* drmModeSetCrtc has flipped when it returns; drmCrtcGetSequence gives    *)
(* the time and the flip is dispatched at once.                            *)
CommitSetCrtc(t) ==
    LET r == Head(todo[t]).req
    IN  /\ At(t, "commit")
        /\ lock = {}
        /\ master
        /\ ~dev.atomic /\ NeedsSetCrtc(r)
        /\ ShowBottom(r)
        /\ foreign' = foreign \ {0, r.layers[1].plane}
        /\ RecordLayers(r)
        /\ kmode' = "ours"
        /\ shown' = r
        /\ \/ /\ RecordMode({NewBlob})
              /\ screen' = r
              /\ Then(t, (IF screen.some THEN <<Task("release", screen)>> ELSE <<>>)
                         \o <<Call("scanout")>>)
              /\ UNCHANGED lost
           \/ (* The query fails: 0 is returned all the same, with the blob *)
              (* of committed_state destroyed, a reference to the request   *)
              (* dropped that was never taken, and no flip to come.         *)
              /\ RecordMode({})
              /\ lost' = TRUE
              /\ Then(t, <<Task("release", r)>>)
              /\ UNCHANGED screen
        /\ UNCHANGED <<dev, master, winVars, waiting, queued, inflight, cursorVars, fbVars>>

(* frame_scheduler_on_present_failed *)
OnPresentFailed(t) ==
    /\ At(t, "failed")
    /\ waiting' = FALSE
    /\ queued' = NoReq
    /\ Then(t, IF queued.some THEN <<Task("release", queued)>> ELSE <<>>)
    /\ UNCHANGED <<kernelVars, stateVars, winVars, inflight, screen, shown, lost,
                   cursorVars, fbVars>>

(* drmdev_on_event_fd_ready and drmdev_dispatch_page_flips: the request    *)
(* that leaves the screen is released, then the scanout callback runs.     *)
OnPageFlip ==
    /\ Idle(EventLoop)
    /\ lock = {}
    /\ inflight.some
    /\ inflight' = NoReq
    /\ screen' = inflight
    /\ todo' = [todo EXCEPT ![EventLoop] =
           (IF screen.some THEN <<Task("release", screen)>> ELSE <<>>) \o <<Call("scanout")>>]
    /\ UNCHANGED <<kernelVars, stateVars, winVars, waiting, queued, shown, lost,
                   cursorVars, fbVars>>

(* frame_scheduler_on_scanout *)
OnScanout(t) ==
    /\ At(t, "scanout")
    /\ waiting' = queued.some
    /\ queued' = NoReq
    /\ Then(t, IF queued.some THEN <<Task("commit", queued)>> ELSE <<>>)
    /\ UNCHANGED <<kernelVars, stateVars, winVars, inflight, screen, shown, lost,
                   cursorVars, fbVars>>

-----------------------------------------------------------------------------
(* Another program becomes DRM master, as on a switch of virtual terminal, *)
(* and shows a picture of its own, in its own mode, on one of the planes.  *)
(* on_session_enable does not make the program look at the display again.  *)
SwitchMaster ==
    /\ master' = ~master
    /\ UNCHANGED <<dev, kernel, kmode, foreign, stateVars, winVars, flowVars,
                   cursorVars, fbVars, todo>>

ForeignModeset(p) ==
    /\ ~master
    /\ kernel' = [q \in Planes |->
           [kernel[q] EXCEPT !.fb = IF q = p THEN ForeignFb ELSE Off, !.blend = "none"]]
    /\ kmode' = "other"
    /\ foreign' = Planes \cup {0}
    /\ UNCHANGED <<dev, master, stateVars, winVars, flowVars, cursorVars, fbVars, todo>>

Step(t) ==
    \/ PresentLayer(t) \/ PresentCursor(t) \/ SubmitFrame(t) \/ UnlockWindow(t)
    \/ EditFbs(t) \/ FbsEdited(t) \/ ReleaseRequest(t)
    \/ CommitEarlyFailure(t) \/ CommitRefused(t) \/ CommitAtomic(t)
    \/ CommitPageFlip(t) \/ CommitSetCrtc(t) \/ OnPresentFailed(t) \/ OnScanout(t)

Next ==
    \/ \E c \in Compositions : PushComposition(c)
    \/ \E c \in Cursors : SetCursorIcon(c)
    \/ DisableCursor
    \/ \E t \in Threads : Step(t)
    \/ OnPageFlip
    \/ SwitchMaster
    \/ \E p \in Planes : ForeignModeset(p)

Spec == Init /\ [][Next]_vars

-----------------------------------------------------------------------------
(* Properties.                                                             *)

(* What a request is meant to show: all layers, or the bottom one.         *)
ShownLayers(r) == IF dev.atomic THEN DOMAIN r.layers ELSE {1}
FbMeant(r, p) ==
    LET at == {i \in ShownLayers(r) : r.layers[i].plane = p}
    IN  IF at = {} THEN Off ELSE r.layers[CHOOSE i \in at : TRUE].fb

(* The display shows exactly the last accepted request, in the window's    *)
(* mode: every layer on its plane, and (atomic) no plane left over from an *)
(* earlier frame, a failed push or the program that ran before; refused    *)
(* commits change nothing.  Only what another master touched may differ.   *)
ScreenMatchesRequest ==
    shown.some /\ ~lost =>
        /\ 0 \in foreign \/ kmode = "ours"
        /\ \A p \in Planes \ foreign :
               (dev.atomic \/ p = shown.layers[1].plane) => kernel[p].fb = FbMeant(shown, p)

(* Controllers on which layers can be ordered: every zpos can be set; or   *)
(* the ids order the planes, the cursor's on top, as their zpos do if      *)
(* there are any.                                                          *)
Orderly ==
    \/ dev.zpos /\ \A p \in Planes : ~dev.planes[p].fixed
    \/ /\ \A p, q \in Planes :
             dev.planes[p].type = "cursor" /\ dev.planes[q].type # "cursor" => p > q
       /\ dev.zpos => \A p, q \in Planes :
                          p < q => dev.planes[p].zmax < dev.planes[q].zmin

Above(p, q) == IF dev.zpos THEN kernel[p].zpos > kernel[q].zpos ELSE p > q

(* The layers are composed as Flutter ordered them: each on a plane of its *)
(* own that occludes those below, the bottom one opaque and the others     *)
(* blended, whatever the planes were last used for.                        *)
LayersComposed ==
    shown.some /\ dev.atomic =>
        \A i, j \in DOMAIN shown.layers :
            LET p == shown.layers[i].plane
                q == shown.layers[j].plane
            IN  {p, q} \cap foreign = {} =>
                    /\ i > j => p # q /\ (Orderly => Above(p, q))
                    /\ dev.planes[p].blends =>
                           kernel[p].blend = IF i = 1 THEN "none" ELSE "premultiplied"

CursorOwners(c) ==
    (IF cursor = c THEN {<<"window", 0>>} ELSE {})
    \cup {<<"request", n>> : n \in {m \in 1 .. 4 :
              LET r == <<builder, queued, inflight, screen>>[m]
              IN  r.some /\ c \in CursorsOf(r)}}
    \cup UNION {{<<"task", <<t, i>>>> : i \in {j \in DOMAIN todo[t] :
              todo[t][j].req.some /\ c \in CursorsOf(todo[t][j].req)}} : t \in Threads}

(* Whatever fails and is cancelled, one mode blob exists when the CRTC has *)
(* one of ours and none is leaked; a cursor buffer is counted once by the  *)
(* window and once by every request that shows it, so that its framebuffer *)
(* is not removed from under the display.                                  *)
ResourcesOwned ==
    ~lost =>
        /\ blobs = {cblob} \ {0}
        /\ \A c \in Cursors : crefs[c] = Cardinality(CursorOwners(c))
        /\ \A p \in Planes : \A c \in Cursors : kernel[p].fb = CursorFb(c) => crefs[c] > 0

(* Only one thread at a time changes drmdev->fbs: a release callback that  *)
(* uses drmdev_rm_fb_locked runs with the drmdev lock held.                *)
FbListExclusive == Cardinality(editing) <= 1

=============================================================================
