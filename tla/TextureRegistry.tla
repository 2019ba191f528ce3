--------------------------- MODULE TextureRegistry ---------------------------
(***************************************************************************)
(* A Flutter external texture (texture_registry.c): the frames pushed into *)
(* it from a streaming thread, and what the engine's raster thread does    *)
(* when it draws the layer.  Frames are counted: the texture holds the     *)
(* latest, the engine the ones it draws with.  A frame is a source that is *)
(* destroyed once it has been resolved to a GL texture, and that texture.  *)
(***************************************************************************)
EXTENDS Integers

CONSTANTS
    MaxFrames,
    MaxHeld     \* how often the engine holds the same frame

ASSUME TextureBounds == {MaxFrames, MaxHeld} \subseteq Nat

VARIABLES
    texture,    \* the texture's life: none, registering, live, unregistered, unlinked, freed
    textures,   \* whether the registry lists it
    next_frame, \* 0 when there is none
    dirty,
    frames,     \* [kind, n_refs, is_resolved]
    destroys,   \* how often the source and the GL texture of a frame were destroyed
    pushed,     \* frames pushed so far
    engine,     \* [noticed, painting, holds, latest, refused, twice]; latest is the frame it was
                \* given last, twice the frames it could not acquire and gives back twice
    misused     \* whether a frame was used that is freed already: nothing is known from there on

textureVars == <<texture, textures, next_frame, dirty, frames, destroys, pushed, engine, misused>>

FrameIds == 1..MaxFrames

TextureInit ==
    /\ texture = "none" /\ textures = FALSE
    /\ next_frame = 0 /\ dirty = FALSE
    /\ frames = [f \in FrameIds |-> [kind |-> "none", n_refs |-> 0, is_resolved |-> FALSE]]
    /\ destroys = [f \in FrameIds |-> [source |-> 0, gl |-> 0]]
    /\ pushed = 0
    /\ engine = [noticed |-> FALSE, painting |-> FALSE, holds |-> [f \in FrameIds |-> 0],
                latest |-> 0, refused |-> FALSE, twice |-> {}]
    /\ misused = FALSE

(* texture_new: listed first, then registered with the engine, which may   *)
(* refuse.                                                                 *)
TextureNew ==
    /\ texture = "none"
    /\ texture' = "registering" /\ textures' = TRUE
    /\ UNCHANGED <<next_frame, dirty, frames, destroys, pushed, engine, misused>>

RegisterTexture ==
    /\ texture = "registering"
    /\ \/ texture' = "live" /\ UNCHANGED textures
       \/ texture' = "freed" /\ textures' = FALSE
    /\ UNCHANGED <<next_frame, dirty, frames, destroys, pushed, engine, misused>>
-----------------------------------------------------------------------------
(* One reference less to a frame, if f is one; the last one destroys and   *)
(* frees it (counted_texture_frame_destroy).                               *)
Unref(f, fs, counts) ==
    /\ misused' = (f # 0 /\ fs[f].n_refs = 0)
    /\ IF f = 0 \/ fs[f].n_refs = 0 THEN frames' = fs /\ destroys' = counts
       ELSE /\ frames' = [fs EXCEPT ![f].n_refs = @ - 1]
            /\ destroys' = CASE fs[f].n_refs > 1 -> counts
                              [] fs[f].n_refs = 1 /\ fs[f].is_resolved -> [counts EXCEPT ![f].gl = @ + 1]
                              [] OTHER -> [counts EXCEPT ![f].source = @ + 1]

(* push_frame, under the texture's lock: the reference to the frame that   *)
(* was next is dropped, and the engine told unless it is about to fetch    *)
(* anyway.  Its refusal is ignored.                                        *)
PushFrame(is_resolved) ==
    /\ texture = "live" /\ pushed < MaxFrames
    /\ LET f == pushed + 1
           with == [frames EXCEPT ![f] = [kind |-> IF is_resolved THEN "gl" ELSE "source",
                                          n_refs |-> 1, is_resolved |-> is_resolved]]
       IN  /\ Unref(next_frame, with, destroys)
           /\ next_frame' = f /\ pushed' = f
    /\ dirty' = TRUE
    /\ \/ dirty /\ UNCHANGED engine
       \/ ~dirty /\ engine' = [engine EXCEPT !.noticed = TRUE, !.refused = FALSE]
       \/ ~dirty /\ engine' = [engine EXCEPT !.refused = TRUE]
    /\ UNCHANGED <<texture, textures>>

(* The engine notices that frames are available and draws the layer later. *)
EnginePaint ==
    /\ ~engine.painting /\ texture \in {"live", "unregistered", "unlinked", "freed"}
    /\ engine' = [engine EXCEPT !.painting = TRUE, !.noticed = FALSE]
    /\ UNCHANGED <<texture, textures, next_frame, dirty, frames, destroys, pushed, misused>>

(* As GlCallbackEmpty; the engine counts as asked until it is given a      *)
(* frame.                                                                  *)
MutGlCallbackEmpty ==
    /\ engine.painting
    /\ engine' = [engine EXCEPT !.painting = FALSE]
    /\ \/ ~textures /\ UNCHANGED <<next_frame, frames, destroys, misused>>
       \/ textures /\ next_frame = 0 /\ UNCHANGED <<next_frame, frames, destroys, misused>>
       \/ /\ textures /\ next_frame # 0 /\ ~frames[next_frame].is_resolved
          /\ next_frame' = 0
          /\ Unref(next_frame, frames, destroys)
    /\ UNCHANGED <<texture, textures, dirty, pushed>>

(* The callback without a frame to give: no such texture, no frame pushed, *)
(* or a frame that cannot be resolved, which is then dropped.              *)
GlCallbackEmpty ==
    /\ engine.painting
    /\ engine' = [engine EXCEPT !.painting = FALSE]
    /\ \/ ~textures /\ UNCHANGED <<next_frame, dirty, frames, destroys, misused>>
       \/ /\ textures /\ next_frame = 0
          /\ dirty' = FALSE
          /\ UNCHANGED <<next_frame, frames, destroys, misused>>
       \/ /\ textures /\ next_frame # 0 /\ ~frames[next_frame].is_resolved
          /\ dirty' = FALSE
          /\ next_frame' = 0
          /\ Unref(next_frame, frames, destroys)
    /\ UNCHANGED <<texture, textures, pushed>>

(* The callback with a frame: the engine is given a reference; a source is *)
(* resolved first and destroyed.  An engine that fails to acquire what it  *)
(* was given destroys the frame two times, for its one reference.          *)
GlCallback ==
    /\ engine.painting /\ textures /\ next_frame # 0 /\ engine.holds[next_frame] < MaxHeld
    /\ \/ engine' = [engine EXCEPT !.painting = FALSE, !.latest = next_frame,
                                   !.holds[next_frame] = @ + 1]
       \/ engine' = [engine EXCEPT !.painting = FALSE, !.latest = next_frame,
                                   !.holds[next_frame] = @ + 2, !.twice = @ \cup {next_frame}]
    /\ misused' = (frames[next_frame].n_refs = 0)
    /\ frames' = [frames EXCEPT ![next_frame] =
                    [kind |-> @.kind, n_refs |-> @.n_refs + 1, is_resolved |-> TRUE]]
    /\ destroys' = IF frames[next_frame].is_resolved THEN destroys
                   ELSE [destroys EXCEPT ![next_frame].source = @ + 1]
    /\ dirty' = FALSE
    /\ UNCHANGED <<texture, textures, next_frame, pushed>>

(* on_flutter_acquired_frame_destroy: no check that the engine's reference *)
(* is still there.                                                         *)
OnFlutterAcquiredFrameDestroy ==
    \E f \in FrameIds :
        /\ engine.holds[f] > 0
        /\ engine' = [engine EXCEPT !.holds[f] = @ - 1]
        /\ Unref(f, frames, destroys)
        /\ UNCHANGED <<texture, textures, next_frame, dirty, pushed>>
-----------------------------------------------------------------------------
(* texture_destroy: unregistered with the engine, unlinked, freed with its *)
(* reference to the next frame.                                            *)
TextureUnregister ==
    /\ texture = "live" /\ texture' = "unregistered"
    /\ UNCHANGED <<textures, next_frame, dirty, frames, destroys, pushed, engine, misused>>

TextureUnlink ==
    /\ texture = "unregistered" /\ texture' = "unlinked" /\ textures' = FALSE
    /\ UNCHANGED <<next_frame, dirty, frames, destroys, pushed, engine, misused>>

(* As TextureDestroy; the last frame is forgotten.                         *)
MutTextureDestroy ==
    /\ texture = "unlinked" /\ texture' = "freed"
    /\ next_frame' = 0
    /\ UNCHANGED <<textures, dirty, pushed, engine, frames, destroys, misused>>

TextureDestroy ==
    /\ texture = "unlinked" /\ texture' = "freed"
    /\ next_frame' = 0
    /\ Unref(next_frame, frames, destroys)
    /\ UNCHANGED <<textures, dirty, pushed, engine>>

TextureNext ==
    /\ ~misused
    /\ \/ TextureNew \/ RegisterTexture \/ PushFrame(TRUE) \/ PushFrame(FALSE)
       \/ EnginePaint \/ GlCallbackEmpty \/ GlCallback \/ OnFlutterAcquiredFrameDestroy
       \/ TextureUnregister \/ TextureUnlink \/ TextureDestroy

TextureSpec == TextureInit /\ [][TextureNext]_textureVars
-----------------------------------------------------------------------------
(* Whichever of the texture and the engine drops a frame last, in whatever *)
(* order pushes, draws, failed resolves and the end of the texture come:   *)
(* what was pushed is destroyed once, exactly when nobody can reach it any *)
(* more, a source not before it was resolved for good.  Except the frames  *)
(* the engine failed to acquire: it gives those back twice and holds them  *)
(* once (texture_registry.c:303).                                          *)
FramesDestroyedOnce ==
    \A f \in (1..pushed) \ engine.twice :
        LET inUse == f = next_frame \/ engine.holds[f] > 0
            gl == frames[f].is_resolved
        IN  /\ destroys[f].gl = (IF gl /\ ~inUse THEN 1 ELSE 0)
            /\ frames[f].kind = "source" => destroys[f].source = (IF gl \/ ~inUse THEN 1 ELSE 0)

(* A frame the engine has not fetched yet is one it knows of or is just    *)
(* drawing, unless it refused to be told.                                  *)
LatestFrameAnnounced ==
    texture = "live" /\ next_frame # 0 /\ engine.latest # next_frame =>
        engine.noticed \/ engine.painting \/ engine.refused
=============================================================================
