----------------------------- MODULE VideoEvents -----------------------------
(***************************************************************************)
(* What the app is told of a video (plugins/gstreamer_video_player,        *)
(* notifier_listener.c).  The pipeline's streaming thread and the platform *)
(* thread gather the video info; value notifiers pass it and the buffering *)
(* state on to the listeners of the event channel.  The notifier's lock is *)
(* held while it calls its listeners and while one is added or removed,    *)
(* and not while a new listener is shown the value.                        *)
(***************************************************************************)
EXTENDS Integers, FiniteSets

CONSTANT MaxListens

ASSUME ListensBound == MaxListens \in Nat

VARIABLES
    info,       \* [size, duration, seeking]: what is known of the video
    video,      \* video_info_notifier: [state, listeners]
    buffering,  \* buffering_state_notifier: [state, listeners]
    meta,       \* [alive, has_listener, is_buffering, video_info_listener, buffering_state_listener]
    platform,   \* where the platform thread is in a handler
    disposing,  \* whether it is in dispose_player
    held,       \* the listener it holds there
    listens,    \* calls of listen so far; each makes a listener of either kind
    freed,      \* the listeners destroyed, <<kind, number>>
    told,       \* the app, since it listens: [initialized, buffering]
    misuse,     \* what was used after it was freed: none, listener, meta
    excuse      \* [raced, relistened, missed], see below

eventVars ==
    <<info, video, buffering, meta, platform, disposing, held, listens, freed, told, misuse, excuse>>

NoListener == 0
Complete == info.size /\ info.duration /\ info.seeking

EventsInit ==
    /\ info = [size |-> FALSE, duration |-> FALSE, seeking |-> FALSE]
    /\ video = [state |-> FALSE, listeners |-> {}]
    /\ buffering = [state |-> "none", listeners |-> {}]
    /\ meta = [alive |-> TRUE, has_listener |-> FALSE, is_buffering |-> FALSE,
               video_info_listener |-> NoListener, buffering_state_listener |-> NoListener]
    /\ platform = "idle" /\ disposing = FALSE /\ held = NoListener /\ listens = 0
    /\ freed = {}
    /\ told = [initialized |-> FALSE, buffering |-> FALSE]
    /\ misuse = "none"
    /\ excuse = [raced |-> FALSE, relistened |-> FALSE, missed |-> FALSE]

Running == misuse = "none" /\ platform \notin {"stopped", "gone"}
PlatformIdle == misuse = "none" /\ platform = "idle"
-----------------------------------------------------------------------------
(* Without the line that forgets it.                                       *)
MutOnVideoInfoNotify(m) == m

(* on_video_info_notify: the app is told, and the listener, there was only *)
(* meant to be one, is forgotten and destroyed.                            *)
OnVideoInfoNotify(m) == [m EXCEPT !.video_info_listener = NoListener]

(* notifier_notify of the video info.  The platform thread may be about to *)
(* store or to remove a listener that is destroyed here.                   *)
NotifyVideoInfo ==
    /\ video' = [state |-> TRUE, listeners |-> {}]
    /\ freed' = freed \cup {<<"video", l>> : l \in video.listeners}
    /\ IF video.listeners = {} THEN UNCHANGED <<meta, told, misuse>>
       ELSE /\ meta' = OnVideoInfoNotify(meta)
            /\ told' = [told EXCEPT !.initialized = TRUE]
            /\ misuse' = IF meta.alive THEN "none" ELSE "meta"
    /\ excuse' = [excuse EXCEPT !.raced = @ \/ (platform \in {"added", "unlisten"} /\ held \in video.listeners),
                                !.missed = @ \/ platform = "reported"]

Silent == UNCHANGED <<video, freed, meta, told, misuse, excuse>>
Missed == excuse' = [excuse EXCEPT !.missed = TRUE] /\ UNCHANGED <<video, freed, meta, told, misuse>>

(* maybe_send_info; there may be no memory for the copy.                   *)
MaybeSendInfo(known) ==
    IF known.size /\ known.duration /\ known.seeking THEN NotifyVideoInfo \/ Missed ELSE Silent

(* on_probe_pad, on the streaming thread.  What the two threads know is    *)
(* not ordered by a lock: what the platform thread just wrote may not be   *)
(* seen yet, nor the other way round.                                      *)
OnProbePad ==
    /\ Running
    /\ info' = [info EXCEPT !.size = TRUE]
    /\ \/ MaybeSendInfo(info') /\ UNCHANGED platform
       \/ platform = "fetched" /\ ~info.size /\ Silent /\ platform' = "crossed"
    /\ UNCHANGED <<disposing, buffering, held, listens>>

(* on_bus_message for a pipeline that is ready: fetch_duration and         *)
(* fetch_seeking, each of which may fail.  Neither is asked again once the *)
(* duration is known.                                                      *)
FetchVideoInfo ==
    /\ PlatformIdle /\ ~info.duration
    /\ \E duration, seeking \in BOOLEAN :
          info' = [info EXCEPT !.duration = duration, !.seeking = @ \/ seeking]
    /\ platform' = "fetched"
    /\ UNCHANGED <<disposing, held, buffering, listens>> /\ Silent

SendVideoInfo ==
    /\ misuse = "none" /\ platform \in {"fetched", "crossed"}
    /\ platform' = "idle"
    /\ MaybeSendInfo(info) \/ (platform = "crossed" /\ Missed)
    /\ UNCHANGED <<disposing, info, buffering, held, listens>>

(* on_buffering_state_notify, on the platform thread only.                 *)
OnBufferingStateNotify(m, state) ==
    IF state = "none" THEN m ELSE [m EXCEPT !.is_buffering = (state = "busy")]

(* update_buffering_state: a query that fails changes nothing.             *)
UpdateBufferingState ==
    /\ PlatformIdle
    /\ \E state \in {"busy", "full"} :
          /\ buffering' = [buffering EXCEPT !.state = state]
          /\ IF buffering.listeners = {} THEN UNCHANGED <<meta, told>>
             ELSE /\ meta' = OnBufferingStateNotify(meta, state)
                  /\ told' = [told EXCEPT !.buffering = IF meta.is_buffering # meta'.is_buffering
                                                        THEN meta'.is_buffering ELSE @]
    /\ UNCHANGED <<disposing, info, video, platform, held, listens, freed, misuse, excuse>>
-----------------------------------------------------------------------------
(* As Listen, at a notifier that does not show a new listener the value.   *)
MutListen ==
    /\ PlatformIdle /\ listens < MaxListens
    /\ listens' = listens + 1
    /\ told' = [told EXCEPT !.initialized = FALSE]
    /\ meta' = [meta EXCEPT !.has_listener = TRUE]
    /\ held' = listens + 1 /\ platform' = "reported"
    /\ excuse' = [excuse EXCEPT !.relistened = @ \/ meta.has_listener, !.missed = @ /\ ~video.state]
    /\ UNCHANGED <<disposing, info, video, buffering, freed, misuse>>

(* on_receive_evch, listen, with notifier_listen in three steps: the new   *)
(* listener is shown the value, added, and stored by the caller.           *)
Listen ==
    /\ PlatformIdle /\ listens < MaxListens
    /\ listens' = listens + 1
    /\ told' = [told EXCEPT !.initialized = video.state]
    /\ IF video.state
       THEN /\ meta' = [OnVideoInfoNotify(meta) EXCEPT !.has_listener = TRUE]
            /\ held' = NoListener /\ platform' = "stored"
            /\ freed' = freed \cup {<<"video", listens + 1>>}
       ELSE /\ meta' = [meta EXCEPT !.has_listener = TRUE]
            /\ held' = listens + 1 /\ platform' = "reported"
            /\ UNCHANGED freed
    /\ excuse' = [excuse EXCEPT !.relistened = @ \/ meta.has_listener, !.missed = @ /\ ~video.state]
    /\ UNCHANGED <<disposing, info, video, buffering, misuse>>

ListenAdd ==
    /\ misuse = "none" /\ platform = "reported" /\ platform' = "added"
    /\ video' = [video EXCEPT !.listeners = @ \cup {held}]
    /\ UNCHANGED <<disposing, info, buffering, meta, held, listens, freed, told, misuse, excuse>>

(* The listener for the buffering state follows.                           *)
ListenStore ==
    /\ misuse = "none" /\ platform \in {"added", "stored"}
    /\ LET shown == OnBufferingStateNotify(meta, buffering.state)
       IN  /\ meta' = [shown EXCEPT !.video_info_listener = held, !.buffering_state_listener = listens]
           /\ told' = [told EXCEPT !.buffering = IF meta.is_buffering # shown.is_buffering
                                                 THEN shown.is_buffering ELSE @]
    /\ buffering' = [buffering EXCEPT !.listeners = @ \cup {listens}]
    /\ platform' = "idle" /\ held' = NoListener
    /\ UNCHANGED <<disposing, info, video, listens, freed, misuse, excuse>>
-----------------------------------------------------------------------------
(* cancel, and the same part of dispose_player.  The pointer is looked at  *)
(* and read again by another instruction, or kept, as the compiler likes.  *)
Cancel(dispose) ==
    /\ PlatformIdle
    /\ disposing' = dispose
    /\ platform' = IF meta.video_info_listener # NoListener THEN "unlisten" ELSE "unlistened"
    /\ held' = meta.video_info_listener
    /\ meta' = [meta EXCEPT !.has_listener = dispose /\ @]
    /\ UNCHANGED <<info, video, buffering, listens, freed, told, misuse, excuse>>

(* notifier_unlisten, with listener_destroy under the notifier's lock.     *)
Unlisten ==
    /\ misuse = "none" /\ platform = "unlisten"
    /\ \E l \in {held, meta.video_info_listener} :
          /\ misuse' = IF l = NoListener \/ <<"video", l>> \in freed THEN "listener" ELSE "none"
          /\ freed' = freed \cup {<<"video", l>>}
          /\ video' = [video EXCEPT !.listeners = @ \ {l}]
    /\ meta' = [meta EXCEPT !.video_info_listener = NoListener]
    /\ platform' = "unlistened" /\ held' = NoListener
    /\ UNCHANGED <<disposing, info, buffering, listens, told, excuse>>

(* The buffering listener follows; dispose_player goes on to destroy_meta. *)
UnlistenBuffering ==
    /\ misuse = "none" /\ platform = "unlistened"
    /\ LET l == meta.buffering_state_listener
       IN  /\ freed' = IF l = NoListener THEN freed ELSE freed \cup {<<"buffering", l>>}
           /\ buffering' = [buffering EXCEPT !.listeners = @ \ {l}]
    /\ meta' = [meta EXCEPT !.buffering_state_listener = NoListener, !.alive = ~disposing]
    /\ platform' = IF disposing THEN "disposed" ELSE "idle"
    /\ UNCHANGED <<disposing, info, video, held, listens, told, misuse, excuse>>

(* gstplayer_destroy: maybe_deinit stops the streaming thread before the   *)
(* notifiers go with the listeners that are left.                          *)
MaybeDeinit ==
    /\ misuse = "none" /\ platform = "disposed" /\ platform' = "stopped"
    /\ UNCHANGED <<disposing, info, video, buffering, meta, held, listens, freed, told, misuse, excuse>>

NotifierDeinit ==
    /\ misuse = "none" /\ platform = "stopped" /\ platform' = "gone"
    /\ freed' = freed \cup {<<"video", l>> : l \in video.listeners}
                      \cup {<<"buffering", l>> : l \in buffering.listeners}
    /\ video' = [video EXCEPT !.listeners = {}]
    /\ buffering' = [buffering EXCEPT !.listeners = {}]
    /\ UNCHANGED <<disposing, info, meta, held, listens, told, misuse, excuse>>

EventsNext ==
    \/ OnProbePad \/ FetchVideoInfo \/ SendVideoInfo \/ UpdateBufferingState
    \/ Listen \/ ListenAdd \/ ListenStore
    \/ \E dispose \in BOOLEAN : Cancel(dispose)
    \/ Unlisten \/ UnlistenBuffering \/ MaybeDeinit \/ NotifierDeinit

EventsSpec == EventsInit /\ [][EventsNext]_eventVars
-----------------------------------------------------------------------------
(* Between two calls an app that listens to a video all of whose info is   *)
(* known has been told, whichever thread completes it and whether the app  *)
(* listened before or after: unless a copy ran out of memory, the threads  *)
(* did not see what the other wrote, or the info was sent while a new      *)
(* listener had been shown the old value and was not added yet.  And       *)
(* across listens and cancels, what the app was told last of the buffering *)
(* is how it is.                                                           *)
EventsInStep ==
    PlatformIdle /\ meta.has_listener =>
        /\ Complete => told.initialized \/ excuse.missed
        /\ told.buffering = (buffering.state = "busy")

(* A listener is destroyed once, by the notification, by the app that      *)
(* cancels or by the end of the notifier, and none is called for a player  *)
(* whose meta is freed: unless a notification falls into one of the two    *)
(* windows in which the platform thread holds the listener without the     *)
(* lock, or the app listens twice without a cancel.                        *)
ListenersFreedOnce ==
    /\ misuse = "none" \/ excuse.raced \/ excuse.relistened
    /\ platform = "gone" =>
          {<<kind, l>> : kind \in {"video", "buffering"}, l \in 1..listens} \subseteq freed
=============================================================================
