---------------------------- MODULE VideoPlayer -----------------------------
(***************************************************************************)
(* The video player plugin (plugins/gstreamer_video_player/plugin.c): the  *)
(* calls of the app on its two channels, the players they create, move and *)
(* dispose of, and what the pipelines do in between.  Everything here runs *)
(* on the platform thread.                                                 *)
(*                                                                         *)
(* A call is a record: the texture id in its argument, NotInt if there is  *)
(* none or the argument has another form, and whether the rest of it is    *)
(* good.  What the app is answered is left out.                            *)
(***************************************************************************)
EXTENDS GstPlayer, Sequences, SequencesExt

CONSTANTS
    MaxPlayers,     \* texture ids
    Moved           \* the ones the app plays, pauses and seeks in

ASSUME VideoBounds == MaxPlayers \in Nat /\ Moved \subseteq 1..MaxPlayers

VARIABLES
    plugin,     \* [running, initialized]
    channels,   \* the channels of the plugin with a receiver
    players,    \* by texture id, what gstplayer_new allocated
    listed,     \* plugin.players
    receivers,  \* the event channels with a receiver, by texture id
    views,      \* the platform views in the compositor, by texture id
    next_id,
    environment     \* [gl, plane]: a GL renderer, FLUTTERPI_WEBVIEW_ON_PLANE

videoVars ==
    <<plugin, channels, players, listed, receivers, views, next_id, environment>>

PlayerIds == 1..MaxPlayers
NotInt == -1
NoPlayer == [kind |-> "none"]
Allocated == {id \in PlayerIds : players[id] # NoPlayer}

VideoChannels ==
    {"initialize", "create", "dispose", "setLooping", "setVolume", "setPlaybackSpeed", "play",
      "position", "seekTo", "pause", "setMixWithOthers", "advancedControls", "gstreamerVideoPlayer"}

VideoInit ==
    /\ plugin = [running |-> FALSE, initialized |-> FALSE]
    /\ channels = {}
    /\ players = [id \in PlayerIds |-> NoPlayer]
    /\ listed = {} /\ receivers = {} /\ views = {}
    /\ next_id = 1
    /\ environment \in [gl : BOOLEAN, plane : BOOLEAN]
-----------------------------------------------------------------------------
(* gstplayer_plugin_init; when it fails, everything is as before.          *)
GstplayerPluginInit ==
    /\ ~plugin.running /\ next_id = 1
    /\ plugin' = [running |-> TRUE, initialized |-> FALSE]
    /\ channels' = VideoChannels
    /\ UNCHANGED <<players, listed, receivers, views, next_id, environment>>

-----------------------------------------------------------------------------
(* What a call may do to the player it names: the players it may become,   *)
(* or nothing when it is refused.                                          *)
Refused == {}
Becomes(id, outcomes) == {[id |-> id, player |-> o.player] : o \in outcomes}

(* get_player_from_map_arg, get_player_from_v2_root_arg and                *)
(* get_player_from_v2_list_arg with check_arg_is_minimum_sized_list.       *)
MapArg(call, Do(_)) == IF call.id \in listed THEN Becomes(call.id, Do(players[call.id])) ELSE Refused
RootArg(call, Do(_)) == MapArg(call, Do)
ListArg(call, Do(_)) == IF call.rest = "good" THEN MapArg(call, Do) ELSE Refused

SetLooping(p) == UNION {GstplayerSetLooping(p, looping) : looping \in BOOLEAN}
SetSpeed(p) == UNION {GstplayerSetPlaybackSpeed(p, speed) : speed \in {1, 2}}
StepForward(p) == GstplayerStep(p, "kForward")
StepBackward(p) == GstplayerStep(p, "kBackward")

(* The old channels.                                                       *)
OnSetLooping(call) == MapArg(call, SetLooping)
OnSetVolume(call) == MapArg(call, GstplayerSetVolume)
OnSetPlaybackSpeed(call) == IF call.rest = "good" THEN MapArg(call, SetSpeed) ELSE Refused
OnPlay(call) == MapArg(call, GstplayerPlay)
OnGetPosition(call) == MapArg(call, GstplayerGetPosition)
OnSeekTo(call) == IF call.rest = "good" THEN MapArg(call, GstplayerSeekTo) ELSE Refused
OnPause(call) == MapArg(call, GstplayerPause)
OnSetMixWithOthers(call) == Refused
OnStepForward(call) == MapArg(call, StepForward)
OnStepBackward(call) == MapArg(call, StepBackward)
OnFastSeek(call) == IF call.rest = "good" THEN MapArg(call, GstplayerSeekTo) ELSE Refused

(* The new channel.                                                        *)
OnSetLoopingV2(call) == ListArg(call, SetLooping)
OnSetVolumeV2(call) == ListArg(call, GstplayerSetVolume)
OnSetPlaybackSpeedV2(call) == ListArg(call, SetSpeed)
OnPlayV2(call) == RootArg(call, GstplayerPlay)
OnGetPositionV2(call) == RootArg(call, GstplayerGetPosition)
OnSeekToV2(call) == ListArg(call, GstplayerSeekTo)
OnPauseV2(call) == RootArg(call, GstplayerPause)
OnSetMixWithOthersV2(call) == Refused
OnFastSeekV2(call) == ListArg(call, GstplayerSeekTo)
OnStepForwardV2(call) == RootArg(call, StepForward)
OnStepBackwardV2(call) == RootArg(call, StepBackward)
OnWebPointerEventV2(call) == ListArg(call, GstplayerWeb)
OnWebKeyEventV2(call) == ListArg(call, GstplayerWeb)
OnWebLoadUrlV2(call) == ListArg(call, GstplayerWeb)
OnWebResizeV2(call) == ListArg(call, GstplayerWeb)
OnWebLoadBytesV2(call) == ListArg(call, GstplayerWeb)
OnWebRunJavascriptV2(call) == ListArg(call, GstplayerWeb)
OnWebSetDelegatesV2(call) == ListArg(call, GstplayerWeb)
OnWebHandlerResponseV2(call) == ListArg(call, GstplayerWeb)
OnWebNavigationResponseV2(call) == ListArg(call, GstplayerWeb)

HandlersV1(call) ==
    OnSetLooping(call) \cup OnSetVolume(call) \cup OnSetPlaybackSpeed(call) \cup OnPlay(call)
        \cup OnGetPosition(call) \cup OnSeekTo(call) \cup OnPause(call) \cup OnSetMixWithOthers(call)

(* on_receive_method_channel.                                              *)
AdvancedControls(call) == OnStepForward(call) \cup OnStepBackward(call) \cup OnFastSeek(call)

(* on_receive_method_channel_v2.                                           *)
HandlersV2(call) ==
    UNION {OnSetLoopingV2(call), OnSetVolumeV2(call), OnSetPlaybackSpeedV2(call), OnPlayV2(call),
           OnGetPositionV2(call), OnSeekToV2(call), OnPauseV2(call), OnSetMixWithOthersV2(call),
           OnStepForwardV2(call), OnStepBackwardV2(call), OnFastSeekV2(call),
           OnWebPointerEventV2(call), OnWebKeyEventV2(call), OnWebLoadUrlV2(call), OnWebResizeV2(call),
           OnWebLoadBytesV2(call), OnWebRunJavascriptV2(call), OnWebHandlerResponseV2(call),
           OnWebSetDelegatesV2(call), OnWebNavigationResponseV2(call)}

Calls == [id : PlayerIds \cup {NotInt}, rest : {"good", "bad"}]

(* Every call that neither creates nor disposes of a player.               *)
OnCall(outcomes) ==
    /\ plugin.running
    /\ \E outcome \in outcomes : players' = [players EXCEPT ![outcome.id] = outcome.player]
    /\ UNCHANGED <<plugin, channels, listed, receivers, views, next_id, environment>>
-----------------------------------------------------------------------------
(* on_initialize and on_initialize_v2, with ensure_initialized; and a       *)
(* creation that is refused before the player is allocated.                *)
OnInitialize ==
    /\ plugin.running
    /\ plugin' = [plugin EXCEPT !.initialized = TRUE]
    /\ UNCHANGED <<channels, players, listed, receivers, views, next_id, environment>>

(* gstplayer_new: the player, or none with everything undone.  Only a web  *)
(* view and a player on a plane do without a frame interface; a web view   *)
(* does not do without its surface.                                        *)
GstplayerNew(kind) ==
    LET onPlane == kind = "web" \/ environment.plane
    IN  {NoPlayer}
        \cup (IF onPlane THEN {NewPlayer(kind, TRUE)} ELSE {})
        \cup (IF kind = "media" /\ (environment.gl \/ onPlane) THEN {NewPlayer(kind, FALSE)} ELSE {})

(* What is undone from a label on when a creation fails.                   *)
CreateSteps == <<"meta", "receiver", "initialize", "answer">>

MutUndone(failed) ==
    CASE failed = "meta" -> {"player"}
      [] failed = "receiver" -> {"player", "listed"}
      [] failed = "initialize" -> {"player", "listed"}
      [] OTHER -> {}

Undone(failed) ==
    CASE failed = "meta" -> {"player"}
      [] failed = "receiver" -> {"player", "listed"}
      [] failed = "initialize" -> {"player", "listed", "receiver"}
      [] OTHER -> {}

Done(failed) ==
    {"player"} \cup (IF failed # "meta" THEN {"listed"} ELSE {})
               \cup (IF failed \in {"initialize", "answer"} THEN {"receiver"} ELSE {})

(* on_create, on_create_v2, on_web_create_v2: the texture id is used up in *)
(* any case.                                                               *)
OnCreate(kind, failed) ==
    /\ plugin.running
    /\ next_id <= MaxPlayers
    /\ next_id' = next_id + 1
    /\ plugin' = [plugin EXCEPT !.initialized = TRUE]
    /\ \E player \in GstplayerNew(kind) :
          LET left == IF player = NoPlayer THEN {} ELSE Done(failed) \ Undone(failed)
              Keep(what, set) == IF what \in left THEN set \cup {next_id} ELSE set
          IN  /\ players' = IF "player" \in left THEN [players EXCEPT ![next_id] = player] ELSE players
              /\ listed' = Keep("listed", listed)
              /\ receivers' = Keep("receiver", receivers)
              /\ views' = IF player # NoPlayer /\ player.plane THEN Keep("player", views) ELSE views
    /\ UNCHANGED <<channels, environment>>

(* dispose_player: the receiver, the place in the list, and the player with *)
(* its platform view.  The listeners are modelled in VideoEvents.          *)
DisposePlayers(ids) ==
    /\ receivers' = receivers \ ids
    /\ listed' = listed \ ids
    /\ views' = views \ ids
    /\ players' = [id \in PlayerIds |-> IF id \in ids THEN NoPlayer ELSE players[id]]

OnDispose(call) ==
    /\ plugin.running /\ call.id \in listed
    /\ DisposePlayers({call.id})
    /\ UNCHANGED <<plugin, channels, next_id, environment>>

GstplayerPluginDeinit ==
    /\ plugin.running
    /\ plugin' = [running |-> FALSE, initialized |-> FALSE]
    /\ DisposePlayers(listed)
    /\ channels' = {}
    /\ next_id' = MaxPlayers + 1
    /\ UNCHANGED environment
-----------------------------------------------------------------------------
(* on_bus_message and the pipeline itself.                                 *)
Pipeline(id, changed) ==
    /\ id \in Allocated /\ players[id].kind = "media"
    /\ \E p \in changed : players' = [players EXCEPT ![id] = p]
    /\ UNCHANGED <<plugin, channels, listed, receivers, views, next_id, environment>>

OnBusMessage(id) ==
    \/ \E s \in {"PAUSED", "PLAYING"} : Pipeline(id, OnRequestState(players[id], s))
    \/ Pipeline(id, OnAppsinkEos(players[id]))

VideoNext ==
    \/ GstplayerPluginInit \/ GstplayerPluginDeinit \/ OnInitialize
    \/ \E call \in {c \in Calls : c.id \in Moved} :
          OnCall(HandlersV1(call)) \/ OnCall(AdvancedControls(call)) \/ OnCall(HandlersV2(call))
    \/ \E call \in Calls : OnDispose(call)
    \/ \E kind \in {"media", "web"}, i \in 1..Len(CreateSteps) : OnCreate(kind, CreateSteps[i])
    \/ \E id \in Moved : OnBusMessage(id)

VideoSpec == VideoInit /\ [][VideoNext]_videoVars
-----------------------------------------------------------------------------
(* Whatever fails while a player is created, and however many are open     *)
(* when the plugin is torn down: the players that exist are the ones in    *)
(* the list and the ones whose events have a receiver, a platform view     *)
(* belongs to a living player, and channels and players need the plugin.   *)
PlayersAccounted ==
    /\ listed = Allocated /\ receivers = Allocated
    /\ views = {id \in Allocated : players[id].plane}
    /\ ~plugin.running => channels = {} /\ Allocated = {}

(* After any sequence of calls, failures and messages: once a call         *)
(* succeeded the pipeline is where the latest wishes put together want it, *)
(* unless an element overruled them since.                                 *)
PlaybackFollows == \A id \in Allocated : Follows(players[id])
=============================================================================
