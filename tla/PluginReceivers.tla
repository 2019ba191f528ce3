-------------------------- MODULE PluginReceivers --------------------------
(***************************************************************************)
(* The receivers in the plugin registry (pluginregistry.c): plugins are    *)
(* initialised in order, each putting its receivers into the registry, and *)
(* take them out again when one of them fails or the registry is           *)
(* destroyed; the plugin of the audio players has one more per open player *)
(* (plugins/audioplayers/plugin.c).  All on the platform thread.           *)
(***************************************************************************)
EXTENDS Integers, Sequences, SequencesExt, FiniteSetsExt

CONSTANTS Plugins   \* the plugins that were built in

VARIABLES
    static,     \* the plugins that registered themselves before main, in order
    registry,   \* NULL or [phase, instances, callbacks]
    audio       \* the audio players that are open

receiverVars == <<static, registry, audio>>

(* The receivers a plugin installs, in order.  v2 receivers get the raw    *)
(* message and return nothing.                                             *)
V2(c) == [channel |-> c, v2 |-> TRUE]
V1(c) == [channel |-> c, v2 |-> FALSE]
ServicesReceivers ==
    <<V2("navigation"), V2("isolate"), V2("platform"), V2("accessibility"),
      V2("platform_views"), V2("mousecursor")>>
TextInputReceivers == <<V1("textinput")>>
AudioReceivers == <<V1("audio.global"), V1("audio")>>
VideoReceivers ==
    <<V1("video.initialize"), V1("video.create"), V1("video.dispose"), V1("video.setLooping"),
      V1("video.setVolume"), V1("video.setPlaybackSpeed"), V1("video.play"),
      V1("video.position"), V1("video.seekTo"), V1("video.pause"),
      V1("video.setMixWithOthers"), V1("video.advancedControls"), V1("video.v2")>>
CharsetReceivers == <<V1("charset")>>
TestReceivers == <<V1("test.json"), V1("test.std"), V1("test.ping")>>

Receivers ==
    [services |-> ServicesReceivers, text_input |-> TextInputReceivers,
     audioplayers |-> AudioReceivers, video |-> VideoReceivers,
     charset |-> CharsetReceivers, test |-> TestReceivers, rawkb |-> <<>>]

ASSUME KnownPlugins == Plugins \subseteq DOMAIN Receivers

(* The receiver of an audio player's events, there while it is open.       *)
PlayerChannel == "audio.events"

NoRegistry == [phase |-> "none", instances |-> <<>>, callbacks |-> <<>>]

ReceiversInit ==
    /\ static = <<>>
    /\ registry = NoRegistry
    /\ audio = 0
-----------------------------------------------------------------------------
(* get_cb_data_by_channel_locked, set_receiver_locked and                  *)
(* plugin_registry_remove_receiver_v2_locked on the list of receivers.     *)

Index(callbacks, channel) ==
    LET hits == {i \in 1..Len(callbacks) : callbacks[i].channel = channel}
    IN  IF hits = {} THEN 0 ELSE Min(hits)

SetReceiver(callbacks, r) ==
    LET i == Index(callbacks, r.channel)
    IN  IF i = 0 THEN Append(callbacks, r) ELSE [callbacks EXCEPT ![i] = r]

RemoveReceiver(callbacks, r) ==
    LET i == Index(callbacks, r.channel)
    IN  IF i = 0 THEN callbacks ELSE RemoveAt(callbacks, i)

(* The init function of a plugin: its receivers one after the other; when  *)
(* number `fails` cannot be set, the earlier ones are taken out again.     *)
RemoveAll(callbacks, rs) == FoldLeft(RemoveReceiver, callbacks, Reverse(rs))

(* The receivers set before the one that fails are left in place.          *)
MutInitPlugin(callbacks, rs, fails) ==
    FoldLeft(SetReceiver, callbacks, IF fails = 0 THEN rs ELSE SubSeq(rs, 1, fails - 1))

InitPlugin(callbacks, rs, fails) ==
    LET done == IF fails = 0 THEN rs ELSE SubSeq(rs, 1, fails - 1)
        set == FoldLeft(SetReceiver, callbacks, done)
    IN  IF fails = 0 THEN set ELSE RemoveAll(set, done)

(* The deinit function.  That of the audio players destroys the players    *)
(* that are open and leaves the receivers of their events.                 *)
DeinitPlugin(callbacks, name) == RemoveAll(callbacks, Receivers[name])

InitInstance(callbacks, inst) ==
    IF inst.initialized THEN InitPlugin(callbacks, Receivers[inst.plugin], 0) ELSE callbacks
DeinitInstance(callbacks, inst) ==
    IF inst.initialized THEN DeinitPlugin(callbacks, inst.plugin) ELSE callbacks
-----------------------------------------------------------------------------
(* FLUTTERPI_PLUGIN: before main every plugin adds itself to the list.     *)
StaticAdd(p) ==
    /\ registry.phase = "none"
    /\ ~\E i \in 1..Len(static) : static[i] = p
    /\ static' = Append(static, p)
    /\ UNCHANGED <<registry, audio>>

StaticRemove(p) ==
    /\ registry.phase = "destroyed"
    /\ \E i \in 1..Len(static) : static[i] = p
    /\ static' = SelectSeq(static, LAMBDA q : q # p)
    /\ UNCHANGED <<registry, audio>>

AddPluginsFromStaticRegistry ==
    [i \in 1..Len(static) |-> [plugin |-> static[i], initialized |-> FALSE]]

(* plugin_registry_new and plugin_registry_add_plugins_from_static_registry *)
NewRegistry ==
    /\ registry.phase = "none"
    /\ registry' = [phase |-> "new", callbacks |-> <<>>, instances |-> AddPluginsFromStaticRegistry]
    /\ UNCHANGED <<static, audio>>

(* The receivers that are left when the initialised instances are gone.    *)
EnsurePluginsDeinitialized(callbacks, instances) == FoldLeft(DeinitInstance, callbacks, instances)

(* The instances once every applicable one before `failing` is initialised.*)
Started(failing, notApplicable) ==
    [i \in 1..Len(registry.instances) |->
        [registry.instances[i] EXCEPT !.initialized =
             registry.instances[i].plugin \notin notApplicable /\ (failing # 0 => i < failing)]]

(* plugin_registry_ensure_plugins_initialized: one receiver at most cannot *)
(* be set; everything initialised until then is deinitialised again.       *)
EnsurePluginsInitialized ==
    /\ registry.phase = "new"
    /\ \E failing \in 0..Len(registry.instances), notApplicable \in SUBSET {"test", "charset"} :
         LET started == Started(failing, notApplicable)
             set == FoldLeft(InitInstance, <<>>, started)
         IN  \/ /\ failing = 0
                /\ registry' = [phase |-> "running", callbacks |-> set, instances |-> started]
             \/ /\ failing # 0
                /\ LET rs == Receivers[registry.instances[failing].plugin]
                   IN  \E k \in 1..Len(rs) :
                          registry' = [registry EXCEPT
                              !.phase = "failed",
                              !.callbacks =
                                  EnsurePluginsDeinitialized(InitPlugin(set, rs, k), started)]
    /\ UNCHANGED <<static, audio>>

(* plugin_registry_destroy.                                                *)
DestroyRegistry ==
    /\ registry.phase \in {"running", "failed"}
    /\ registry' = [phase |-> "destroyed",
                    callbacks |-> EnsurePluginsDeinitialized(registry.callbacks, registry.instances),
                    instances |-> [i \in 1..Len(registry.instances) |->
                                     [registry.instances[i] EXCEPT !.initialized = FALSE]]]
    /\ audio' = 0
    /\ UNCHANGED static

(* audioplayers_linux_plugin_get_player and ..._dispose_player, called by  *)
(* the receiver of the audio channel.                                      *)
CreateAudioPlayer ==
    /\ registry.phase = "running"
    /\ Index(registry.callbacks, "audio") # 0
    /\ audio = 0
    /\ \/ /\ audio' = 1
          /\ registry' = [registry EXCEPT !.callbacks = SetReceiver(@, V1(PlayerChannel))]
       \/ UNCHANGED <<audio, registry>>
    /\ UNCHANGED static

DisposeAudioPlayer ==
    /\ registry.phase = "running"
    /\ audio = 1
    /\ audio' = 0
    /\ registry' = [registry EXCEPT !.callbacks = RemoveReceiver(@, V1(PlayerChannel))]
    /\ UNCHANGED static

ReceiversNext ==
    \/ \E p \in Plugins : StaticAdd(p) \/ StaticRemove(p)
    \/ NewRegistry
    \/ EnsurePluginsInitialized
    \/ DestroyRegistry
    \/ CreateAudioPlayer
    \/ DisposeAudioPlayer

ReceiversSpec == ReceiversInit /\ [][ReceiversNext]_receiverVars
-----------------------------------------------------------------------------
Channels(rs) == {rs[i].channel : i \in 1..Len(rs)}

(* At every moment the receivers in the registry are exactly those of the  *)
(* plugins that are initialised, plus one per open audio player: a plugin  *)
(* that fails half way, or a registry that is torn down, leaves none (but  *)
(* the audio players that were still open then).                           *)
ReceiversMatchPlugins ==
    LET live == {i \in 1..Len(registry.instances) : registry.instances[i].initialized}
        expected == UNION {Channels(Receivers[registry.instances[i].plugin]) : i \in live}
        present == Channels(registry.callbacks)
    IN  /\ Cardinality(present) = Len(registry.callbacks)
        /\ present \ {PlayerChannel} = expected
        /\ audio = 1 => PlayerChannel \in present
        /\ PlayerChannel \in present /\ audio = 0 => registry.phase = "destroyed"
=============================================================================
