----------------------------- MODULE AudioPlayer -----------------------------
(***************************************************************************)
(* A player of the audio players plugin (plugins/audioplayers): calls come *)
(* from Flutter, messages from GStreamer.  Both run on the platform        *)
(* thread, but a message may have waited on the bus while calls changed    *)
(* what it is about.                                                       *)
(*                                                                         *)
(* Volume, balance and the position itself are left out, and so is         *)
(* audio_player_on_refresh: nothing runs GLib's default main loop, so the  *)
(* timer never fires.  The receivers of a player's events are modelled in  *)
(* PluginRegistry.                                                         *)
(***************************************************************************)
EXTENDS Integers, Sequences

CONSTANTS
    Urls,      \* what is played; "" stops the pipeline
    MaxBus     \* messages that wait on the bus when a call or the stream adds one

ASSUME BusBound == MaxBus \in Nat \ {0}

VARIABLE audioPlayer   \* NoAudio, or struct audio_player with its pipeline

(* What a call finds GStreamer able to do.                                 *)
Grants == [seek : BOOLEAN, state : BOOLEAN]

NoAudio == [url |-> "no player"]

(* audio_player_new.  `playbin` is the state the pipeline is in or, once   *)
(* it was prepared, on its way to; `busy` what it has not finished;        *)
(* `failed` and `heard` are history: whether GStreamer refused something   *)
(* since the source was set, and what a Flutter that has been listening    *)
(* since then was told.                                                    *)
AudioPlayerNew ==
    [url |-> "none", is_initialized |-> FALSE, is_playing |-> FALSE, is_looping |-> FALSE,
     is_seek_completed |-> FALSE, playback_rate |-> 1, event_subscribed |-> FALSE,
     playbin |-> "NULL", busy |-> "no", bus |-> <<>>, failed |-> FALSE, heard |-> "deaf"]

AudioInit == audioPlayer = NoAudio
-----------------------------------------------------------------------------
StateChanged(old, new) == [type |-> "STATE_CHANGED", old |-> old, new |-> new]
Notice(type) == [type |-> type]
Post(p, messages) == [p EXCEPT !.bus = @ \o messages]

(* gst_element_set_state.  Going to NULL throws away what is on the bus.   *)
SetState(p, state, ok) ==
    CASE state = "NULL" -> [p EXCEPT !.playbin = "NULL", !.busy = "no", !.bus = <<>>]
      [] state # "NULL" /\ ~ok -> [p EXCEPT !.failed = TRUE]
      [] state = "PAUSED" /\ ok /\ p.playbin = "READY" -> [p EXCEPT !.busy = "preroll"]
      [] OTHER -> IF p.playbin = state THEN p
                  ELSE Post([p EXCEPT !.playbin = state], <<StateChanged(p.playbin, state)>>)

AudioPlayerPause(p, g) ==
    LET wish == [p EXCEPT !.is_playing = FALSE]
    IN  IF p.is_initialized THEN SetState(wish, "PAUSED", g.state) ELSE wish

AudioPlayerResume(p, g) ==
    LET wish == [p EXCEPT !.is_playing = TRUE]
    IN  IF p.is_initialized THEN SetState(wish, "PLAYING", g.state) ELSE wish

(* audio_player_set_playback: while a seek is under way, or none has been  *)
(* completed yet, another one is dropped.                                  *)
AudioPlayerSetPlayback(p, rate, g) ==
    CASE ~p.is_initialized \/ ~p.is_seek_completed -> p
      [] p.is_initialized /\ p.is_seek_completed /\ rate = 0 -> AudioPlayerPause(p, g)
      [] OTHER -> IF g.seek THEN [p EXCEPT !.playback_rate = rate, !.is_seek_completed = FALSE,
                                           !.busy = "seek"]
                  ELSE [p EXCEPT !.playback_rate = rate]

AudioPlayerSetPosition(p, g) == AudioPlayerSetPlayback(p, p.playback_rate, g)

AudioPlayerPlay(p, g) == AudioPlayerResume(AudioPlayerSetPosition(p, g), g)

AudioPlayerOnPrepared(p) ==
    [p EXCEPT !.heard = IF p.event_subscribed THEN "prepared" ELSE @]

(* audio_player_set_source_url.  The same source is reported as prepared   *)
(* whatever became of it.                                                  *)
AudioPlayerSetSourceUrl(p, url, g) ==
    LET stopped == [SetState(p, "NULL", TRUE) EXCEPT
                       !.url = url, !.is_initialized = FALSE, !.is_playing = FALSE, !.failed = FALSE,
                       !.heard = IF p.event_subscribed THEN "waiting" ELSE "deaf"]
    IN  CASE p.url = url -> AudioPlayerOnPrepared(p)
          [] p.url # url /\ url = "" -> stopped
          [] OTHER -> SetState(stopped, "READY", g.state)

AudioPlayerRelease(p) ==
    [SetState(p, "NULL", TRUE) EXCEPT !.url = "none", !.is_initialized = FALSE, !.is_playing = FALSE,
                                      !.failed = FALSE, !.heard = "deaf"]
-----------------------------------------------------------------------------
(* audio_player_on_bus_message.                                            *)

(* A wish to play that came before the source was ready is forgotten.      *)
MutAudioPlayerOnMediaStateChange(p, old, new, g) ==
    CASE new = "READY" -> [SetState(p, "PAUSED", g.state) EXCEPT !.is_initialized = FALSE]
      [] OTHER -> IF p.is_initialized \/ new = "PLAYING" THEN p
                  ELSE AudioPlayerOnPrepared([p EXCEPT !.is_initialized = TRUE])

AudioPlayerOnMediaStateChange(p, old, new, g) ==
    LET prepared == AudioPlayerOnPrepared([p EXCEPT !.is_initialized = TRUE])
    IN  CASE new = "READY" -> [SetState(p, "PAUSED", g.state) EXCEPT !.is_initialized = FALSE]
          [] new # "READY" /\ (p.is_initialized \/ <<old, new>> = <<"PAUSED", "PLAYING">>) -> p
          [] OTHER -> IF p.is_playing THEN AudioPlayerResume(prepared, g) ELSE prepared

AudioPlayerOnPlaybackEnded(p, g) ==
    IF p.is_looping THEN AudioPlayerPlay(p, g)
    ELSE AudioPlayerSetPosition(AudioPlayerPause(p, g), g)

AudioPlayerOnBusMessage ==
    /\ audioPlayer # NoAudio /\ audioPlayer.bus # <<>>
    /\ LET p == [audioPlayer EXCEPT !.bus = Tail(@)]
           message == Head(audioPlayer.bus)
       IN  \E g \in Grants :
              audioPlayer' =
                 CASE message.type = "STATE_CHANGED" ->
                         AudioPlayerOnMediaStateChange(p, message.old, message.new, g)
                   [] message.type = "EOS" -> AudioPlayerOnPlaybackEnded(p, g)
                   [] message.type = "ASYNC_DONE" -> [p EXCEPT !.is_seek_completed = TRUE]
                   [] message.type = "ERROR" -> p

(* GStreamer: a source is ready or turns out to be unplayable, a seek is   *)
(* done, the stream ends or breaks.                                        *)
PrerollDone ==
    /\ audioPlayer # NoAudio /\ audioPlayer.busy = "preroll"
    /\ audioPlayer' \in
          {Post([audioPlayer EXCEPT !.busy = "no", !.playbin = "PAUSED"],
                <<StateChanged("READY", "PAUSED"), Notice("ASYNC_DONE")>>),
           Post([audioPlayer EXCEPT !.busy = "no", !.failed = TRUE], <<Notice("ERROR")>>)}

SeekDone ==
    /\ audioPlayer # NoAudio /\ audioPlayer.busy = "seek"
    /\ audioPlayer' = Post([audioPlayer EXCEPT !.busy = "no"], <<Notice("ASYNC_DONE")>>)

StreamEnds ==
    /\ audioPlayer # NoAudio /\ audioPlayer.playbin = "PLAYING" /\ Len(audioPlayer.bus) < MaxBus
    /\ audioPlayer' \in {Post(audioPlayer, <<Notice("EOS")>>),
                         Post([audioPlayer EXCEPT !.failed = TRUE], <<Notice("ERROR")>>)}
-----------------------------------------------------------------------------
(* on_local_method_call.  The player is created by whatever call names it  *)
(* first, also by one that is then found to lack an argument.              *)
GetPlayer == IF audioPlayer = NoAudio THEN AudioPlayerNew ELSE audioPlayer

OnLocalMethodCall ==
    /\ audioPlayer # NoAudio => Len(audioPlayer.bus) < MaxBus
    /\ LET p == GetPlayer
       IN  \E g \in Grants :
              \/ audioPlayer' = p      \* create, getters, wrong arguments, or one without an effect here
              \/ audioPlayer' = AudioPlayerPause(p, g)
              \/ audioPlayer' = AudioPlayerResume(p, g)
              \/ audioPlayer' = AudioPlayerSetPosition(AudioPlayerPause(p, g), g)
              \/ audioPlayer' = AudioPlayerRelease(p)
              \/ audioPlayer' = AudioPlayerSetPosition(p, g)
              \/ \E url \in Urls : audioPlayer' = AudioPlayerSetSourceUrl(p, url, g)
              \/ \E rate \in 0..2 : audioPlayer' = AudioPlayerSetPlayback(p, rate, g)
              \/ \E looping \in BOOLEAN : audioPlayer' = [p EXCEPT !.is_looping = looping]

(* audio_player_destroy.                                                   *)
DisposePlayer ==
    /\ audioPlayer # NoAudio
    /\ audioPlayer' = NoAudio

(* on_receive_event_ch.                                                    *)
OnReceiveEventCh ==
    /\ audioPlayer # NoAudio
    /\ audioPlayer' \in {[audioPlayer EXCEPT !.event_subscribed = TRUE],
                         [audioPlayer EXCEPT !.event_subscribed = FALSE, !.heard = "deaf"]}

AudioNext ==
    \/ OnLocalMethodCall \/ DisposePlayer \/ OnReceiveEventCh
    \/ AudioPlayerOnBusMessage
    \/ PrerollDone \/ SeekDone \/ StreamEnds

AudioSpec == AudioInit /\ [][AudioNext]_audioPlayer
-----------------------------------------------------------------------------
(* Once every message of the bus has been handled, and unless GStreamer    *)
(* refused something for this source: the player plays exactly when it was *)
(* last asked to and its source is ready; the next seek will be accepted;  *)
(* and a Flutter that has been listening was told that the source is       *)
(* ready.  Sources and states may change while messages of earlier ones,   *)
(* or seeks, are under way.                                                *)
AudioFollows ==
    LET p == audioPlayer
        ready == p.playbin \in {"PAUSED", "PLAYING"}
    IN  p # NoAudio => (p.bus = <<>> /\ p.busy = "no" /\ ~p.failed =>
            /\ p.is_initialized = ready
            /\ (p.playbin = "PLAYING") = (ready /\ p.is_playing)
            /\ ready => p.is_seek_completed /\ p.heard # "waiting")
=============================================================================
