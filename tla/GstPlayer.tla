----------------------------- MODULE GstPlayer ------------------------------
(***************************************************************************)
(* What a player of the video player plugin does to itself and to its      *)
(* GStreamer pipeline (plugins/gstreamer_video_player/player.c): wishes    *)
(* are stored, and apply_playback_state brings the pipeline to them.       *)
(*                                                                         *)
(* The operators take a player and return the set of outcomes: the player  *)
(* afterwards and whether the call succeeded.  The goal of a pipeline is   *)
(* the state it is in or the one that is pending.  Positions are only told *)
(* apart by whether one is still wished for.                               *)
(***************************************************************************)
EXTENDS Integers, FiniteSets

Outcome(p, ok) == [player |-> p, ok |-> ok]

NewPipeline == [goal |-> "PAUSED", broken |-> FALSE, rate |-> 1]

(* gstplayer_new and init.                                                 *)
NewPlayer(kind, plane) ==
    [kind |-> kind, plane |-> plane, state |-> "kPaused", direction |-> "kForward", forward |-> 1,
     rate |-> 1, seek |-> FALSE, looping |-> FALSE,
     pipe |-> NewPipeline, applied |-> TRUE, overruled |-> FALSE]

DesiredState(p) == IF p.state = "kPlaying" THEN "PLAYING" ELSE "PAUSED"

(* The rate for playing backwards is never set and never used: only single *)
(* steps go backwards.                                                     *)
DesiredRate(p) ==
    CASE p.state = "kStepping" /\ p.direction = "kBackward" -> -1
      [] p.state = "kStepping" /\ p.direction = "kForward" -> 1
      [] OTHER -> p.forward

(* The part of apply_playback_state that changes the rate and the          *)
(* position with a flushing seek.  The query of the position and the seek  *)
(* may fail.                                                               *)
ApplySeek(p) ==
    LET rate == DesiredRate(p)
    IN  IF p.rate = rate /\ ~p.seek THEN {Outcome(p, TRUE)}
        ELSE {Outcome(p, FALSE),
              Outcome([p EXCEPT !.pipe.rate = rate, !.rate = rate, !.seek = FALSE], TRUE)}

(* The part that changes the state.                                        *)
ApplyState(p) ==
    LET goal == DesiredState(p)
    IN  CASE p.pipe.broken -> {Outcome(p, FALSE)}
          [] ~p.pipe.broken /\ p.pipe.goal = goal -> {Outcome(p, TRUE)}
          [] OTHER -> {Outcome([p EXCEPT !.pipe.goal = goal], TRUE),
                       Outcome([p EXCEPT !.pipe.broken = TRUE], FALSE)}

Remember(o) == Outcome([o.player EXCEPT !.applied = o.ok, !.overruled = FALSE], o.ok)

(* A seek that failed does not stop the change of the state.               *)
MutApplyPlaybackState(p) ==
    {Remember(o) : o \in UNION {ApplyState(s.player) : s \in ApplySeek(p)}}

ApplyPlaybackState(p) ==
    IF p.kind = "web" THEN {Outcome(p, TRUE)}
    ELSE LET seeks == ApplySeek(p)
         IN  {Remember(o) : o \in {s \in seeks : ~s.ok} \cup
                 UNION {ApplyState(s.player) : s \in {t \in seeks : t.ok}}}
-----------------------------------------------------------------------------
GstplayerPlay(p) == ApplyPlaybackState([p EXCEPT !.state = "kPlaying", !.direction = "kForward"])

GstplayerPause(p) == ApplyPlaybackState([p EXCEPT !.state = "kPaused", !.direction = "kForward"])

GstplayerSetLooping(p, looping) == {Outcome([p EXCEPT !.looping = looping], TRUE)}

(* The volume is not implemented.                                          *)
GstplayerSetVolume(p) == {Outcome(p, TRUE)}

GstplayerSeekTo(p) == ApplyPlaybackState([p EXCEPT !.seek = TRUE])

GstplayerSetPlaybackSpeed(p, speed) == ApplyPlaybackState([p EXCEPT !.forward = speed])

(* gstplayer_step_forward and gstplayer_step_backward: the step itself may *)
(* be refused.                                                             *)
GstplayerStep(p, direction) ==
    IF p.kind = "web" THEN {Outcome(p, FALSE)}
    ELSE LET applied == ApplyPlaybackState([p EXCEPT !.state = "kStepping", !.direction = direction])
         IN  applied \cup {Outcome(o.player, FALSE) : o \in applied}

(* gstplayer_get_position: it fails after a failed change of the state.    *)
GstplayerGetPosition(p) == {Outcome(p, p.kind = "web" \/ ~p.pipe.broken)}

(* The calls for web views only; what the pages do with them is modelled   *)
(* in WebCalls.                                                            *)
GstplayerWeb(p) == {Outcome(p, p.kind = "web")}
-----------------------------------------------------------------------------
(* on_bus_message, the messages that touch the playback: an element asks   *)
(* for another state, or the stream ended and is played again, after a     *)
(* seek to the start that changes neither rate nor wishes.                 *)
OnRequestState(p, requested) ==
    {[p EXCEPT !.pipe.goal = requested, !.pipe.broken = FALSE, !.overruled = TRUE],
     [p EXCEPT !.pipe.broken = TRUE, !.overruled = TRUE]}

OnAppsinkEos(p) ==
    IF p.looping THEN {o.player : o \in ApplyPlaybackState(p)} ELSE {p}
-----------------------------------------------------------------------------
(* After a call that succeeded the pipeline is where the latest wishes are *)
(* put together, whatever failed or was overruled before: at the rate, on  *)
(* the way to the state, and with no position left to seek to.             *)
Follows(p) ==
    p.kind = "media" /\ p.applied /\ ~p.overruled =>
        /\ p.pipe.goal = DesiredState(p)
        /\ p.pipe.rate = DesiredRate(p)
        /\ ~p.seek
=============================================================================
