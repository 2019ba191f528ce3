----------------------------- MODULE UserInput ------------------------------
(***************************************************************************)
(* User input (user_input.c, user_input_scroll.c, keyboard.c and the       *)
(* callbacks of flutter-pi.c): libinput devices come and go, their events  *)
(* are turned into Flutter's pointer and key events, and the cursor is     *)
(* moved on the screen.                                                    *)
(*                                                                         *)
(* user_input_on_fd_ready is a batch: it begins, handles one libinput      *)
(* event after the other, and ends by flushing the collected pointer       *)
(* events and telling the compositor about the cursor.  Positions have one *)
(* dimension; a pointer button is primary or secondary.                    *)
(***************************************************************************)
EXTENDS Integers, Sequences, FiniteSets, SequencesExt

CONSTANTS
    Devices,
    Setups,         \* the sets of devices there may be in one behaviour
    Capabilities,   \* of every device: a subset of Caps
    TouchCount,     \* of every device: slots, 0 where libinput does not know
    Keys,
    DisplayWidth,
    MaxCollected,   \* MAX_COLLECTED_FLUTTER_POINTER_EVENTS
    MaxIds,         \* Flutter device ids
    MaxEvents       \* libinput events in one behaviour

Caps == {"pointer", "touch", "keyboard", "tablet"}
Ids == 0..(MaxIds - 1)
Buttons == {"primary", "secondary"}

ASSUME InputConstants ==
    /\ Setups \subseteq SUBSET Devices
    /\ Capabilities \in [Devices -> SUBSET Caps]
    /\ TouchCount \in [Devices -> Nat]
    /\ {DisplayWidth, MaxCollected, MaxIds} \subseteq Nat \ {0}
    /\ MaxEvents \in Nat

VARIABLES
    libinput,   \* the devices as they are: present, and what is pressed on them
    data,       \* struct input_device_data of every device
    input,      \* struct user_input without the events
    out,        \* the collected events, and what Flutter knows of every device id
    batch,      \* whether on_fd_ready is running, and the cursor it started from
    shown,      \* the cursor as the compositor was told
    keysDown,   \* the keys Flutter believes to be pressed
    events,
    excused     \* what makes the known disagreements: see the properties

inputVars == <<libinput, data, input, out, batch, shown, keysDown, events, excused>>

NoScroll == [device_id |-> -1, added |-> FALSE, active |-> FALSE, x |-> FALSE, y |-> FALSE]
NoData == [state |-> "null", buttons |-> {}, emitted |-> FALSE, tip |-> FALSE, touch_id |-> -1,
           stylus_id |-> -1, scroll |-> NoScroll, keyboard |-> FALSE]
Unplugged == [exists |-> TRUE, present |-> FALSE, touched |-> {}, buttons |-> {}, tip |-> FALSE, keys |-> {}]

(* user_input_new; without a keyboard configuration there is no keyboard   *)
(* input.                                                                  *)
InputInit ==
    /\ \E devices \in Setups :
          libinput = [d \in Devices |-> [Unplugged EXCEPT !.exists = d \in devices]]
    /\ data = [d \in Devices |-> NoData]
    /\ \E kbdcfg \in BOOLEAN :
          input = [next_id |-> 0, n_cursor_devices |-> 0, cursor_id |-> -1, cursor |-> 0,
                   kbdcfg |-> kbdcfg, suspended |-> FALSE, destroyed |-> FALSE]
    /\ out = [buffer |-> <<>>, flutter |-> [id \in Ids |-> "absent"]]
    /\ batch = [running |-> FALSE, enabled |-> FALSE, cursor |-> 0]
    /\ shown = [enabled |-> FALSE, cursor |-> 0]
    /\ keysDown = {}
    /\ events = 0
    /\ excused = {}
-----------------------------------------------------------------------------
(* Flutter follows the pointer events of one device id.                    *)
Event(id, phase) == [id |-> id, phase |-> phase]

Accept(known, event) ==
    LET was == known[event.id]
        is == CASE event.phase = "add" -> IF was = "absent" THEN "up" ELSE "breach"
                [] event.phase = "remove" -> IF was \in {"up", "down"} THEN "absent" ELSE "breach"
                [] event.phase = "start" -> IF was = "up" THEN "pan" ELSE "breach"
                [] event.phase = "update" -> IF was = "pan" THEN "pan" ELSE "breach"
                [] event.phase = "end" -> IF was = "pan" THEN "up" ELSE "breach"
                [] event.phase \in {"down", "up"} ->
                      IF was \in {"up", "down"} THEN event.phase ELSE "breach"
                [] event.phase \in {"hover", "move"} ->
                      IF was \in {"up", "down"} THEN was ELSE "breach"
    IN  [known EXCEPT ![event.id] = IF was = "breach" THEN was ELSE is]

FlushPointerEvents(o) == [buffer |-> <<>>, flutter |-> FoldLeft(Accept, o.flutter, o.buffer)]

(* A full buffer is started over without being sent.                       *)
MutEmitPointerEvent(o, event) ==
    LET room == IF Len(o.buffer) = MaxCollected THEN [o EXCEPT !.buffer = <<>>] ELSE o
    IN  [room EXCEPT !.buffer = Append(@, event)]

EmitPointerEvent(o, event) ==
    LET room == IF Len(o.buffer) = MaxCollected THEN FlushPointerEvents(o) ELSE o
    IN  [room EXCEPT !.buffer = Append(@, event)]

(* emit_pointer_events fills the buffer as far as it goes and flushes it.  *)
EmitPointerEvents(o, es) == FoldLeft(EmitPointerEvent, o, es)
-----------------------------------------------------------------------------
(* The gestures of a touchpad, user_input_scroll.c: the new state and the  *)
(* events, at most USER_INPUT_SCROLL_MAX_EVENTS.  A sample says for either *)
(* axis whether it has a delta, a zero one, or none.                       *)
Axis == {"none", "zero", "delta"}

ScrollFinger(scroll, dx, dy) ==
    LET moves == dx = "delta" \/ dy = "delta"
        started == [scroll EXCEPT !.added = TRUE, !.active = TRUE,
                                  !.x = @ /\ scroll.active, !.y = @ /\ scroll.active]
        s == [started EXCEPT !.x = IF dx = "none" THEN @ ELSE dx = "delta",
                             !.y = IF dy = "none" THEN @ ELSE dy = "delta"]
        stopped == ~s.x /\ ~s.y
    IN  IF ~scroll.active /\ ~moves THEN <<scroll, <<>>>>
        ELSE <<[s EXCEPT !.active = ~stopped],
               (IF ~scroll.added THEN <<"add">> ELSE <<>>)
               \o (IF ~scroll.active THEN <<"start">> ELSE <<>>)
               \o (IF moves THEN <<"update">> ELSE <<>>)
               \o (IF stopped THEN <<"end">> ELSE <<>>)>>

ScrollRemove(scroll) ==
    <<[NoScroll EXCEPT !.device_id = scroll.device_id],
      (IF scroll.active THEN <<"end">> ELSE <<>>) \o (IF scroll.added THEN <<"remove">> ELSE <<>>)>>

PhaseEvents(id, phases) == [i \in 1..Len(phases) |-> Event(id, phases[i])]
-----------------------------------------------------------------------------
(* One libinput event of a batch.                                          *)
Handling ==
    /\ batch.running
    /\ ~input.destroyed
    /\ events < MaxEvents
    /\ events' = events + 1

(* The handlers do not ask whether the data is still there: on_device_added *)
(* leaves the pointer in the libinput device when it frees the data of a    *)
(* touch device without slots.                                              *)
Uses(d) == excused' = IF data[d].state = "freed" THEN excused \cup {"freed"} ELSE excused

Quiet == UNCHANGED <<batch, shown, keysDown>>

(* maybe_enable_mouse_cursor at the first event of a pointer device: the   *)
(* input and the collected events after it.                                *)
PointerSpeaks(d) ==
    LET first == ~data[d].emitted
        n == input.n_cursor_devices + 1
        new == n = 1 /\ input.cursor_id = -1
        id == IF new THEN input.next_id ELSE input.cursor_id
    IN  IF ~first THEN <<input, out>>
        ELSE <<[input EXCEPT !.n_cursor_devices = n, !.cursor_id = id,
                             !.next_id = IF new THEN @ + 1 ELSE @],
               IF n = 1 THEN EmitPointerEvent(out, Event(id, "add")) ELSE out>>

Room(n) == input.next_id + n <= MaxIds

(* on_device_added: a scroll id for a pointer, one id per touch slot, one  *)
(* for a stylus.  The positions of the touch slots may be out of memory    *)
(* after the ids were given and announced.                                 *)
OnDeviceAdded(d) ==
    LET caps == Capabilities[d]
        pointer == IF "pointer" \in caps THEN 1 ELSE 0
        slots == IF "touch" \in caps THEN TouchCount[d] ELSE 0
        stylus == IF "tablet" \in caps THEN 1 ELSE 0
        touchAt == input.next_id + pointer
        touches == [i \in 1..slots |-> Event(touchAt + i - 1, "add")]
        fresh == [NoData EXCEPT
                    !.state = "live",
                    !.scroll = [NoScroll EXCEPT !.device_id = IF pointer = 1 THEN input.next_id ELSE -1],
                    !.touch_id = IF slots > 0 THEN touchAt ELSE -1]
    IN  /\ Handling
        /\ libinput[d].exists /\ ~libinput[d].present /\ data[d].state = "null" /\ ~input.suspended
        /\ Room(pointer + slots + stylus + 1)
        /\ libinput' = [libinput EXCEPT ![d].present = TRUE]
        /\ \/ /\ "touch" \in caps => slots > 0
              /\ input' = [input EXCEPT !.next_id = @ + pointer + slots + stylus]
              /\ out' = EmitPointerEvents(out, touches \o
                            (IF stylus = 1 THEN <<Event(touchAt + slots, "add")>> ELSE <<>>))
              /\ \E created \in BOOLEAN :
                    data' = [data EXCEPT ![d] = [fresh EXCEPT
                        !.stylus_id = IF stylus = 1 THEN touchAt + slots ELSE -1,
                        !.keyboard = "keyboard" \in caps /\ input.kbdcfg /\ created]]
              /\ UNCHANGED <<batch, excused>>
           \/ /\ "touch" \in caps
              /\ input' = [input EXCEPT !.next_id = @ + pointer + slots]
              /\ out' = EmitPointerEvents(out, touches)
              /\ data' = [data EXCEPT ![d] = [fresh EXCEPT !.state = "freed"]]
              /\ batch' = [batch EXCEPT !.running = FALSE]
              /\ excused' = excused \cup {"failed"}
        /\ UNCHANGED <<shown, keysDown>>

(* on_device_removed.  libinput releases everything on a device before it  *)
(* reports that it is gone.                                                *)
Released(d) ==
    libinput[d].touched = {} /\ libinput[d].buttons = {} /\ libinput[d].keys = {} /\ ~libinput[d].tip

RemovedInput(d) ==
    [input EXCEPT !.n_cursor_devices =
        IF "pointer" \in Capabilities[d] /\ data[d].emitted THEN @ - 1 ELSE @]

RemovedEvents(d) ==
    LET caps == Capabilities[d]
        leaves == "pointer" \in caps /\ data[d].emitted /\ input.n_cursor_devices = 1
    IN  (IF "pointer" \in caps
         THEN PhaseEvents(data[d].scroll.device_id, ScrollRemove(data[d].scroll)[2]) ELSE <<>>)
        \o (IF leaves THEN <<Event(input.cursor_id, "remove")>> ELSE <<>>)
        \o (IF "touch" \in caps
            THEN [i \in 1..TouchCount[d] |-> Event(data[d].touch_id + i - 1, "remove")] ELSE <<>>)

StylusRemoved(d) ==
    IF "tablet" \in Capabilities[d] THEN <<Event(data[d].stylus_id, "remove")>> ELSE <<>>

OnDeviceRemoved(d) ==
    /\ Handling
    /\ libinput[d].present /\ Released(d)
    /\ libinput' = [libinput EXCEPT ![d] = Unplugged]
    /\ Uses(d)
    /\ input' = RemovedInput(d)
    /\ out' = EmitPointerEvents(out, RemovedEvents(d) \o StylusRemoved(d))
    /\ data' = [data EXCEPT ![d] = NoData]
    /\ Quiet

(* A handler of a device whose data is gone does something, but nothing    *)
(* that could be said.                                                     *)
OnEventOfFreed(d) ==
    /\ Handling
    /\ libinput[d].present /\ data[d].state = "freed"
    /\ Uses(d)
    /\ UNCHANGED <<libinput, data, input, out>> /\ Quiet

Live(d, cap) ==
    /\ Handling
    /\ libinput[d].present /\ data[d].state = "live" /\ ~input.suspended
    /\ cap \in Capabilities[d]

(* on_mouse_motion_event and on_mouse_motion_absolute_event: the position  *)
(* is clamped to the display.                                              *)
Clamp(pos) == IF pos < 0 THEN 0 ELSE IF pos > DisplayWidth - 1 THEN DisplayWidth - 1 ELSE pos

MovePhase(d) == IF "primary" \in data[d].buttons THEN "move" ELSE "hover"

MovedTo(d, pos) ==
    LET s == PointerSpeaks(d)
    IN  /\ Live(d, "pointer") /\ Room(1)
        /\ input' = [s[1] EXCEPT !.cursor = pos]
        /\ out' = EmitPointerEvent(s[2], Event(s[1].cursor_id, MovePhase(d)))
        /\ data' = [data EXCEPT ![d].emitted = TRUE]
        /\ UNCHANGED <<libinput, excused>> /\ Quiet

OnMouseMotion(d, delta) == MovedTo(d, Clamp(input.cursor + delta))

OnMouseMotionAbsolute(d, pos) == MovedTo(d, pos)

(* on_mouse_button_event; a button Flutter does not know changes nothing   *)
(* but may be the first event of the device.                               *)
ButtonPhase(before, after) ==
    CASE after = {} -> "up"
      [] after # {} /\ before = {} -> "down"
      [] OTHER -> "move"

OnMouseButton(d, button, pressed) ==
    LET s == PointerSpeaks(d)
        before == data[d].buttons
        after == IF pressed THEN before \cup ({button} \cap Buttons) ELSE before \ {button}
        others == {e \in Devices \ {d} : data[e].buttons # {}}
    IN  /\ Live(d, "pointer") /\ Room(1)
        /\ button \in libinput[d].buttons <=> ~pressed
        /\ libinput' = [libinput EXCEPT ![d].buttons = IF pressed THEN @ \cup {button} ELSE @ \ {button}]
        /\ input' = s[1]
        /\ out' = IF after = before THEN s[2]
                  ELSE EmitPointerEvent(s[2], Event(s[1].cursor_id, ButtonPhase(before, after)))
        /\ data' = [data EXCEPT ![d].emitted = TRUE, ![d].buttons = after]
        /\ excused' = IF after # {} /\ others # {} THEN excused \cup {"two mice"} ELSE excused
        /\ Quiet

(* on_mouse_axis_event: a finger on the touchpad pans, a wheel scrolls.    *)
OnMouseAxis(d, finger, dx, dy) ==
    LET s == PointerSpeaks(d)
        pan == ScrollFinger(data[d].scroll, dx, dy)
    IN  /\ Live(d, "pointer") /\ Room(1)
        /\ input' = s[1]
        /\ out' = IF finger THEN EmitPointerEvents(s[2], PhaseEvents(data[d].scroll.device_id, pan[2]))
                  ELSE EmitPointerEvent(s[2], Event(s[1].cursor_id, MovePhase(d)))
        /\ data' = [data EXCEPT ![d].emitted = TRUE, ![d].scroll = IF finger THEN pan[1] ELSE @]
        /\ UNCHANGED <<libinput, excused>> /\ Quiet

(* on_touch_down, on_touch_motion and on_touch_up of one slot.             *)
TouchEvent(d, slot, phase) ==
    /\ Live(d, "touch")
    /\ out' = EmitPointerEvent(out, Event(data[d].touch_id + slot, phase))
    /\ UNCHANGED <<data, input>> /\ Quiet

OnTouchDown(d, slot) ==
    /\ slot \notin libinput[d].touched
    /\ libinput' = [libinput EXCEPT ![d].touched = @ \cup {slot}]
    /\ UNCHANGED excused
    /\ TouchEvent(d, slot, "down")

OnTouchMotion(d, slot) ==
    /\ slot \in libinput[d].touched
    /\ UNCHANGED <<libinput, excused>>
    /\ TouchEvent(d, slot, "move")

OnTouchUp(d, slot) ==
    /\ slot \in libinput[d].touched
    /\ libinput' = [libinput EXCEPT ![d].touched = @ \ {slot}]
    /\ UNCHANGED excused
    /\ TouchEvent(d, slot, "up")

(* on_touch_cancel is not implemented.                                     *)
OnTouchCancel(d, slot) ==
    /\ Live(d, "touch")
    /\ slot \in libinput[d].touched
    /\ libinput' = [libinput EXCEPT ![d].touched = @ \ {slot}]
    /\ excused' = excused \cup {"cancelled"}
    /\ UNCHANGED <<data, input, out>> /\ Quiet

(* on_tablet_tool_axis and, while the tip is up, on_tablet_tool_proximity. *)
OnTabletToolAxis(d) ==
    /\ Live(d, "tablet")
    /\ out' = EmitPointerEvent(out, Event(data[d].stylus_id, IF data[d].tip THEN "move" ELSE "hover"))
    /\ UNCHANGED <<libinput, data, input, excused>> /\ Quiet

OnTabletToolProximity(d) ==
    /\ Live(d, "tablet")
    /\ ~data[d].tip
    /\ out' = EmitPointerEvent(out, Event(data[d].stylus_id, "hover"))
    /\ UNCHANGED <<libinput, data, input, excused>> /\ Quiet

OnTabletToolTip(d, down) ==
    /\ Live(d, "tablet")
    /\ libinput[d].tip # down
    /\ libinput' = [libinput EXCEPT ![d].tip = down]
    /\ data' = [data EXCEPT ![d].tip = down]
    /\ out' = EmitPointerEvent(out, Event(data[d].stylus_id, IF down THEN "down" ELSE "up"))
    /\ UNCHANGED <<input, excused>> /\ Quiet

(* on_key_event: whatever the keyboard state makes of the key, the event   *)
(* that Flutter follows is sent, through rawkb_send_gtk_keyevent.  What    *)
(* the text input plugin does with the key is modelled in TextInput.       *)
OnKeyEvent(d, key, pressed) ==
    /\ Live(d, "keyboard")
    /\ key \in libinput[d].keys <=> ~pressed
    /\ libinput' = [libinput EXCEPT ![d].keys = IF pressed THEN @ \cup {key} ELSE @ \ {key}]
    /\ keysDown' = CASE ~data[d].keyboard -> keysDown
                     [] data[d].keyboard /\ pressed -> keysDown \cup {key}
                     [] OTHER -> keysDown \ {key}
    /\ excused' = IF pressed /\ \E e \in Devices \ {d} : key \in libinput[e].keys
                  THEN excused \cup {"two keyboards"} ELSE excused
    /\ UNCHANGED <<data, input, out, batch, shown>>
-----------------------------------------------------------------------------
(* user_input_on_fd_ready.                                                 *)
BeginBatch ==
    /\ ~batch.running /\ ~input.destroyed
    /\ events < MaxEvents
    /\ batch' = [running |-> TRUE, enabled |-> input.n_cursor_devices > 0, cursor |-> input.cursor]
    /\ UNCHANGED <<libinput, data, input, out, shown, keysDown, events, excused>>

(* The cursor is only moved while it is enabled.                           *)
MutEndBatch ==
    /\ batch.running
    /\ out' = FlushPointerEvents(out)
    /\ shown' = [enabled |-> shown.enabled \/ input.n_cursor_devices > 0,
                 cursor |-> shown.cursor + input.cursor - batch.cursor]
    /\ batch' = [batch EXCEPT !.running = FALSE]
    /\ UNCHANGED <<libinput, data, input, keysDown, events, excused>>

EndBatch ==
    LET enabled == input.n_cursor_devices > 0
        moved == input.cursor # batch.cursor
    IN  /\ batch.running
        /\ out' = FlushPointerEvents(out)
        /\ shown' = [enabled |-> IF enabled # batch.enabled THEN enabled
                                 ELSE IF enabled /\ moved THEN TRUE ELSE shown.enabled,
                     cursor |-> shown.cursor + (IF enabled THEN input.cursor - batch.cursor ELSE 0)]
        /\ batch' = [batch EXCEPT !.running = FALSE]
        /\ excused' = IF moved /\ ~enabled THEN excused \cup {"moved and left"} ELSE excused
        /\ UNCHANGED <<libinput, data, input, keysDown, events>>

(* The session is given up and taken back.  libinput releases what is      *)
(* pressed, here before the session is given up; it removes all devices    *)
(* and finds them again.                                                   *)
Suspend ==
    /\ ~batch.running /\ ~input.suspended /\ ~input.destroyed
    /\ input' = [input EXCEPT !.suspended = TRUE]
    /\ \A d \in Devices : Released(d)
    /\ UNCHANGED <<libinput, data, out, batch, shown, keysDown, events, excused>>

Resume ==
    /\ ~batch.running /\ input.suspended /\ ~input.destroyed
    /\ \A d \in Devices : ~libinput[d].present
    /\ input' = [input EXCEPT !.suspended = FALSE]
    /\ UNCHANGED <<libinput, data, out, batch, shown, keysDown, events, excused>>

(* user_input_destroy: the data of all devices is freed without telling    *)
(* Flutter, but for the stylus.  What libinput releases first is dropped.  *)
UserInputDestroy ==
    LET gone == {d \in Devices : libinput[d].present}
    IN  /\ ~batch.running /\ ~input.destroyed
        /\ libinput' = [d \in Devices |-> Unplugged]
        /\ data' = [d \in Devices |-> IF d \in gone THEN NoData ELSE data[d]]
        /\ out' = EmitPointerEvents(out, FlattenSeq([i \in 1..Cardinality(gone) |->
                      StylusRemoved(SetToSeq(gone)[i])]))
        /\ input' = [input EXCEPT !.destroyed = TRUE, !.n_cursor_devices =
               @ - Cardinality({d \in gone : data[d].emitted})]
        /\ excused' = IF \E d \in gone : data[d].state = "freed"
                      THEN excused \cup {"freed"} ELSE excused
        /\ UNCHANGED <<batch, shown, keysDown, events>>

InputNext ==
    \/ BeginBatch \/ EndBatch \/ Suspend \/ Resume \/ UserInputDestroy
    \/ \E d \in Devices :
          \/ OnDeviceAdded(d) \/ OnDeviceRemoved(d) \/ OnEventOfFreed(d)
          \/ \E delta \in {-1, 1} : OnMouseMotion(d, delta)
          \/ \E pos \in 0..(DisplayWidth - 1) : OnMouseMotionAbsolute(d, pos)
          \/ \E b \in Buttons \cup {"other"}, p \in BOOLEAN : OnMouseButton(d, b, p)
          \/ \E f \in BOOLEAN, dx \in Axis, dy \in Axis : OnMouseAxis(d, f, dx, dy)
          \/ \E slot \in 0..(TouchCount[d] - 1) :
                OnTouchDown(d, slot) \/ OnTouchMotion(d, slot) \/ OnTouchUp(d, slot) \/ OnTouchCancel(d, slot)
          \/ OnTabletToolAxis(d) \/ OnTabletToolProximity(d)
          \/ \E down \in BOOLEAN : OnTabletToolTip(d, down)
          \/ \E key \in Keys, p \in BOOLEAN : OnKeyEvent(d, key, p)
-----------------------------------------------------------------------------
InputSpec == InputInit /\ [][InputNext]_inputVars

Idle == ~batch.running /\ out.buffer = <<>> /\ ~input.destroyed
Sees(id) == out.flutter[id]

(* Whatever the devices do and however the events are cut into buffers and *)
(* batches, Flutter sees for every device id: add first, nothing after     *)
(* remove, and pan gestures that are started, updated and ended.           *)
PointerProtocol ==
    \A id \in Ids : FlushPointerEvents(out).flutter[id] = "breach" => "freed" \in excused

(* Between batches Flutter sees as pressed what is pressed: touches, the   *)
(* stylus, the buttons of the one mouse cursor, the keys.  The code loses  *)
(* a cancelled touch, and two mice or two keyboards overrule each other    *)
(* while both are used; but also then nothing stays pressed for ever.      *)
PressedAgrees ==
    Idle /\ "freed" \notin excused =>
    /\ \A d \in Devices : data[d].state = "live" =>
        /\ "touch" \in Capabilities[d] => \A s \in 0..(TouchCount[d] - 1) :
              /\ s \in libinput[d].touched => Sees(data[d].touch_id + s) = "down"
              /\ s \notin libinput[d].touched =>
                    Sees(data[d].touch_id + s) = "up" \/ "cancelled" \in excused
        /\ "tablet" \in Capabilities[d] =>
              Sees(data[d].stylus_id) = IF libinput[d].tip THEN "down" ELSE "up"
        /\ libinput[d].buttons \cap Buttons # {} =>
              Sees(input.cursor_id) = "down" \/ "two mice" \in excused
        /\ data[d].keyboard => libinput[d].keys \subseteq keysDown \/ "two keyboards" \in excused
    /\ (\A d \in Devices : libinput[d].buttons \cap Buttons = {}) /\ input.cursor_id # -1 =>
          Sees(input.cursor_id) # "down"
    /\ \A key \in keysDown : \E d \in Devices : key \in libinput[d].keys

(* What Flutter sees of the devices is well-formed and true.               *)
PointersAgree == PointerProtocol /\ PressedAgrees

(* The devices counted as mice are the ones that spoke, and the cursor is  *)
(* shown exactly while there are any, where the input believes it to be.   *)
(* A batch that fails is cut off before the compositor is told, and a      *)
(* device that moves and leaves within one batch is forgotten.             *)
CursorInStep ==
    "freed" \notin excused =>
    /\ input.n_cursor_devices = Cardinality({d \in Devices : data[d].emitted})
    /\ Idle /\ "failed" \notin excused =>
        /\ shown.enabled <=> input.n_cursor_devices > 0
        /\ shown.enabled /\ "moved and left" \notin excused => shown.cursor = input.cursor
=============================================================================
