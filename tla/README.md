# flutter-pi in TLA+

flutter-pi runs Flutter applications on Linux without a window system: it loads
the Flutter engine, hands it buffers to draw into, puts those buffers on the
display through the kernel's modesetting interface (DRM/KMS), and serves the
engine's platform channels from plugins. This directory holds TLA+ models of the
parts of it whose correctness depends on the order in which threads, callbacks,
page flips and failures meet, the TLC runs that check them on small instances,
and TLAPS proofs for any instance.

`PROJECT.json` lists components, runs, mutants, hazards and theorems, and maps
every definition that models code to the lines it models.

## The system

Four kinds of threads matter:

| thread | runs |
|---|---|
| platform thread | `flutterpi_run`: the sd-event loop, plugins, page-flip events of the DRM fd |
| raster thread (engine) | fills backing stores, presents layers, commits |
| WebKit thread | one per process, draws web views and hands over their buffers |
| GStreamer and engine worker threads | post tasks, push video frames |

Components, their state, operations and what makes them correct:

| component | state | operations | must hold |
|---|---|---|---|
| frame scheduler (`frame_scheduler.c`) | `waiting_for_scanout`, one mailbox frame, one vsync baton, listeners | present frame, vsync request, on scanout, on present failed, add/cancel listener | one commit in flight; every frame, baton and listener settled exactly once; newest frame wins; nobody waits for a flip that is not coming (but see `frame_scheduler_lost_flip`) |
| Vulkan scanout buffers (`vk_gbm_render_surface.c`, `surface.c`) | pool of slots with `is_locked` and `n_refs`, front buffer, semaphore | fill, queue_present, snapshot, present, release | a slot is refilled only when nothing shows it; nothing is scanned out before it is rendered; every reference is dropped once |
| KMS window (`window.c`) | composition, render surface, cursor, mode | push composition, request repaint, set cursor, resize | a repaint shows what was last presented; the mode is set when needed |
| modesetting (`modesetting.c`) | planes, connectors, committed state, pending flips | build, commit and refuse requests, page-flip events, suspend/resume | a request lives until it left the screen; planes are not used twice; layer order is kept |
| compositor (`compositor_ng.c`) | platform view registry | present layers, create backing store, set/remove view | a view on screen is not freed |
| web view frames (`webview_direct.c`, `dmabuf_surface.c`) | waiting frame, completion tokens, buffer references | render_buffer, present, wait, flip, timeout, destroy | each frame is acknowledged once and its buffer returned once, not while shown |
| platform tasks (`flutter-pi.c`) | task list, deferred and timer sources, eventfd | post, post timed, dispatch, exit | no lost wake-up, order, run or freed once |
| plugin registry (`pluginregistry.c`), services | receivers, plugins, lock, clipboard | init/deinit all, set/remove receiver, dispatch message | a failed init undoes what was done; a message is answered once; what is pasted is what was copied |
| texture registry (`texture_registry.c`) | per texture: next frame, dirty | push, fetch, destroy | the engine is told of every newest frame; a frame is destroyed once, by its last holder |
| video player (`plugins/gstreamer_video_player`) | players by texture, wishes, pipeline, web questions | create, play, pause, seek, rate, bus messages, dispose | a failing step undoes the earlier ones; the pipeline follows the wishes; a question is answered once |
| notifiers (`notifier_listener.c`) | value, listeners | listen, notify, unlisten, deinit | a listener is told of the latest value and freed once |
| audio players (`plugins/audioplayers`) | players by name, source, wish to play, seek | calls, bus messages, events | the pipeline follows the last call although messages come late |
| user input, keyboard (`user_input.c`) | pointers per device, pressed keys, cursor, batch | libinput events, device add/remove, batch end | add before use, remove last; nothing stays pressed; the cursor is where the input thinks |
| text input (`plugins/text_input.c`) | text, selection, client | keys, method calls, updates | selection inside the text; plugin and text field agree |
| platform channels (`platformchannel.c`) | handler data of a message, response handles | encode, decode, raw readers, send, respond | size computed = bytes written; all readers agree; everything allocated is freed once |
| start-up and tear-down (`flutter-pi.c`) | everything above | `flutterpi_new_from_args`, `flutterpi_run`, `flutterpi_destroy` | every failure frees what was acquired, once |

How they meet: the raster thread fills slots and pushes a composition into the
window; the window builds a KMS request and gives it as a frame to the scheduler;
the scheduler commits it, or keeps it in its mailbox while another commit is in
flight; the kernel's page flip arrives on the platform thread, which calls back
through `drmdev_dispatch_page_flips`, `on_scanout` and the scheduler to the engine
(vsync) and to the web views (listeners). Releasing the request of the previous
flip releases its buffers, on whichever thread that happens to be. Web views push
buffers of WebKit into the same compositions and ask for a repaint.

Hard to get right: callbacks run without the lock and may re-enter; locals
survive an unlock; references are dropped without a lock; commits fail or flip
inside the commit call; flips race with timeouts; tasks arrive while the event
loop is about to sleep. The hazards in `PROJECT.json` name the lines.

## Modules

| module | models | extends |
|---|---|---|
| `FrameScheduler` | `frame_scheduler.c`, the callbacks of `window.c` and the dispatch of `modesetting.c` around it | |
| `FrameDisplay` | abstract: a display that shows submitted frames in order, and finally the newest | |
| `FrameSchedulerListenerHistory` | the scheduler with a history of listeners, for one finding | `FrameScheduler` |
| `FrameSchedulerProofs`, `WebviewFramesProofs`, `KmsRequestProofs` | inductive invariant and theorems | the module named, `TLAPS` |
| `PlatformThreadProofs` | inductive invariants and theorems of the task runner and of the user input | `PlatformTasks`, `UserInput`, `FoldTheorems`, `TLAPS` |
| `ScanoutCommitProofs`, `ScanoutBuffersProofs` | inductive invariant and the steps of requests; the steps of slots and surfaces, and theorems | `ScanoutBuffers`, `TLAPS` |
| `PluginProofs` | inductive invariants and theorems of receivers, exchanges, text input, textures, video events, both kinds of player and a web page's questions | `PluginReceivers`, `PlatformSend`, `TextInput`, `TextureRegistry`, `VideoEvents`, `VideoPlayer`, `AudioPlayer`, `WebCalls`, `FoldTheorems`, `TLAPS` |
| `FoldTheorems` | what `FoldLeft` and `FlattenSeq` do, for any operator; the proofs take an instance of it for each operator the models fold with | `TLAPS` |
| `ScanoutBuffers` | `vk_gbm_render_surface.c`, and `compositor_ng.c`, `window.c`, `modesetting.c`, `frame_scheduler.c` as far as they move buffers | |
| `WebviewFrames` | `webview_direct.c`, `dmabuf_surface.c`, and the request path a web view frame takes | |
| `PlatformTasks` | the event loop and task posting of `flutter-pi.c` | |
| `KmsRequest` | the request builder, commit and committed state of `modesetting.c`, the composition and cursor of `window.c` | |
| `StdCodec` | the standard codec of `platformchannel.c`: sizes, bytes, decoding | |
| `StdRaw` | the readers that walk an encoded buffer in place, comparison and lookups | `StdCodec` |
| `JsonText` | texts in JSON strings: what `platformchannel.c` escapes, what Flutter escapes and reads | |
| `JsonCodec` | the JSON codec: size, text, decoding | `JsonText` |
| `PlatformSend` | `platch_send`, the answer and every failure, for messages of any kind | |
| `PlatformChannel` | encoding of a whole message, and what the other side makes of it | `StdRaw`, `JsonCodec`, `PlatformSend` |
| `PluginReceivers` | `pluginregistry.c` without its messages: plugins that come, fail and go, and their receivers | |
| `PluginRegistry` | messages to the receivers, `plugins/services.c` | `PlatformChannel`, `PluginReceivers` |
| `TextInput` | `plugins/text_input.c` and the text field it serves | `JsonText` |
| `UserInput` | `user_input.c`, `user_input_scroll.c`, the key path of `keyboard.c`, the cursor callbacks of `flutter-pi.c` | |
| `GstPlayer` | one video player: wishes and pipeline (`player.c`) | |
| `VideoPlayer` | the video player plugin: creation, calls, disposal (`plugin.c`) | `GstPlayer` |
| `VideoEvents` | video info and buffering events, `notifier_listener.c` | |
| `WebCalls` | the questions a web page asks the app | |
| `TextureRegistry` | `texture_registry.c` with the engine's side of it | |
| `AudioPlayer` | one audio player and its pipeline | |
| `MC*` | instances for TLC | the module named |
| `MCSideBySide` | the platform side: nine parts that share no state, one per behaviour | the modules from `StdCodec` to `AudioPlayer` |

**FrameScheduler.** Each section between lock and unlock is one step; each
callback is a step of its own. A thread has a position `pc` and the C locals that
survive an unlock: the frame to commit (`cur`), the displaced frame (`drop`), the
baton to answer (`reply`), the listeners taken (`taken`), and the depth of nested
`on_scanout` activations (`acts`). A commit is accepted and flips later, flips at
once (legacy mode set), is refused, or loses its flip: a legacy mode set that works
while the query of the vblank after it fails returns success and never flips
(`modesetting.c:3274`). A baton is answered, or dropped without an answer when its
reply cannot be allocated or posted (`flutter-pi.c:542`). `life` is the reference
count as far as it can be told apart. History variables record what every frame,
baton and listener is still owed, and the batons dropped; `FlipLost` says that a
flip is lost.

**ScanoutBuffers.** Dropping a reference is not one step: decrement, clean-up,
clearing `is_locked` and dropping the surface are separate, so the raster thread
may search the pool between them. `todo[t]` is the call stack of thread `t`, read
from the inside out. The completion of a rendering is captured by an exported
fence or by waiting, every outcome of which is a choice. `image` is a ghost: the
number of the fill a layer refers to, so that re-use of a slot is visible. A
legacy commit may lose its flip here too: `lost` is its request. The commit gives
the frame's reference back (`fail_unref_builder`), so its buffers return to the pool
with the next composition although the display shows them, and what the scheduler
has queued behind it stays for ever. `screen` is `last_flipped`, what the driver
believes; after a lost flip the properties say nothing of what the display really
shows, since no request counts it.

**WebviewFrames.** A frame waits for the first of its flip, its 100 ms timeout,
the next frame, an error or the closing of the view. The completion token of a
frame is shared by the waiting frame and its callback; the callback is cancelled
or is on its way in three stages (taken from the scheduler's table, posted to the
WebKit thread, run). `holds` counts the references the surface and requests have
on a buffer.

**PlatformTasks.** The loop's states are those of sd-event; `sd_event_prepare`,
`sd_event_wait` and the choice of the source by priority are modelled from how
`flutterpi_run` uses them. A call of another thread is one step, because it is
one critical section. `armed` are the timers the kernel knows of: a timer added
while the loop is in `select` is not among them.

**KmsRequest.** A display controller is a record of planes (type, formats, zpos
range, rotation, fences, blend modes), chosen in `Init`. The ladder of
`allocate_plane` calls in `kms_req_builder_push_fb_layer` is a sequence of
demands, each a set of planes; the first that is not empty gives the plane. The
kernel applies the properties of an accepted request and keeps all others; it
must refuse a format or a zpos the plane does not have and may refuse anything.
`committed` is the program's idea of the planes, `kernel` the truth. While the
process is not DRM master another one may change planes and mode; `foreign` names
what it touched, and the properties except it: the program never reads the
display again, so a plane left on by another master stays on, and the mode is not
set again although `modesetting.h:779` says `set_mode` sets it regardless.
`lost` marks the states after a failed vblank query in a legacy mode set
(`modesetting.c:3274`), where the code returns success for a request it has
released; the properties except these too. Left out: coordinates, the position of
the cursor (a request committed late puts an older one back), debug-build checks,
planes of other CRTCs, `unset_mode` and placeholder layers, which have no caller.

**StdCodec, StdRaw, JsonCodec, PlatformSend, PlatformChannel.** A byte is `<<v, i, n>>`, byte i
of an item of n bytes, so an item can only be read at the place and in the length
it was written; reading anything else gives `Garbage`. The size pass, the write
pass, the decoder and the raw readers are four sets of operators, translated one
from each set of C functions, and compared with each other over values of every
type, alignments and size prefixes (`ByteSizes` and `ShortSizes` are where the
one-, three- and five-byte sizes begin: 254 and 65536 in the code). Numbers in
JSON keep `GDigits` digits, as `%g` does. A message that asks for an answer owns a
buffer, a response handle and the handler data; each call it makes may fail, and
one posted from another thread fails when it is too late to tell the caller.
`PlatformSend` takes the objects, the answers and what is read of an answer
(`Received`) as constants, so that it can be proved about apart from the codecs,
which recurse; in the run `Received` is `ReceivedAnswer` of `PlatformChannel`.

**PluginReceivers, PluginRegistry.** A message and all its receiver does is one action of the
platform thread. The init of a plugin is a sequence of receivers, any of which may
fail; what is undone then is written in each plugin. Open audio players put a
receiver of their own into the registry, which the plugin's end leaves there: the
property says so by name (`PlayerChannel`). `PluginReceivers` has the actions that
change receivers, and its specification is what is proved about; each action of
`PluginRegistry` is one of them or leaves `receiverVars` alone.

**GstPlayer, VideoPlayer.** An operation maps a player to the set of its outcomes,
one per answer GStreamer may give. `DesiredState` and `DesiredRate` put the wishes
together, `pipe` is what the pipeline was told; `applied` says that the last call
succeeded and `overruled` that an element changed the pipeline since.
`VideoPlayer` runs the plugin's handlers over several players, with a failure at
every step of `on_create`.

**VideoEvents.** Two threads complete the video info; the notifier calls the
listeners of the platform thread's event channel. `notifier_listen` is three
steps, as it holds no lock before the last. Where the code has a race that goes
wrong (the pointer to the listener is cleared by the notifying thread, the value
is read without the lock) `excuse` records that it happened, and the properties
except exactly these behaviours.

**WebCalls.** Ids are numbers of `IdBits` bits that wrap around past zero; four
questions meet three ids, so an id is used again while its first owner waits.
Tasks for the WebKit thread are a queue. `page` is what the page sees of each
question.

**TextureRegistry.** The engine draws on the raster thread: it is told of a frame,
fetches it in one step, as the callback takes the texture's lock for all it does,
and destroys what it holds at any later time. It may also fail to acquire what it
was given: then it destroys that frame two times for its one reference, as the
comment at `texture_registry.c:303` says (`twice` names these frames), and the
second time takes the reference the texture holds. When a freed frame is then
used the model stops, for the memory is somebody else's; every other frame is
destroyed once up to then, and `FramesDestroyedOnce` excepts the `twice` ones by
name.

**AudioPlayer.** `bus` holds the messages that wait for the platform thread.
`busy` is what GStreamer has not finished: preparing a source, or a seek.

**UserInput.** `libinput` is what the devices really do; `data`, `input`, `out` and
`keysDown` are what the program and Flutter make of it. A batch handles one event
after the other and may be cut off by an error. `excused` names the situations
in which the code is known to disagree: a touch that is cancelled (ignored by
`on_touch_cancel`), two mice or two keyboards with something pressed on both, a
batch that failed, a mouse that moves and leaves in one batch.

**TextInput.** The text field of Flutter is modelled from the protocol: it takes
over what the plugin sends and sends what else changes it. Symbols are one to four
bytes wide: the plugin compares a symbol index with a byte count in `model_delete`,
and a symbol of four bytes is two of Flutter's UTF-16 units. What the app puts into
its field (`FieldValues`) is any text with any two integers as its selection, -1
for none and places behind the end included, and the plugin takes them over as they
come (`text_input.c:325`): nothing converts units to symbols. `astray` says that the
last selection Flutter sent is not one within the text counted in symbols; until
it sends another, the plugin's selection is only what its editing functions make of
that. They may change it and answer that nothing happened, so `TextAgrees` then
promises the text alone. For texts without a four-byte symbol the places agree, for
others nothing is promised of them, and `text_input_units` shows the plugin
asked to erase behind the end of its text. `crossed` records that an update of one side met a change of the
other on its way; then the two exchange their texts and never agree by themselves.

Left out everywhere: contents of pixels and statistics, allocation failures that
only return an error, logging, tracing. `TypeOK` is in every module of the display
side and the first conjunct of its inductive invariant.

## Runs

| run | instance | shows |
|---|---|---|
| `frame_scheduler` | 3 threads, 3 frames, 1 baton, 1 listener | one commit in flight, nothing stranded, frames, batons and listeners settled once, mailbox order, no use after destroy; what is asked for is served, unless it waits behind a lost flip or its reply was dropped; the scheduler implements `FrameDisplay` |
| `frame_scheduler_next_flip` | 2 threads, 3 frames, 1 baton, 1 listener | violation: a listener may be called for a flip before its frame |
| `frame_scheduler_lost_flip` | as above | violation: `waiting_for_scanout` set and no commit in flight, after a mode set whose flip is lost |
| `scanout_buffers` | 2 threads, pool of 2, 3 fills, 3 requests, atomic | counts equal owners, images stay while referred to, nothing shown before it is rendered, clean slots |
| `scanout_buffers_legacy` | 2 surfaces of 1 slot, 2 layers, 2 requests, legacy | nested flips and a resize: life of the old surface, and everything comes back but what is queued behind a lost flip |
| `webview_frames` | 2 frames, 2 buffers | handed back once, never while shown, counts; every frame acknowledged, every buffer returned |
| `platform_tasks` | 4 tasks, one I/O event, eventfd limit 2 | no lost wake-up, order, one place per task; every task runs |
| `platform_tasks_timed_wake` | 4 tasks, limit 14, timed write 4 | violation: a full eventfd frees a timed task under its source |
| `kms_request` | 5 controllers of 3 planes, 3 compositions, 3 requests, 2 cursor buffers | the screen shows exactly the last accepted request, layers in order and blended, no blob or cursor buffer leaks or goes early |
| `kms_request_fb_list` | 1 controller, 1 composition, 3 requests | violation: two threads in the list of framebuffers |
| `side_by_side` | one part per behaviour, see below | the platform side |
| `text_input_units` | a symbol of two UTF-16 units, 1 key | violation: a backspace would erase behind the end of the text |

The parts of `side_by_side`:

| part | instance | shows |
|---|---|---|
| channel | one message, of any of the objects in `MCObjects`; 5 answers | `CodecAgrees`: what is measured is written, and decoder, raw readers and comparisons agree on it; `ExchangesAccounted`: each failure frees what the message owns, once |
| plugins | 3 plugins, 3 messages, 4 texts | `ReceiversMatchPlugins`: receivers are those of live plugins; `PlainTextPasted` |
| players | 2 players, one of them moved | `PlayersAccounted`: lists, receivers, views agree after any failure; `PlaybackFollows` |
| texture | 3 frames, 2 held by the engine, any of them not acquired | `FramesDestroyedOnce`, `LatestFrameAnnounced` |
| events | 3 listens | `EventsInStep`, `ListenersFreedOnce` |
| web | 4 questions, 3 ids, 2 tasks | `QuestionsAnsweredOnce` |
| audio | 2 sources and the empty one, 3 messages on the bus | `AudioFollows` |
| devices | 4 pairs of 6 devices, 5 events, 2 collected events | `PointersAgree`: well-formed pointers that are pressed as the devices are; `CursorInStep` |
| text | 2 clients, 1 edit, 2 keys | `TextAgrees` |

The parts share no state in the code either (but that all of them run on the
platform thread, which the actions say by being whole handlers), so one behaviour
needs only one of them; the instance is their disjoint union, and a property
speaks of its part and holds trivially in the other ones' behaviours.

Every property of a passing run has a mutant: a plausible bug in one mapped
definition that makes TLC find the property violated.

Bounds. Three frames are one on screen, one in flight and one in the mailbox,
which is everything the scheduler can hold; a fourth only repeats a displacement.
Three threads allow a commit, a displacement and a dispatch at once. One baton and
one listener meet each of the places where they can wait; more of them only wait
beside each other, and `FrameSchedulerProofs` covers any number. The two slots
of `scanout_buffers` are symmetric (`fill` may take any free one); two slots
with three fills make a slot go through its whole life and be taken again; three
requests are screen, flight and mailbox. Two web frames let a buffer come back for
the later one while the callback of the earlier one is still on its way, and have
one on screen with the other in flight; `WebviewFramesProofs` covers any number.
The controllers of `kms_request` differ in what decides the
choice of a plane: zpos ranges, fixed zpos, zpos out of the order of ids, none, and
the legacy interface; the compositions make each demand of the ladder fail once.
On the platform side, two players are one that moves and one that must not be
touched; three frames are one shown, one fetched and one pushed; three listens
are one that is told, one after a cancel and one that meets a notification; two
collected events make the buffer of a batch overflow in the middle of a batch;
five libinput events are enough for a press on each of two devices, the removal of
one and a release. Four tasks give two of each way. The eventfd's limit of 2 makes
its write fail in reach of TLC; the run of the finding keeps the ratio of the
code's two kinds of writes (1 and 2^56 of 2^64 - 2) in small numbers.
Deadlock is not checked: each model stops when its bounds are used up.

Fairness. Threads run (weak fairness of the steps of a thread that is inside a
call; nothing forces a client to call). The kernel completes every flip it was
asked for, and the event loop gets back to a readable fd among other events (strong
fairness of `OnEventFdReady`, as the loop dispatches every pending source once).
There are two things no fairness can help with, and the liveness properties name
them where they bite. A lost flip was never asked for: the baton, the frame and the
listeners that wait behind it stay (`FlipLost` in `EveryRequestServed`, `lost` in
`EverythingReleased`), and `ImplementsDisplay` counts it as the display broken, as a
refused commit, so it promises neither that the newest frame gets to the screen nor
that another does. And a reply that cannot be posted drops its baton (`dropped`).
The exceptions are exact: each excuses only what is in the mailbox, the baton slot
or the table at that moment, never what a thread holds.
In the web view run the display may stop flipping altogether; only WebKit's
thread, with its timer, and a started submission are fair. In the task run the
loop and time are fair. No fairness is put on failures.

## What is proved

Each theorem holds for every value of the constants, under the assumptions the
modules declare (the event loop is a thread, bounds are natural numbers, sets of
listeners are finite, frames and batons are non-zero numbers; for
`PlatformTasks` also that a timed wait of the loop is one of its timeouts; for
`KmsRequest` what `fetch_plane` asserts of a controller's planes, and that a frame of
Flutter's has a layer, as `compositor_ng.c:419` asserts; for `WebCalls` that ids of at
least one bit take more than one value; for `TextInput` only that texts are
sequences and selections integers). TLC
evaluates the assumptions in every run and has checked each inductive invariant
on the run's instance before it was proved.

| module | theorems | run properties |
|---|---|---|
| `FrameSchedulerProofs` | `TypeCorrect`, `OneCommitInFlight`, `NoneStranded`, `FramesOwnedOnce`, `FramesInOrder`, `CallbacksOnce`, `DestroyedForGood`, `SchedulerImplementsDisplay` | all safety of `frame_scheduler`; the safety part of `ImplementsDisplay` |
| `PlatformThreadProofs` | `TasksCorrect`, `WakeupNeverLost`, `PostedOrderKept`, `EveryTaskOwnedOnce` | `NoLostWakeup`, `TasksInOrder`, `TasksOwnedOnce` |
| `WebviewFramesProofs` | `WebviewCorrect`, `FramesHandedBackOnce`, `NoBufferReleasedWhileShown`, `WebviewCounts` | `HandedBackOnce`, `NotReleasedWhileShown`, `EverythingCounted` |
| `ScanoutBuffersProofs` | `ScanoutCorrect`, `CountsAlwaysMatch`, `ImagesNeverReused`, `DisplayAfterRender`, `PoolClean`, `SurfacesOutlive` | `CountsMatchOwners`, `ImagesStable`, `ScanoutAfterRender`, `CleanWhenFree`, `SurfaceOutlivesOwners` |
| `KmsRequestProofs` | `RequestsCorrect`, `ScreenShowsRequest`, `LayersInOrder`, `CursorsAndBlobsOwned`, `RequestsTyped` | `ScreenMatchesRequest`, `LayersComposed`, `ResourcesOwned` |
| `PluginProofs` | `TextureCorrect`, `EveryFrameDestroyedOnce`, `EveryFrameAnnounced` | `FramesDestroyedOnce`, `LatestFrameAnnounced` |
| `PluginProofs` | `EventsCorrect`, `AppInStep`, `EveryListenerFreedOnce` | `EventsInStep`, `ListenersFreedOnce` |
| `PluginProofs` | `VideoCorrect`, `EveryPlayerAccounted`, `PipelineFollows`, `AudioCorrect`, `PlayerFollowsWish` | `PlayersAccounted`, `PlaybackFollows`, `AudioFollows` |
| `PluginProofs` | `WebCallsCorrect`, `EveryQuestionAnsweredOnce` | `QuestionsAnsweredOnce` |
| `PlatformThreadProofs` | `InputCorrect`, `CursorFollows`, `PointersCorrect`, `PointersFollow` | `CursorInStep`, `PointersAgree` |
| `PluginProofs` | `ReceiversCorrect`, `ReceiversFollow` | `ReceiversMatchPlugins` |
| `PluginProofs` | `ExchangesCorrect`, `AnswersAccounted` | `ExchangesAccounted` |
| `PluginProofs` | `TextCorrect`, `TextFollows` | `TextAgrees` |

The arguments, and why each invariant is more than its properties:

* **Frame scheduler.** `IndInv` joins the invariants and `LocalsConsumed`, which
  ties each local that survives an unlock to the positions where it may be set.
  Without it a flip could find a second commit. The right to commit moves from
  the thread that set `waiting_for_scanout` to the kernel, to the recorded flip,
  to the thread that dispatches it, and these exclude one another; a lost flip
  ends it, with `waiting_for_scanout` left set. Order follows
  from the mailbox holding the newest frame. After destruction no thread is
  inside, no flip is outstanding and no failed commit is to be reported; that
  needs the same inventory. The refinement maps a step to a step of
  `FrameDisplay` or a stutter; what the abstract display may show next is the
  commit in flight, which the inventory makes unique.
* **Platform tasks.** `TasksFiled` says through which structure every waiting
  task can be found; `WakeupKept` that a queue with work has a wakeup pending
  unless the loop is already between its wait and its next look. The lists are
  related to the sets they hold by lemmas on appending, removing and counting.
* **Web view frames.** The counts are sums over the places a frame may be in
  (surface, request, mailbox, in flight, on screen, callbacks). The invariant
  fixes which places may name a frame at each position of WebKit's thread, and
  that a frame whose buffer was released is in none of them.
* **Scanout buffers.** A state is the stacks of calls that the threads are in the
  middle of, and the owners of a slot, surface or request are sets of names, some
  of them tasks on those stacks. `ScanoutInv` says which stacks the code can make
  (what a call rests on below it: `Shaped`), what a call under way implies of the
  state (`TasksFit`), that every count is the size of its set of owners, that one
  commit is under way exactly while `waiting` and no flip is lost, that reset and clear are on a stack
  exactly for a slot whose last owner has gone, and what is rendered. The lemmas
  on counting say by how much each part of a set of owners grows or shrinks when
  a thread replaces the top of its stack; a step then has one sum to check. An
  invariant without the stacks would fail at the first release in the middle of
  another: what keeps a surface alive there is the release further down.
* **KMS requests.** A request says at its commit what was true when it was built,
  so the invariant keeps what the builder promised with every request, wherever it
  waits (`Sane`: a plane of its own for every layer, the properties asked for, zpos
  or ids in order, the cursor on top). `StacksOK` says which tasks a thread may
  have left and that only the holder of the window fills the builder, without
  which a frame could be submitted empty. `KernelOK` relates every plane to the
  last accepted request and to `committed`, which is how the next commit finds the
  planes to switch off; it needs that on an atomic controller the last accepted
  request is the one in flight or on screen, so that the cursor it shows is owned.
  That each push and each roll back keep `Sane` are lemmas about the builder's
  operators. The proof showed that where there is no zpos the order of the ids is
  not enough for `LayersComposed`: the plane of a cursor is chosen without a look
  at ids, so `Orderly` asks that cursor planes come last.
* **Texture registry.** The count of a frame is the engine's holds and the
  texture's, unless the engine failed to acquire it; in a live texture a frame is still to be fetched only while it is
  dirty, and then the engine was told.
* **Video events.** What the app was told is what is known, up to the listener
  still on its way; at most one listener is alive at each stage of listening.
* **Players.** For the video plugin each player's pipeline is where its wishes
  together want it. For the audio player the invariant follows the asynchronous
  pipeline: stopped, opened with the change to READY on its bus, prerolling, or
  ready and up to date, with a bound on what may be on the bus behind it.
* **Web calls.** A question that was asked is in exactly one of four places: a
  table, the task queue, answered, lost. While there are ids for all of them the
  id of every question is its number, also in what the app remembers of old
  events, so an answer can only reach its own question. The task that destroys the
  view is the last the platform thread waits for, hence no window is loaded after.
* **User input.** What the compositor was told is the cursor as it is between
  batches and, within one, as it was when the batch began: that is what
  `user_input_on_fd_ready` compares with at its end. The devices counted as mice
  are the pointers with data that have spoken, whoever leaves first.
* **Pointers.** `PointersAgree` speaks of what Flutter knows once every collected
  event has reached it, a fold over the events. `PointersInv` says of that fold,
  for every live device, where each of its pointers is (`ScrollKnown`, `TouchKnown`,
  `StylusKnown`), for the cursor that it is down while somebody presses
  (`CursorKnown`), that no id has two owners (`IdsOK`) and that Flutter knows
  nothing of the ids not given yet (`Unused`), without which an added device could
  add a pointer twice. A step then appends a list of events, and the lemmas say
  what that list does to each pointer: one event, a range of ids, the phases of a
  scroll gesture, the styluses of all devices at the end. How the events are cut
  into buffers does not matter, because a fold over two lists one after the other
  is the fold of the second from the fold of the first. The proof showed that
  `PressedAgrees` must ask whether a device can touch before it speaks of its
  slots; the instance of the run has no touch slots on other devices.
* **Receivers.** `ReceiversInv` says that channels are in the list once and that,
  the players' apart, they are those of the plugins set up (`Live`). The set-up of a
  plugin is a fold that puts its receivers in, a failure one that takes them out,
  the start and the end of the registry folds over the plugins: each has an
  invariant of its own, carried along the list. `NoneBefore` says that a registry
  that has not started, or whose start failed, has none at all.
* **Exchanges.** While the engine has the handle, the handler is alive, the message
  went out and nobody was called; when it is released nothing happens any more.
  `ExchangeOK` says so of each exchange, and that a posted message has not been
  handed over yet.
* **Text input.** `OneSpeaks`: until updates cross, calls are under way in one
  direction only, the last one that sets a text says what its sender has, the last
  that sets a client names the field's, and when none is under way both sides
  have the same text up to what escaping does to it. That the texts then are equal
  for plain characters rests on lemmas on `FlattenSeq` and on the fold that reads
  an escaped text. A selection within the text stays within it through every editing
  function, which takes its lengths in bytes and in symbols (`TextSettled`); one that
  Flutter put elsewhere may be moved by a function that reports no change, which is
  why the agreement on places ends with it. What the two call a place differs by the
  four-byte symbols before it (`SamePlace`).

The library's induction theorems take an operator, which none of the provers can
use, so `FoldTheorems` derives an induction over sets of natural numbers
(`SetInduction`) from the library's theorems that `<` is well-founded and that a
non-empty set has a minimal element. What `FoldLeft` and `FlattenSeq` do follows
from it for sequences of every length.

Left to TLC: liveness and the fairness part of `ImplementsDisplay` (the prover
has neither), `EverythingReleased` of `ScanoutBuffers` among it; and everything in
the modules that recurse over nested values (`StdCodec`, `StdRaw`, `JsonCodec`, and
`PlatformChannel` and `PluginRegistry` above them, where the prover loses its
solver), so `CodecAgrees` and `PlainTextPasted`.

## Findings

* `frame_scheduler_next_flip`: `on_scanout` fires the listeners in a section of
  its own, so a listener added between the two is called for a flip that came
  before its frame, against the header's description. Web views tolerate it: the
  frame is acknowledged early.
* `platform_tasks_timed_wake`: posting a timed task from another thread writes
  the bytes 0,...,0,1, which is 2^56 and not 1 on little-endian machines. After
  255 unread writes the next fails, and the error path frees the task although
  its timer source is installed.
* `frame_scheduler_lost_flip`: in a legacy mode set that works, a failing
  `drmCrtcGetSequence` stores its error in an inner `ok` (`modesetting.c:3272`), so the
  commit gives up its request and returns 0. The scheduler keeps
  `waiting_for_scanout`, which `frame_scheduler.c:31` says means a commit in flight;
  nothing ever clears it and the display stands still.
* `text_input_units`: the plugin takes Flutter's UTF-16 offsets for indices of
  symbols, unchecked (`text_input.c:325`). Behind a symbol of two units a backspace
  asks `model_erase` for a range out of the one that `text_input.c:591` states, and
  nothing is erased.
* `kms_request_fb_list`: `modesetting.h:854` promises release callbacks the drmdev
  lock, and the cursor's callback changes `drmdev->fbs` on that promise; requests
  are in fact released without it, while the raster thread may be adding a
  framebuffer.

Seen and not checked by a run of their own (the properties except these by name,
or they are outside the models):

* Display. On controllers whose fixed zpos does not grow with the plane id, the
  fallback to the next id puts a layer below the previous one, against the comment
  at `modesetting.c:2786` (`LayersComposed` speaks of `Orderly` controllers for
  that reason). After a legacy mode set the time of the flip counts its seconds
  twice (`modesetting.c:3285`). The comment at `frame_scheduler.c:41` withholds the vsync
  answer on flips that present a queued frame, the code answers on every flip. A
  vsync reply that cannot be allocated or posted is dropped (`flutter-pi.c:542`), and
  the engine waits for it for ever.
  `window.c:1264` says the mode is set once, but `should_apply_mode` is never
  cleared. When building a request fails, `window.c:1331` returns the 0 left in
  `ok`. `egl_gbm_render_surface.c:694` returns with the surface locked.
* Event loop. `flutterpi_sd_event_add_io` returns with the mutex held when
  `sd_event_add_io` fails on another thread (`flutter-pi.c:739`).
* Channels. The first byte of a standard answer is tested the wrong way round
  (`platformchannel.c:950` against `:1092`); no caller asks for such an answer. A
  quote is escaped as `\t`. Maps never compare equal. A message posted from another
  thread returns 0 before its handle exists. The raw check reads the padding
  before a float64 without a bound.
* Plugins. A receiver that returns an error after it answered reaches a second
  unlock (`pluginregistry.c:177`); the video player's handlers do that with
  `EINVAL`. The audio players' end leaves their event receivers in the registry,
  which asserts that there are none (`pluginregistry.c:133`). `on_initialize`
  answers a failure with the helper of the other codec. The handlers of the first
  channel report success whatever happened.
* Texture. When the engine fails to acquire a frame it destroys it twice
  (`texture_registry.c:303`, where the authors expect a segfault), and the second
  time drops the reference that the texture holds (`texture_registry.c:63`).
* Video. `web_navigation_delegate` and `do_fast_seeking` are read before they are
  set. If seeking cannot be queried once after the duration is known, "initialized"
  is never sent. A looping seek leaves `fallback_position_ms` as it was, against
  `player.c:150`. `plugin.c:324` clears the listener "so we don't unlisten to it
  twice" without a lock. `on_create_v2` leaks its strings on wrong arguments.
  `notifier_listen` shows the value before it adds the listener.
* Audio. The refresh timer meant to "emit recurring events"
  (`audioplayers/player.c:138`) is attached to a GLib context nobody runs. The bus
  source is not removed when a player is destroyed, and its entry leaks. A source
  that failed is reported as prepared when it is set again. An end of stream that
  waits while the player is paused restarts a looping one.
* Input. A touch that is cancelled stays down. What is released when the input is
  destroyed is never reported to Flutter. A batch that fails after a motion
  does not tell the compositor of the cursor. `model_delete` compares symbols with
  bytes. `rawkb_on_key_event` has no caller.

## Plan

The modules of the platform side are written. What may still be added, in this
order: the EGL surface as a variant of `ScanoutBuffers` (releases deferred to the
raster thread, at most eight), the error ladder of `flutterpi_new_from_args`, and
the compositor's platform views with their cursor requests.

## Not modelled

Driver and context set-up (`gl_renderer.c`, `vk_renderer.c`, `vk_queue_sync.c`),
the web view's GPU copy (one thread, one pass per frame), the dummy surface,
cursor pixels, the wait for a display (one thread, before anything else runs),
path and locale parsing, tracing and `event_loop.c` (not built): straight-line
calls with no state that another step could meet. Of the plugins that answer each
message with one library call only the receivers are modelled. The pipelines that
the players build, the tables of xkbcommon and jsmn's tokenizer are other
projects' code and enter as what the source relies on.
