---------------------------- MODULE WebviewFrames ----------------------------
(***************************************************************************)
(* A WPE WebKit view on a display plane:                                   *)
(* src/plugins/gstreamer_video_player/webview_direct.c (which paces WebKit *)
(* by the page flip) and src/dmabuf_surface.c (which puts WebKit's own     *)
(* buffers on the plane).                                                  *)
(*                                                                         *)
(* A frame is one call of render_buffer.  WebKit must be told twice about  *)
(* it: wpe_view_buffer_rendered, after which it draws the next frame, and  *)
(* wpe_view_buffer_released, after which it draws into the same buffer.    *)
(* The first comes with the frame's completion callback at a page flip,    *)
(* with a timeout, with the next frame, with an error or with the closing  *)
(* of the view, whichever is first, and the losers of that race arrive     *)
(* later.  The second comes with the first for a frame that was copied and *)
(* with the last reference to the framebuffer for one that is scanned out. *)
(*                                                                         *)
(* The WebKit thread runs one callback of its main context at a time; pc   *)
(* is where it is inside render_buffer.  The display side (the scheduler's *)
(* mailbox, the commit in flight, what is on screen, the scanout           *)
(* listeners) is the behaviour that FrameScheduler.tla describes in        *)
(* detail, one step per commit or flip.                                    *)
(***************************************************************************)
EXTENDS Naturals, Sequences, FiniteSets

CONSTANTS
    Buffers,     \* WebKit's dma-bufs
    MaxFrames    \* bound on the frames WebKit draws

ASSUME MaxFramesAssumption == MaxFrames \in Nat

VARIABLES
    pc, cur,                       \* WebKit thread inside render_buffer
    frames, bufOf,                 \* frames so far, and their buffers
    waiting, onscreen, timer,      \* waiting_buffer/completion, waiting_on_screen, waiting_timeout
    tokens,                        \* n_refs of every frame's struct frame_completion
    view, vrefs, scanout,          \* web_view # NULL, n_refs, view->scanout
    nextBuf, holds, import, importFailed,  \* the dmabuf_surface and its refcounted buffers
    building, mailbox, flight, screen,  \* WebKit frame in the request there, 0: none in it
    listening, taken, posted,      \* completion callbacks: registered, being called, on the context
    releases,                      \* release_scanout_on_thread on the context
    rendered, released,            \* history: how often WebKit was told
    called, why                    \* history: callbacks that ran, what finished the frame

webkit == <<pc, cur, frames, bufOf>>
waitVars == <<waiting, onscreen, timer>>
viewVars == <<view, vrefs, scanout>>
surfVars == <<nextBuf, holds, import, importFailed>>
pipeVars == <<building, mailbox, flight, screen>>
cbVars == <<listening, taken, posted>>
history == <<rendered, released, called, why>>
vars == <<webkit, waitVars, tokens, viewVars, surfVars, pipeVars, cbVars,
          releases, history>>

Frames == 1 .. MaxFrames
NoRequest == MaxFrames + 1        \* no request in that place
Copied == MaxFrames + 2           \* next_buf is a copy of a WebKit buffer

Causes == {"none", "flip", "timeout", "next", "error", "closed"}

TypeOK ==
    /\ pc \in {"loop", "present", "wait", "repaint"} /\ cur \in 0 .. MaxFrames
    /\ frames \in 0 .. MaxFrames /\ bufOf \in [Frames -> SUBSET Buffers]
    /\ waiting \in 0 .. MaxFrames /\ onscreen \in BOOLEAN /\ timer \in BOOLEAN
    /\ tokens \in [Frames -> 0 .. 2]
    /\ view \in {"open", "closed", "dropped"} /\ vrefs \in 0 .. MaxFrames + 1
    /\ scanout \in BOOLEAN
    /\ nextBuf \in 0 .. MaxFrames \cup {Copied} /\ holds \in [Frames -> 0 .. 5]
    /\ import \in [Frames -> {"no", "yes", "failed"}] /\ importFailed \in BOOLEAN
    /\ {building, mailbox, flight, screen} \subseteq 0 .. NoRequest
    /\ listening \subseteq Frames /\ taken \subseteq Frames /\ posted \subseteq Frames
    /\ releases \subseteq Frames
    /\ rendered \in [Frames -> 0 .. 2] /\ released \in [Frames -> 0 .. 2]
    /\ called \subseteq Frames /\ why \in [Frames -> Causes]

Init ==
    /\ pc = "loop" /\ cur = 0
    /\ frames = 0 /\ bufOf = [f \in Frames |-> {}]
    /\ waiting = 0 /\ onscreen = FALSE /\ timer = FALSE
    /\ tokens = [f \in Frames |-> 0]
    /\ view = "open" /\ vrefs = 1
    /\ scanout \in BOOLEAN
    /\ nextBuf = 0 /\ holds = [f \in Frames |-> 0]
    /\ import = [f \in Frames |-> "no"] /\ importFailed = FALSE
    /\ building = NoRequest /\ mailbox = NoRequest
    /\ flight = NoRequest /\ screen = NoRequest
    /\ listening = {} /\ taken = {} /\ posted = {}
    /\ releases = {}
    /\ rendered = [f \in Frames |-> 0] /\ released = [f \in Frames |-> 0]
    /\ called = {} /\ why = [f \in Frames |-> "none"]

-----------------------------------------------------------------------------
(* Completion tokens and views.                                            *)

(* completion_unref of every frame in S (and once more of those in S2):    *)
(* the last reference to a token drops its reference to the view.          *)
DropTokens(S, S2) ==
    LET left == [f \in Frames |-> tokens[f] - Cardinality({f} \cap S)
                                            - Cardinality({f} \cap S2)]
    IN  /\ tokens' = left
        /\ vrefs' = vrefs - Cardinality({f \in S \cup S2 : left[f] = 0})

(* finish_waiting_frame, on the WebKit thread.  S are callbacks whose      *)
(* reference the caller drops afterwards.  The callback is cancelled if it *)
(* is still registered, and its reference dropped here; if not, it is on   *)
(* its way and drops its reference itself.  A buffer on the display is     *)
(* released by the display.                                                *)
Waiting == {waiting} \ {0}
HandBack(cause, cancelled, S, back) ==
    /\ listening' = listening \ Waiting
    /\ DropTokens(Waiting, cancelled \cup S)
    /\ waiting' = 0 /\ onscreen' = FALSE /\ timer' = FALSE
    /\ rendered' = [f \in Frames |-> rendered[f] + Cardinality({f} \cap Waiting)]
    /\ released' = [f \in Frames |-> released[f] + Cardinality({f} \cap back)]
    /\ why' = [f \in Frames |-> IF f \in Waiting THEN cause ELSE why[f]]

(* Mutants: the callback's reference is never dropped; the buffer is       *)
(* released while on screen.                                               *)
MutFinishLeaks(cause, S) ==
    HandBack(cause, {}, S, IF onscreen THEN {} ELSE Waiting)
MutFinishReleases(cause, S) ==
    HandBack(cause, Waiting \cap listening, S, Waiting)

FinishWaitingFrame(cause, S) ==
    HandBack(cause, Waiting \cap listening, S, IF onscreen THEN {} ELSE Waiting)

(* What finish_on_thread does for the callback of frame f.                 *)
FinishOnThread(f) ==
    IF waiting = f THEN FinishWaitingFrame("flip", {f})
    ELSE /\ DropTokens({f}, {})
         /\ UNCHANGED <<listening, waitVars, rendered, released, why>>

-----------------------------------------------------------------------------
(* refcounted_dmabuf: references are the surface's next_buf and the KMS    *)
(* requests.  The last one removes the framebuffer and then releases the   *)
(* buffer to WebKit, on WebKit's context.                                  *)

(* The references in the places `out` are given up for those in `in`.      *)
Refs(f, places) == Cardinality({i \in DOMAIN places : places[i] = f})
MoveHolds(out, in) ==
    holds' = [f \in Frames |-> holds[f] + Refs(f, in) - Refs(f, out)]
DroppedHolds == {f \in Frames : holds[f] > 0 /\ holds'[f] = 0}

-----------------------------------------------------------------------------
(* render_buffer on the WebKit thread.                                     *)

Free(b) == \A f \in Frames : b \in bufOf[f] => released[f] > 0

(* flutterpi_wpe_view_render_buffer: a closing view hands the buffer       *)
(* straight back; otherwise an unfinished frame is finished first.         *)
RenderBuffer(b) ==
    LET f == frames + 1
    IN  /\ pc = "loop"
        /\ frames < MaxFrames
        /\ Free(b)
        /\ frames' = f
        /\ bufOf' = [bufOf EXCEPT ![f] = {b}]
        /\ \/ /\ view = "open"
              /\ FinishWaitingFrame("next", {})
              /\ pc' = "present" /\ cur' = f
           \/ /\ view # "open"
              /\ rendered' = [rendered EXCEPT ![f] = @ + 1]
              /\ released' = [released EXCEPT ![f] = @ + 1]
              /\ why' = [why EXCEPT ![f] = "closed"]
              /\ UNCHANGED <<pc, cur, waitVars, listening, tokens, vrefs>>
        /\ UNCHANGED <<view, scanout, surfVars, pipeVars, taken, posted, releases, called>>

(* present_frame: the buffer itself goes to the surface (try_scanout), or  *)
(* a copy of it, or nothing.  A failed import turns scanout off for good.  *)
(* The buffer that next_buf held is released at once when no request has   *)
(* it: this is WebKit's own thread.                                        *)
PresentFrame ==
    /\ pc = "present"
    /\ pc' = "wait"
    /\ \/ /\ UNCHANGED <<nextBuf, onscreen, scanout, importFailed>>  \* not one dma-buf plane
       \/ /\ scanout /\ ~importFailed                  \* dmabuf_surface_push_dmabuf
          /\ nextBuf' = cur
          /\ onscreen' = TRUE
          /\ UNCHANGED <<scanout, importFailed>>
       \/ /\ importFailed' = FALSE
          /\ scanout' \in {b \in BOOLEAN : b => scanout /\ ~importFailed}
          /\ nextBuf' \in {Copied, nextBuf}            \* copied, or the copy failed
          /\ UNCHANGED onscreen
    /\ MoveHolds(<<nextBuf>>, <<nextBuf'>>)
    /\ released' = [f \in Frames |-> released[f] + Cardinality({f} \cap DroppedHolds)]
    /\ UNCHANGED <<cur, frames, bufOf, waiting, timer, tokens, view, vrefs, import, pipeVars,
                   cbVars, releases, rendered, called, why>>

(* Mutant: the 100 ms timeout is not armed.                                *)
MutWaitNoTimer ==
    /\ pc = "wait"
    /\ building = NoRequest
    /\ \/ /\ pc' = "repaint"
          /\ waiting' = cur /\ UNCHANGED timer
          /\ tokens' = [tokens EXCEPT ![cur] = 2]
          /\ vrefs' = vrefs + 1
          /\ listening' = listening \cup {cur}
          /\ UNCHANGED <<onscreen, rendered, released, why>>
       \/ /\ pc' = "loop"
          /\ onscreen' = FALSE
          /\ rendered' = [rendered EXCEPT ![cur] = @ + 1]
          /\ released' = [released EXCEPT ![cur] = @ + IF onscreen THEN 0 ELSE 1]
          /\ why' = [why EXCEPT ![cur] = "error"]
          /\ UNCHANGED <<waiting, timer, tokens, vrefs, listening>>
    /\ UNCHANGED <<cur, frames, bufOf, view, scanout, surfVars, pipeVars, taken, posted,
                   releases, called>>

(* wait_for_frame up to the registration in window_request_repaint, which  *)
(* takes the window lock and keeps it until the push is done.              *)
(* Without a composition, or with a full listener table, nothing is        *)
(* registered: the callback's reference is dropped and the frame finished. *)
WaitForFrame ==
    /\ pc = "wait"
    /\ building = NoRequest
    /\ \/ /\ pc' = "repaint"
          /\ waiting' = cur /\ timer' = TRUE
          /\ tokens' = [tokens EXCEPT ![cur] = 2]
          /\ vrefs' = vrefs + 1
          /\ listening' = listening \cup {cur}
          /\ UNCHANGED <<onscreen, rendered, released, why>>
       \/ /\ pc' = "loop"
          /\ onscreen' = FALSE
          /\ rendered' = [rendered EXCEPT ![cur] = @ + 1]
          /\ released' = [released EXCEPT ![cur] = @ + IF onscreen THEN 0 ELSE 1]
          /\ why' = [why EXCEPT ![cur] = "error"]
          /\ UNCHANGED <<waiting, timer, tokens, vrefs, listening>>
    /\ UNCHANGED <<cur, frames, bufOf, view, scanout, surfVars, pipeVars, taken, posted,
                   releases, called>>

-----------------------------------------------------------------------------
(* Pushing the window's composition, in which the view is a layer.         *)

(* dmabuf_surface_present_kms: what the request shows of the view.  Nothing *)
(* before the first buffer or when the buffer cannot be imported.          *)
Importable == {f \in Frames : import[f] # "failed"}
PresentKms(shown) ==
    \/ /\ nextBuf \notin Importable
       /\ shown = 0
       /\ importFailed' \in {importFailed, nextBuf = Copied \/ importFailed}
       /\ UNCHANGED import
    \/ /\ nextBuf \in Importable
       /\ shown = nextBuf
       /\ import' = [import EXCEPT ![nextBuf] = "yes"]
       /\ UNCHANGED importFailed
    \/ /\ nextBuf \in Importable
       /\ import[nextBuf] = "no"
       /\ shown = 0
       /\ import' = [import EXCEPT ![nextBuf] = "failed"]
       /\ importFailed' = TRUE

(* The request, which leaves the places `from`, waits for the commit in    *)
(* flight, displacing what waited there, or is accepted, or does not get   *)
(* to the display.                                                         *)
Queue(shown, from) ==
    /\ flight # NoRequest
    /\ mailbox' = shown
    /\ MoveHolds(from \o <<mailbox>>, <<shown>>)
    /\ UNCHANGED <<flight, screen>>
Accept(shown, from) ==
    /\ flight = NoRequest
    /\ flight' = shown
    /\ MoveHolds(from, <<shown>>)
    /\ UNCHANGED <<mailbox, screen>>
Discard(from) ==
    /\ MoveHolds(from, <<>>)
    /\ UNCHANGED <<mailbox, flight, screen>>

(* The rest of window_request_repaint, on the WebKit thread.  A refused    *)
(* commit calls the listeners on this thread, and a callback for the       *)
(* context it owns runs at once.  An error before the commit cancels the   *)
(* listener and finishes the frame, unless a flip has taken the listener.  *)
(* A request that cannot be allocated is dropped without an error.         *)
Repaint ==
    /\ pc = "repaint"
    /\ pc' = "loop" /\ cur' = 0
    /\ \/ /\ \E shown \in 0 .. MaxFrames :
                 /\ PresentKms(shown)
                 /\ Queue(shown, <<>>) \/ Accept(shown, <<>>) \/ Discard(<<>>)
          /\ released' = [f \in Frames |-> released[f] + Cardinality({f} \cap DroppedHolds)]
          /\ UNCHANGED <<waitVars, tokens, vrefs, listening, rendered, called, why>>
       \/ /\ flight = NoRequest                        \* refused
          /\ \E shown \in 0 .. MaxFrames : PresentKms(shown)
          /\ Discard(<<>>)
          /\ called' = called \cup listening
          /\ IF cur \in listening THEN FinishWaitingFrame("flip", {})
             ELSE UNCHANGED <<waitVars, tokens, vrefs, listening, rendered, released, why>>
       \/ /\ \/ \E shown \in 0 .. MaxFrames : PresentKms(shown)
             \/ UNCHANGED <<import, importFailed>>
          /\ Discard(<<>>)
          /\ IF cur \in listening THEN FinishWaitingFrame("error", {})
             ELSE UNCHANGED <<waitVars, tokens, vrefs, listening, rendered, released, why>>
          /\ UNCHANGED called
    /\ UNCHANGED <<frames, bufOf, view, scanout, nextBuf, building, taken, posted, releases>>

FireListeners ==
    /\ taken' = taken \cup listening
    /\ listening' = {}

(* Another thread pushes a composition, a Flutter frame or another view's  *)
(* repaint: under the window lock it builds the request ...                *)
BuildRequest ==
    /\ pc # "repaint" /\ building = NoRequest
    /\ \E shown \in 0 .. MaxFrames : PresentKms(shown) /\ building' = shown
    /\ MoveHolds(<<>>, <<building'>>)
    /\ UNCHANGED <<webkit, waitVars, tokens, viewVars, nextBuf, mailbox, flight, screen,
                   cbVars, releases, history>>

(* ... and submits it; a commit that is refused calls the listeners.       *)
SubmitRequest ==
    /\ building # NoRequest
    /\ building' = NoRequest
    /\ \/ /\ \/ Queue(building, <<building>>)
             \/ Accept(building, <<building>>)
             \/ Discard(<<building>>)
          /\ UNCHANGED <<taken, listening>>
       \/ /\ flight = NoRequest
          /\ Discard(<<building>>)
          /\ FireListeners
    /\ releases' = releases \cup DroppedHolds
    /\ UNCHANGED <<webkit, waitVars, tokens, viewVars, nextBuf, import, importFailed,
                   posted, history>>

(* A page flip: the request on screen is retired, the queued one committed *)
(* (or refused), and the listeners are called.                             *)
Flip ==
    /\ flight # NoRequest
    /\ screen' = flight
    /\ mailbox' = NoRequest
    /\ \/ /\ flight' = mailbox
          /\ MoveHolds(<<screen>>, <<>>)
       \/ /\ flight' = NoRequest
          /\ MoveHolds(<<screen, mailbox>>, <<>>)
    /\ releases' = releases \cup DroppedHolds
    /\ FireListeners
    /\ UNCHANGED <<webkit, waitVars, tokens, viewVars, nextBuf, import, importFailed,
                   building, posted, history>>

(* on_frame_scanout on the display thread                                  *)
OnFrameScanout(f) ==
    /\ f \in taken
    /\ taken' = taken \ {f}
    /\ posted' = posted \cup {f}
    /\ called' = called \cup {f}
    /\ UNCHANGED <<webkit, waitVars, tokens, viewVars, surfVars, pipeVars, listening,
                   releases, rendered, released, why>>

-----------------------------------------------------------------------------
(* Callbacks of the WebKit thread's main context.                          *)

RunFinish(f) ==
    /\ pc = "loop"
    /\ f \in posted
    /\ posted' = posted \ {f}
    /\ FinishOnThread(f)
    /\ UNCHANGED <<webkit, view, scanout, surfVars, pipeVars, taken, releases, called>>

OnFrameTimeout ==
    /\ pc = "loop"
    /\ timer
    /\ FinishWaitingFrame("timeout", {})
    /\ UNCHANGED <<webkit, view, scanout, surfVars, pipeVars, taken, posted, releases, called>>

(* Mutant: the release source stays on the context.                        *)
MutRunReleaseAgain(f) ==
    /\ pc = "loop"
    /\ f \in releases
    /\ released' = [released EXCEPT ![f] = @ + 1]
    /\ UNCHANGED <<webkit, waitVars, tokens, viewVars, surfVars, pipeVars, cbVars,
                   releases, rendered, called, why>>

(* release_scanout_on_thread                                               *)
RunRelease(f) ==
    /\ pc = "loop"
    /\ f \in releases
    /\ releases' = releases \ {f}
    /\ released' = [released EXCEPT ![f] = @ + 1]
    /\ UNCHANGED <<webkit, waitVars, tokens, viewVars, surfVars, pipeVars, cbVars,
                   rendered, called, why>>

(* webview_direct_destroy: destroy_on_thread ...                           *)
DestroyOnThread ==
    /\ pc = "loop"
    /\ view = "open"
    /\ view' = "closed"
    /\ FinishWaitingFrame("closed", {})
    /\ UNCHANGED <<webkit, scanout, surfVars, pipeVars, taken, posted, releases, called>>

(* ... then the caller drops its reference, and its surface's buffer.      *)
DropView ==
    /\ view = "closed"
    /\ view' = "dropped"
    /\ vrefs' = vrefs - 1
    /\ nextBuf' = 0
    /\ MoveHolds(<<nextBuf>>, <<>>)
    /\ releases' = releases \cup DroppedHolds
    /\ UNCHANGED <<webkit, waitVars, tokens, scanout, import, importFailed, pipeVars,
                   cbVars, history>>

WebKitThread ==
    \/ PresentFrame \/ WaitForFrame \/ Repaint \/ OnFrameTimeout
    \/ \E f \in Frames : RunFinish(f) \/ RunRelease(f)

Next ==
    \/ WebKitThread
    \/ \E b \in Buffers : RenderBuffer(b)
    \/ BuildRequest \/ SubmitRequest
    \/ Flip
    \/ \E f \in Frames : OnFrameScanout(f)
    \/ DestroyOnThread
    \/ DropView

Spec == Init /\ [][Next]_vars

(* The WebKit thread runs its callbacks and its timers, a thread that holds *)
(* the window lock goes on, and the WebKit thread gets the window lock that *)
(* others keep taking and giving back.  Nothing is assumed of the display. *)
FairSpec ==
    /\ Spec
    /\ WF_vars(WebKitThread)
    /\ SF_vars(WaitForFrame)
    /\ WF_vars(SubmitRequest)

-----------------------------------------------------------------------------
(* Properties.                                                             *)

(* WebKit is told about each frame at most once each way, and gets a       *)
(* buffer back only after it was told that the frame is rendered, whichever *)
(* of flip, timeout, next frame, error and closing comes first; and a late *)
(* callback never finishes a newer frame.                                  *)
HandedBackOnce ==
    \A f \in Frames :
        /\ rendered[f] <= 1 /\ released[f] <= rendered[f]
        /\ why[f] = "flip" => f \in called

(* A buffer that a request or the surface still holds is never back with   *)
(* WebKit, which would draw into what the display shows.                   *)
NotReleasedWhileShown ==
    \A f \in Frames :
        f \in {nextBuf, building, mailbox, flight, screen} => released[f] = 0

(* The completion token is referenced by the waiting frame and by the one  *)
(* callback that is registered, being called or queued: it is freed once,  *)
(* after both, and every token keeps the view's state alive.               *)
TokensCounted ==
    /\ \A f \in Frames :
           tokens[f] = Cardinality({x \in {"waiting"} : waiting = f})
                       + Cardinality({x \in {"callback"} : f \in listening \cup taken \cup posted})
    /\ vrefs = Cardinality({f \in Frames : tokens[f] > 0})
               + Cardinality({x \in {"owner"} : view # "dropped"})

(* References to a buffer are the surface's and the requests'.             *)
HoldsCounted ==
    \A f \in Frames :
        holds[f] = Refs(f, <<nextBuf, building, mailbox, flight, screen>>)

(* Completions, the view and the buffers are counted exactly.              *)
EverythingCounted == TokensCounted /\ HoldsCounted

(* Every frame is acknowledged, also when no flip ever comes, so WebKit    *)
(* never stalls.                                                           *)
EveryFrameRendered ==
    \A f \in Frames : bufOf[f] # {} ~> rendered[f] = 1

(* A buffer that the display no longer holds goes back to WebKit.          *)
EveryBufferReleased ==
    \A f \in Frames : (bufOf[f] # {} /\ rendered[f] = 1 /\ holds[f] = 0) ~> released[f] = 1

(* WebKit gets an answer for every frame and every buffer back.            *)
FramesComeBack == EveryFrameRendered /\ EveryBufferReleased

=============================================================================
