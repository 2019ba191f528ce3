------------------------------- MODULE WebCalls -------------------------------
(***************************************************************************)
(* The questions a web page asks the app (plugins/gstreamer_video_player,  *)
(* player.c): calls of JavaScript handlers, which wait for a reply, and    *)
(* navigations, which wait for a decision.  Each gets an id, waits in a    *)
(* table, and is told to the app as an event; WebKit's objects are only    *)
(* touched by tasks on the WebKit thread, which run in the order they were *)
(* queued.                                                                 *)
(***************************************************************************)
EXTENDS Integers, Sequences, FiniteSets, SequencesExt

CONSTANTS
    MaxQuestions,
    IdBits,         \* the width of an id, 32 in the code
    MaxTasks        \* answers that wait for the WebKit thread when the app gives another

ASSUME WebBounds == MaxQuestions \in Nat /\ IdBits \in Nat \ {0} /\ MaxTasks \in Nat \ {0}
\* Arithmetic that holds of every such width.
ASSUME IdsAssumption == 2 ^ IdBits \in Nat \ {0, 1}

VARIABLES
    page,       \* [kind, app, disposed, mixed] of every question: how often it was answered
                \* by the app or because the view went, and whether by an answer to another
    player,     \* alive, closing, closed, freed
    replies,    \* pending_web_replies: pairs <<id, question>>
    decisions,  \* pending_web_decisions, likewise
    next_web_call_id,
    delegate,   \* web_navigation_delegate
    tasks,      \* of the WebKit thread: [q, by, mixed, loads]; q = 0 destroys the view
    event,      \* the last event: <<id, question>>, or <<>> for another one
    listening,  \* whether the app listens to the events
    app,        \* the pairs the app was told of
    leaked      \* questions whose answer there was no memory for

webVars ==
    <<page, player, replies, decisions, next_web_call_id, delegate, tasks, event, listening, app, leaked>>

Questions == 1..MaxQuestions
NotAsked == [kind |-> "none", app |-> 0, disposed |-> 0, mixed |-> FALSE]
Asked == {q \in Questions : page[q].kind # "none"}
CallIds == 1..(2 ^ IdBits - 1)

(* gstplayer_new leaves web_navigation_delegate as malloc gave it.         *)
WebInit ==
    /\ page = [q \in Questions |-> NotAsked]
    /\ player = "alive"
    /\ replies = {} /\ decisions = {}
    /\ next_web_call_id = 1
    /\ delegate \in BOOLEAN
    /\ tasks = <<>> /\ event = <<>>
    /\ listening = FALSE /\ app = {} /\ leaked = {}

Viewed == player \in {"alive", "closing"}

(* notify_web_event, notify_web_history and the navigation's own event.    *)
(* There may be no memory for it.                                          *)
NotifyWebEvent(e) ==
    \/ event' = e /\ app' = (IF listening /\ e # <<>> THEN app \cup {e} ELSE app)
    \/ UNCHANGED <<event, app>>

(* on_web_load_changed, on_web_load_failed, on_web_javascript_message,     *)
(* on_web_history_changed, on_web_uri_changed, on_web_process_terminated.  *)
OtherEvent ==
    /\ Viewed /\ NotifyWebEvent(<<>>)
    /\ UNCHANGED <<page, player, replies, decisions, next_web_call_id, delegate, tasks, listening, leaked>>

Skipped(id) == IF id = 0 THEN 1 ELSE id
At(table, id) == {p \in table : p[1] = id}
AskedIn(table) == {p[2] : p \in table}

(* A question gets the next id that is not 0 and tells the app.  When the  *)
(* ids have been used up another may still wait under it: it is answered   *)
(* as if the view were gone, right here on WebKit's thread.                *)
Ask(q, kind, table) ==
    LET id == Skipped(next_web_call_id)
        old == AskedIn(At(table, id))
    IN  /\ Viewed /\ q = Cardinality(Asked) + 1
        /\ next_web_call_id' = (id + 1) % (2 ^ IdBits)
        /\ \E lost \in {{}, old} :
              /\ leaked' = IF kind = "handler" THEN leaked \cup lost ELSE leaked
              /\ page' = [r \in Questions |->
                            CASE r = q -> [NotAsked EXCEPT !.kind = kind]
                              [] r \in old \ leaked' -> [page[r] EXCEPT !.disposed = @ + 1]
                              [] OTHER -> page[r]]
        /\ NotifyWebEvent(<<id, q>>)
        /\ UNCHANGED <<player, delegate, tasks, listening>>

Put(table, q) == {p \in table : p[1] # Skipped(next_web_call_id)} \cup {<<Skipped(next_web_call_id), q>>}

OnWebHandlerCall(q) ==
    /\ Ask(q, "handler", replies)
    /\ replies' = Put(replies, q) /\ UNCHANGED decisions

OnWebDecidePolicy(q) ==
    /\ delegate
    /\ \E kind \in {"navigation", "window"} : Ask(q, kind, decisions)
    /\ decisions' = Put(decisions, q) /\ UNCHANGED replies
-----------------------------------------------------------------------------
(* on_web_event_notify with the event channel's listen and cancel: a new   *)
(* listener is shown the last event.                                       *)
WebListen ==
    /\ player = "alive" /\ ~listening
    /\ listening' = TRUE
    /\ app' = IF event # <<>> THEN app \cup {event} ELSE app
    /\ UNCHANGED <<page, player, replies, decisions, next_web_call_id, delegate, tasks, event, leaked>>

WebCancel ==
    /\ player = "alive" /\ listening /\ listening' = FALSE
    /\ UNCHANGED <<page, player, replies, decisions, next_web_call_id, delegate, tasks, event, app, leaked>>

Task(q, by, mixed, loads) == [q |-> q, by |-> by, mixed |-> mixed, loads |-> loads]

(* As WebRespondToHandler; the question is looked up and stays.            *)
MutWebRespondToHandler(told) ==
    /\ player = "alive" /\ page[told[2]].kind = "handler" /\ Len(tasks) < MaxTasks
    /\ \E p \in At(replies, told[1]) : tasks' = Append(tasks, Task(p[2], "app", p # told, FALSE))
    /\ UNCHANGED <<page, player, replies, decisions, next_web_call_id, delegate, event, listening, app, leaked>>

(* gstplayer_web_respond_to_handler; an id without a question is refused.  *)
WebRespondToHandler(told) ==
    /\ player = "alive" /\ page[told[2]].kind = "handler" /\ Len(tasks) < MaxTasks
    /\ \E p \in At(replies, told[1]) :
          /\ tasks' = Append(tasks, Task(p[2], "app", p # told, FALSE))
          /\ replies' = replies \ {p}
    /\ UNCHANGED <<page, player, decisions, next_web_call_id, delegate, event, listening, app, leaked>>

(* gstplayer_web_respond_to_navigation; a new window that is allowed is to *)
(* be loaded by the player.                                                *)
WebRespondToNavigation(told) ==
    /\ player = "alive" /\ page[told[2]].kind \in {"navigation", "window"} /\ Len(tasks) < MaxTasks
    /\ \E p \in At(decisions, told[1]), allow \in BOOLEAN :
          /\ tasks' = Append(tasks, Task(p[2], "app", p # told, allow /\ page[p[2]].kind = "window"))
          /\ decisions' = decisions \ {p}
    /\ UNCHANGED <<page, player, replies, next_web_call_id, delegate, event, listening, app, leaked>>

(* gstplayer_web_set_delegates.                                            *)
WebSetDelegates ==
    /\ player = "alive" /\ delegate' \in BOOLEAN
    /\ UNCHANGED <<page, player, replies, decisions, next_web_call_id, tasks, event, listening, app, leaked>>
-----------------------------------------------------------------------------
(* complete_web_reply and finish_web_decision, or the view's end.          *)
WithAnswer(q, task) ==
    IF task.by = "app" THEN [q EXCEPT !.app = @ + 1, !.mixed = task.mixed]
    ELSE [q EXCEPT !.disposed = @ + 1]

RunTask ==
    /\ tasks # <<>> /\ tasks' = Tail(tasks)
    /\ LET task == Head(tasks)
       IN  IF task.q = 0 THEN player' = "closed" /\ UNCHANGED page
           ELSE /\ page' = [page EXCEPT ![task.q] = WithAnswer(@, task)]
                /\ UNCHANGED player
    /\ UNCHANGED <<replies, decisions, next_web_call_id, delegate, event, listening, app, leaked>>

(* dispose_player and maybe_deinit: the platform thread waits until the    *)
(* view is gone.                                                           *)
WebDeinit ==
    /\ player = "alive" /\ player' = "closing" /\ listening' = FALSE
    /\ tasks' = Append(tasks, Task(0, "app", FALSE, FALSE))
    /\ UNCHANGED <<page, replies, decisions, next_web_call_id, delegate, event, app, leaked>>

(* gstplayer_destroy: destroy_pending_web_reply and                        *)
(* destroy_pending_web_decision for what still waits.  There may be no     *)
(* memory to answer a handler call.                                        *)
GstplayerDestroy ==
    /\ player = "closed" /\ player' = "freed"
    /\ \E lost \in SUBSET AskedIn(replies) :
          LET order == SetToSeq((AskedIn(replies) \cup AskedIn(decisions)) \ lost)
          IN  /\ leaked' = leaked \cup lost
              /\ tasks' = tasks \o [i \in 1..Len(order) |-> Task(order[i], "disposed", FALSE, FALSE)]
    /\ replies' = {} /\ decisions' = {}
    /\ UNCHANGED <<page, next_web_call_id, delegate, event, listening, app>>

WebNext ==
    \/ \E q \in Questions : OnWebHandlerCall(q) \/ OnWebDecidePolicy(q)
    \/ OtherEvent \/ WebListen \/ WebCancel \/ WebSetDelegates
    \/ \E told \in app : WebRespondToHandler(told) \/ WebRespondToNavigation(told)
    \/ RunTask \/ WebDeinit \/ GstplayerDestroy

WebSpec == WebInit /\ [][WebNext]_webVars
-----------------------------------------------------------------------------
(* A question waits in a table, or its answer waits for the WebKit thread, *)
(* or it was answered.                                                     *)
InOnePlace(q) ==
    Cardinality({p \in replies \cup decisions : p[2] = q})
        + Cardinality({i \in DOMAIN tasks : tasks[i].q = q})
        + page[q].app + page[q].disposed = 1

(* Whatever is asked, answered twice, answered after a replay, closed or   *)
(* run out of ids: every question gets one answer, unless a handler call   *)
(* finds no memory for it; it is the answer to this question as long as    *)
(* there are ids for all; and a window the app allowed is loaded while     *)
(* there is a player to load it.                                           *)
QuestionsAnsweredOnce ==
    /\ \A q \in Asked \ leaked : InOnePlace(q)
    /\ Cardinality(Asked) <= Cardinality(CallIds) => \A q \in Asked : ~page[q].mixed
    /\ ~Viewed => \A i \in DOMAIN tasks : ~tasks[i].loads
=============================================================================
