---------------------------- MODULE PlatformSend ----------------------------
(***************************************************************************)
(* What becomes of a message to the engine and of its answer: platch_send, *)
(* platch_respond and the handler of answers (platformchannel.c), with the *)
(* part of flutter-pi.c that hands the message over, directly on the       *)
(* platform thread and as a platform task from any other one.              *)
(*                                                                         *)
(* An exchange is one call of platch_send.  It owns three things: the      *)
(* buffer the object was encoded into, the response handle of the engine,  *)
(* and the handler data that the engine passes back with the answer.       *)
(* Only the platform thread asks for answers, as every caller in the       *)
(* repository does.  Objects are known by their codec here.                *)
(***************************************************************************)
EXTENDS Naturals, Sequences

CONSTANTS
    Objects,         \* what is sent
    Answers,         \* what Flutter answers, and the nothing of kNotImplemented
    Received(_, _),  \* what platch_decode makes of an answer, read with a codec
    MaxExchanges

ASSUME ExchangeBound == MaxExchanges \in Nat

VARIABLES exchanges   \* the calls of platch_send so far, in order

NotImplemented == [codec |-> "not_implemented"]
Undecodable == [codec |-> "error"]
NoAnswer == [codec |-> "none"]

ChannelInit == exchanges = <<>>

(* The answer a call asks for is encoded as a response of its own codec.   *)
ResponseCodec(o) == IF o.codec = "std_call" THEN "std_response" ELSE "json_response"

Exchange(o, asks, task, buffer, handle, handler, ok) ==
    [object |-> o, asks |-> asks, task |-> task, buffer |-> buffer, handle |-> handle,
     handler |-> handler, ok |-> ok, called |-> 0, sent |-> FALSE, answer |-> NoAnswer]

BufferKept(o) == IF o.codec \in {"binary", "not_implemented"} THEN "borrowed" ELSE "freed"
BufferLost(o) == IF o.codec \in {"binary", "not_implemented"} THEN "borrowed" ELSE "lost"

(* platch_send on the platform thread.  When no handle can be had, the     *)
(* function returns the 0 of platch_encode, and on every error path the    *)
(* buffer is lost.                                                         *)
SendFromPlatformThread(o) ==
    /\ Len(exchanges) < MaxExchanges
    /\ \E asks \in IF o.codec \in {"std_call", "json_call"} THEN BOOLEAN ELSE {FALSE} :
          \/ /\ asks
             /\ exchanges' = Append(exchanges,
                    Exchange(o, asks, "none", BufferLost(o), "none", "freed", TRUE))
          \/ exchanges' = Append(exchanges,
                [Exchange(o, asks, "none", BufferKept(o), IF asks THEN "engine" ELSE "none",
                          IF asks THEN "live" ELSE "none", TRUE) EXCEPT !.sent = TRUE])
          \/ exchanges' = Append(exchanges,
                Exchange(o, asks, "none", BufferLost(o), IF asks THEN "released" ELSE "none",
                         IF asks THEN "freed" ELSE "none", FALSE))

(* On another thread the message is copied and sent by a platform task.    *)
SendFromOtherThread(o) ==
    /\ Len(exchanges) < MaxExchanges
    /\ \/ exchanges' = Append(exchanges,
              Exchange(o, FALSE, "posted", BufferKept(o), "none", "none", TRUE))
       \/ exchanges' = Append(exchanges,
              Exchange(o, FALSE, "none", BufferLost(o), "none", "none", FALSE))

(* platch_respond: whatever the engine says, the caller is told 0.         *)
Respond(o) ==
    /\ Len(exchanges) < MaxExchanges
    /\ o.codec \in {"std_response", "json_response", "std_message", "not_implemented"}
    /\ \E sent \in BOOLEAN :
          exchanges' = Append(exchanges,
              [Exchange(o, FALSE, "none", "freed", "none", "none", TRUE) EXCEPT !.sent = sent])

OnSendPlatformMessage(x) ==
    /\ exchanges[x].task = "posted"
    /\ \E sent \in BOOLEAN :
          exchanges' = [exchanges EXCEPT ![x].task = "none", ![x].sent = sent]

(* The handler data freed when the answer cannot be decoded, and again.    *)
MutReceiveAnswer(x, o) ==
    /\ exchanges[x].handle = "engine"
    /\ exchanges' = [exchanges EXCEPT
           ![x].handle = IF o = Undecodable THEN "engine" ELSE "released",
           ![x].answer = o,
           ![x].handler = "freed",
           ![x].called = @ + 1]

(* platch_on_response_internal once the answer is decoded.  The handler    *)
(* data is freed only after the callback accepted it.                      *)
ReceiveAnswer(x, o) ==
    /\ exchanges[x].handle = "engine"
    /\ \/ /\ o = Undecodable
          /\ exchanges' = [exchanges EXCEPT ![x].handle = "released",
                              ![x].answer = o, ![x].handler = "lost"]
       \/ /\ o # Undecodable
          /\ \E accepted \in BOOLEAN :
                exchanges' = [exchanges EXCEPT ![x].handle = "released",
                    ![x].answer = o, ![x].called = @ + 1,
                    ![x].handler = IF accepted THEN "freed" ELSE "lost"]

OnResponse(x, answer) ==
    \E o \in {Received(ResponseCodec(exchanges[x].object), answer)} : ReceiveAnswer(x, o)

SuitableAnswers(x) ==
    {a \in Answers : a.codec \in {"not_implemented", ResponseCodec(exchanges[x].object)}}

ChannelNext ==
    \/ \E o \in Objects : SendFromPlatformThread(o)
    \/ \E o \in Objects : SendFromOtherThread(o)
    \/ \E o \in Objects : Respond(o)
    \/ \E x \in 1..Len(exchanges) : OnSendPlatformMessage(x)
    \/ \E x \in 1..Len(exchanges) : \E answer \in SuitableAnswers(x) : OnResponse(x, answer)

ChannelSpec == ChannelInit /\ [][ChannelNext]_exchanges
-----------------------------------------------------------------------------
(* What platch_send allocates is accounted for: on_response is called at   *)
(* most once, for an answer to a message that went out; the handler data   *)
(* is gone exactly when the engine can no longer call back; and a caller   *)
(* told of an error never hears from the engine.                           *)
ExchangesAccounted ==
    \A x \in 1..Len(exchanges) :
        LET e == exchanges[x]
        IN  /\ e.called \in 0..1
            /\ e.called = 1 => e.asks /\ e.sent /\ e.ok
            /\ e.handle = "engine" <=> e.handler = "live"
            /\ ~e.ok => e.handler \in {"none", "freed"} /\ ~e.sent
            /\ e.answer # NoAnswer => e.handle = "released"
=============================================================================
