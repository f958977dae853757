-------------------------------- MODULE Bridge --------------------------------
(***************************************************************************)
(* The calls a page makes to the application: bridge.call posts a task to  *)
(* the UI thread, lynx-window.ts hands it to the bridge, whose handler     *)
(* returns a value or a promise; the reply goes back through a queue to    *)
(* the page's callback (lynx-bridge-impl.ts, lynx_native_module.cc).       *)
(* Handlers are registered, replaced and removed while calls wait.         *)
(***************************************************************************)
EXTENDS Naturals, Sequences

CONSTANTS
  Channels,
  MaxCalls,          \* bound: calls the page makes
  MaxRegistrations,  \* bound: handlers registered
  QueueSize          \* replies to one callback that may wait, 10 in the code

ASSUME BridgeAssumption ==
  MaxCalls \in Nat /\ MaxRegistrations \in Nat /\ QueueSize \in Nat \ {0}

VARIABLES
  handlers,     \* _invokeHandlers: the registration of each channel, 0: none
  registered,   \* the registrations so far
  invoked,      \* how often each of them ran
  calls,        \* the calls of the page
  windowAlive   \* the weak pointer to the LynxWindow

bridgeVars == <<handlers, registered, invoked, calls, windowAlive>>

(* What a handler does: it returns or resolves to a value, it throws or    *)
(* rejects, or it calls event.sendReply itself and returns nothing.        *)
HandlerFns == {"value", "fails", "replies"}

BridgeInit ==
  /\ handlers = [m \in Channels |-> 0]
  /\ registered = <<>> /\ invoked = <<>> /\ calls = <<>> /\ windowAlive = TRUE
-----------------------------------------------------------------------------
(* handle and handleOnce; the second handler of a channel is refused.      *)
Register(m, fn, once) ==
  /\ handlers[m] = 0 /\ Len(registered) < MaxRegistrations
  /\ registered' = Append(registered, [fn |-> fn, once |-> once])
  /\ invoked' = Append(invoked, 0)
  /\ handlers' = [handlers EXCEPT ![m] = Len(registered) + 1]
  /\ UNCHANGED <<calls, windowAlive>>

Handle(m, fn) == Register(m, fn, FALSE)
HandleOnce(m, fn) == Register(m, fn, TRUE)

RemoveHandler(m) ==
  /\ handlers' = [handlers EXCEPT ![m] = 0]
  /\ UNCHANGED <<registered, invoked, calls, windowAlive>>

(* The callback becomes a thread-safe function, held by the event that     *)
(* will be made of it; tsfn is what is left of that function.              *)
PageCall(m) ==
  /\ Len(calls) < MaxCalls
  /\ calls' = Append(calls, [channel |-> m, event |-> "posted", handler |-> 0,
                             tsfn |-> "open", sent |-> <<>>, queue |-> <<>>, got |-> <<>>])
  /\ UNCHANGED <<handlers, registered, invoked, windowAlive>>
-----------------------------------------------------------------------------
(* The function of the event: it queues the answer, and the first one      *)
(* releases the thread-safe function.  Nothing tells a second call that    *)
(* there was a first; where the function is gone the answer is lost.       *)
SendReply(call, answer) ==
  [call EXCEPT
     !.sent = Append(@, answer),
     !.queue = IF call.tsfn = "gone" \/ Len(@) = QueueSize THEN @ ELSE Append(@, answer),
     !.tsfn = IF @ = "open" THEN "released" ELSE @]

FaultyInvoke(c) ==  \* handleOnce removes its handler when the promise settles
  LET r == IF windowAlive THEN handlers[calls[c].channel] ELSE 0
      awaited == r # 0 /\ registered[r].fn # "fails"
      runs == [calls[c] EXCEPT !.handler = IF awaited THEN r ELSE 0,
                               !.event = IF awaited THEN "awaited" ELSE "free"]
  IN  /\ calls[c].event = "posted"
      /\ invoked' = IF r = 0 THEN invoked ELSE [invoked EXCEPT ![r] = @ + 1]
      /\ calls' = [calls EXCEPT ![c] = runs]
      /\ UNCHANGED <<handlers, registered, windowAlive>>

(* The task on the UI thread: the event is made, the window, if it lives,  *)
(* emits -lynx-invoke and the bridge runs the handler, which handleOnce    *)
(* removes before.  What the handler returns is awaited.                   *)
Invoke(c) ==
  LET m == calls[c].channel
      r == IF windowAlive THEN handlers[m] ELSE 0
      awaited == r # 0 /\ registered[r].fn # "fails"
      runs == [calls[c] EXCEPT !.handler = IF awaited THEN r ELSE 0,
                               !.event = IF awaited THEN "awaited" ELSE "free"]
  IN  /\ calls[c].event = "posted"
      /\ \A d \in 1..(c - 1) : calls[d].event # "posted"
      /\ invoked' = IF r = 0 THEN invoked ELSE [invoked EXCEPT ![r] = @ + 1]
      /\ handlers' = IF r # 0 /\ registered[r].once THEN [handlers EXCEPT ![m] = 0] ELSE handlers
      /\ calls' = [calls EXCEPT ![c] =
                     IF r # 0 /\ registered[r].fn = "replies" THEN SendReply(runs, "own") ELSE runs]
      /\ UNCHANGED <<registered, windowAlive>>

(* The promise of the handler is fulfilled.                                *)
Settle(c) ==
  /\ calls[c].event = "awaited"
  /\ LET fn == registered[calls[c].handler].fn
         answer == IF fn = "value" THEN "value" ELSE "undefined"
     IN  calls' = [calls EXCEPT ![c] = [SendReply(@, answer) EXCEPT !.event = "free"]]
  /\ UNCHANGED <<handlers, registered, invoked, windowAlive>>

(* Or it is rejected, and nothing replies: handler is the registration the *)
(* answer is to come from.                                                 *)
Reject(c) ==
  /\ calls[c].event = "awaited" /\ registered[calls[c].handler].fn = "value"
  /\ calls' = [calls EXCEPT ![c].event = "free", ![c].handler = 0]
  /\ UNCHANGED <<handlers, registered, invoked, windowAlive>>

(* ~LynxEmitEvent, when an event that nothing refers to is collected.      *)
Collect(c) ==
  /\ calls[c].event = "free"
  /\ calls' = [calls EXCEPT ![c] = [SendReply(@, "never sent") EXCEPT !.event = "collected"]]
  /\ UNCHANGED <<handlers, registered, invoked, windowAlive>>

(* The Lynx thread calls the page's callback; a released function whose    *)
(* queue is empty is freed.                                                *)
Callback(c) ==
  LET x == calls[c]
  IN  /\ x.queue # <<>>
      /\ calls' = [calls EXCEPT ![c] =
           [x EXCEPT !.got = Append(x.got, Head(x.queue)), !.queue = Tail(x.queue),
                     !.tsfn = IF x.tsfn = "released" /\ Len(x.queue) = 1
                              THEN "gone" ELSE x.tsfn]]
      /\ UNCHANGED <<handlers, registered, invoked, windowAlive>>

WindowDestroyed ==
  /\ windowAlive /\ windowAlive' = FALSE
  /\ UNCHANGED <<handlers, registered, invoked, calls>>

BridgeNext ==
  \/ \E m \in Channels :
       \/ \E fn \in HandlerFns : Handle(m, fn) \/ HandleOnce(m, fn)
       \/ RemoveHandler(m)
       \/ PageCall(m)
  \/ \E c \in DOMAIN calls : Invoke(c) \/ Settle(c) \/ Reject(c) \/ Collect(c) \/ Callback(c)
  \/ WindowDestroyed

BridgeSpec == BridgeInit /\ [][BridgeNext]_bridgeVars
-----------------------------------------------------------------------------
(* lynx_native_module.cc:223: no call is dropped on its way: while its     *)
(* callback was not called, a task, a handler, an event to be collected or *)
(* a queued answer stands for it.                                          *)
NoCallIsLost ==
  \A c \in DOMAIN calls :
    \/ calls[c].got # <<>> \/ calls[c].queue # <<>>
    \/ calls[c].event \in {"posted", "awaited", "free"}

(* lynx-bridge-impl.ts:43: a handler of handleOnce runs once, however many *)
(* calls were on their way when it was registered, removed or replaced.    *)
OnceRunsOnce ==
  \A r \in DOMAIN registered : registered[r].once => invoked[r] <= 1

(* lynx-bridge.d.ts:15: the first thing the page's callback gets is what   *)
(* the handler returned, also when the handler was removed or replaced     *)
(* while its promise was pending.                                          *)
FirstAnswerIsTheHandlers ==
  \A c \in DOMAIN calls :
    calls[c].got # <<>> =>
      Head(calls[c].got) =
        IF calls[c].handler = 0 THEN "never sent"
        ELSE IF registered[calls[c].handler].fn = "value" THEN "value" ELSE "own"

(* Whatever becomes of its handler, a call of the page is answered, by the *)
(* handler's answer first.                                                 *)
CallsAreAnswered == NoCallIsLost /\ OnceRunsOnce /\ FirstAnswerIsTheHandlers

(* lynx_emit_event.cc:31 says "reply was never sent" to the page: only of  *)
(* an event whose reply was never sent.                                    *)
NeverSentIsTrue ==
  \A c \in DOMAIN calls :
    \A k \in DOMAIN calls[c].sent : calls[c].sent[k] = "never sent" => k = 1
=============================================================================
