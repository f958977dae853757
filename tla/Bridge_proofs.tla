---------------------------- MODULE Bridge_proofs ----------------------------
(***************************************************************************)
(* Theorems about Bridge, for any number of channels, handlers and calls   *)
(* and any length of the queue: a handler of handleOnce runs once, no call *)
(* is lost, and the first answer a page gets is the handler's.             *)
(*                                                                         *)
(* A call is followed by what was sent for it: nothing is sent before its  *)
(* event is, the first answer always finds the function open and the queue *)
(* empty, and so it is the first one that the page's callback gets.        *)
(***************************************************************************)
EXTENDS Bridge, TLAPS

Answers == {"value", "undefined", "own", "never sent"}
Registration == [fn : HandlerFns, once : BOOLEAN]
Call == [channel : Channels, event : {"posted", "awaited", "free", "collected"},
         handler : Nat, tsfn : {"open", "released", "gone"},
         sent : Seq(Answers), queue : Seq(Answers), got : Seq(Answers)]

BridgeTypeOK ==
  /\ registered \in Seq(Registration)
  /\ invoked \in Seq(Nat) /\ Len(invoked) = Len(registered)
  /\ handlers \in [Channels -> 0..Len(registered)]
  /\ calls \in Seq(Call)
  /\ windowAlive \in BOOLEAN

\* A registration belongs to one channel; one of handleOnce that ran, to none.
OnceIsRemoved ==
  /\ \A m, n \in Channels : handlers[m] = handlers[n] /\ handlers[m] # 0 => m = n
  /\ \A r \in DOMAIN registered :
       registered[r].once => /\ invoked[r] <= 1
                             /\ invoked[r] = 1 => \A m \in Channels : handlers[m] # r

\* What was sent first is what the callback got, or gets, first.
FirstIsFirst(x) ==
  /\ x.sent = <<>> => x.got = <<>> /\ x.queue = <<>> /\ x.tsfn = "open"
  /\ x.sent # <<>> => x.got # <<>> \/ x.queue # <<>>
  /\ x.tsfn = "gone" => x.got # <<>>
  /\ x.got # <<>> => x.got[1] = x.sent[1]
  /\ x.got = <<>> /\ x.queue # <<>> => x.queue[1] = x.sent[1]

\* The first answer that was sent comes from the handler the call has.
FromHandler(x, regs) ==
  /\ x.handler \in DOMAIN regs \cup {0}
  /\ x.handler = 0 =>
       /\ x.event # "awaited"
       /\ x.event # "collected" => x.sent = <<>>
       /\ x.event = "collected" => x.sent # <<>> /\ x.sent[1] = "never sent"
  /\ x.handler # 0 =>
       /\ x.event # "posted" /\ regs[x.handler].fn # "fails"
       /\ regs[x.handler].fn = "replies" => x.sent # <<>> /\ x.sent[1] = "own"
       /\ regs[x.handler].fn = "value" =>
            IF x.event = "awaited" THEN x.sent = <<>> ELSE x.sent # <<>> /\ x.sent[1] = "value"

CallRight(x, regs) == FirstIsFirst(x) /\ FromHandler(x, regs)

CallsRight == \A c \in DOMAIN calls : CallRight(calls[c], registered)

BridgeInv == BridgeTypeOK /\ OnceIsRemoved /\ CallsRight
-----------------------------------------------------------------------------
\* The empty sequence, and what is appended to it or to another.
LEMMA AppendFacts ==
  ASSUME NEW S, NEW s \in Seq(S), NEW e \in S
  PROVE  /\ <<>> \in Seq(S) /\ Len(<<>>) = 0
         /\ Append(s, e) \in Seq(S) /\ Append(s, e) # <<>>
         /\ s = <<>> => Append(s, e)[1] = e
         /\ s # <<>> => Append(s, e)[1] = s[1]
<1>1. Len(Append(s, e)) = Len(s) + 1 /\ Len(s) \in Nat /\ Append(s, e) \in Seq(S)
  OBVIOUS
<1>2. Len(<<>>) = 0 /\ <<>> \in Seq(S)
  OBVIOUS
<1>3. Append(s, e) # <<>>
  <2> DEFINE t == Append(s, e)
  <2>1. Len(t) = Len(s) + 1
    BY <1>1
  <2> HIDE DEF t
  <2>2. t # <<>>
    BY <1>1, <1>2, <2>1
  <2> QED BY <2>2 DEF t
<1>4. s # <<>> => Len(s) >= 1
  OBVIOUS
<1>5. s # <<>> => Append(s, e)[1] = s[1]
  BY <1>4
<1>6. s = <<>> => Append(s, e)[1] = e
  OBVIOUS
<1>. QED
  BY <1>1, <1>2, <1>3, <1>5, <1>6

\* sendReply: the first answer reaches the queue, a later one changes nothing
\* about the first.
LEMMA SendReplyFacts ==
  ASSUME NEW x \in Call, NEW a \in Answers, FirstIsFirst(x)
  PROVE  LET y == SendReply(x, a) IN
         /\ y \in Call /\ FirstIsFirst(y)
         /\ y.event = x.event /\ y.handler = x.handler
         /\ y.sent # <<>>
         /\ x.sent = <<>> => y.sent[1] = a
         /\ x.sent # <<>> => y.sent[1] = x.sent[1]
<1> DEFINE y == SendReply(x, a)
           s == Append(x.sent, a)
           q == Append(x.queue, a)
<1>1. /\ x.sent \in Seq(Answers) /\ x.queue \in Seq(Answers) /\ x.got \in Seq(Answers)
      /\ QueueSize \in Nat \ {0}
  BY BridgeAssumption DEF Call
<1>2. /\ s \in Seq(Answers) /\ s # <<>>
      /\ x.sent = <<>> => s[1] = a
      /\ x.sent # <<>> => s[1] = x.sent[1]
  BY <1>1, AppendFacts
<1>3. /\ q \in Seq(Answers) /\ q # <<>>
      /\ x.queue = <<>> => q[1] = a /\ Len(x.queue) = 0
      /\ x.queue # <<>> => q[1] = x.queue[1]
  BY <1>1, AppendFacts
<1>4. /\ y.sent = s
      /\ y.queue = IF x.tsfn = "gone" \/ Len(x.queue) = QueueSize THEN x.queue ELSE q
      /\ y.tsfn = IF x.tsfn = "open" THEN "released" ELSE x.tsfn
      /\ y.got = x.got /\ y.event = x.event /\ y.handler = x.handler
  BY DEF SendReply, Call
<1>. HIDE DEF s, q
<1>5. y \in Call
  <2>1. /\ y.sent \in Seq(Answers) /\ y.queue \in Seq(Answers)
        /\ y.tsfn \in {"open", "released", "gone"}
    BY <1>1, <1>2, <1>3, <1>4 DEF Call
  <2>2. ASSUME NEW t \in Seq(Answers), NEW r \in Seq(Answers),
               NEW f \in {"open", "released", "gone"},
               y = [x EXCEPT !.sent = t, !.queue = r, !.tsfn = f]
        PROVE  y \in Call
    BY <2>2 DEF Call
  <2>3. y = [x EXCEPT !.sent = y.sent, !.queue = y.queue, !.tsfn = y.tsfn]
    BY DEF SendReply, Call
  <2>. QED
    BY <2>1, <2>2, <2>3
<1>. HIDE DEF y
<1>6. x.sent = <<>> => y.queue # <<>> /\ y.queue[1] = a
  BY <1>1, <1>3, <1>4 DEF FirstIsFirst
<1>7. x.queue # <<>> => y.queue # <<>> /\ y.queue[1] = x.queue[1]
  BY <1>3, <1>4
<1>8. FirstIsFirst(y)
  BY <1>2, <1>4, <1>6, <1>7 DEF FirstIsFirst
<1>. QED
  BY <1>2, <1>4, <1>5, <1>8 DEF y

\* A call that was answered, and whose event is in another state.
LEMMA AnswerFacts ==
  ASSUME NEW x \in Call, NEW a \in Answers, FirstIsFirst(x),
         NEW e \in {"posted", "awaited", "free", "collected"}
  PROVE  LET y == [SendReply(x, a) EXCEPT !.event = e] IN
         /\ y \in Call /\ FirstIsFirst(y)
         /\ y.event = e /\ y.handler = x.handler
         /\ y.sent # <<>>
         /\ x.sent = <<>> => y.sent[1] = a
         /\ x.sent # <<>> => y.sent[1] = x.sent[1]
<1> DEFINE s == SendReply(x, a)
           y == [s EXCEPT !.event = e]
<1>1. /\ s \in Call /\ FirstIsFirst(s) /\ s.handler = x.handler
      /\ s.sent # <<>>
      /\ x.sent = <<>> => s.sent[1] = a
      /\ x.sent # <<>> => s.sent[1] = x.sent[1]
  BY SendReplyFacts
<1>. HIDE DEF s
<1>2. y \in Call
  BY <1>1 DEF Call
<1>3. /\ y.event = e /\ y.handler = s.handler /\ y.sent = s.sent
      /\ y.queue = s.queue /\ y.got = s.got /\ y.tsfn = s.tsfn
  BY <1>1 DEF Call
<1>. HIDE DEF y
<1>4. FirstIsFirst(y)
  BY <1>1, <1>3 DEF FirstIsFirst
<1>. QED
  BY <1>1, <1>2, <1>3, <1>4 DEF y, s

\* The page's callback is called with the head of the queue.
LEMMA CallbackFacts ==
  ASSUME NEW x \in Call, FirstIsFirst(x), x.queue # <<>>,
         NEW f \in {"open", "released", "gone"}
  PROVE  LET y == [x EXCEPT !.got = Append(x.got, Head(x.queue)),
                            !.queue = Tail(x.queue), !.tsfn = f] IN
         /\ y \in Call /\ FirstIsFirst(y)
         /\ y.event = x.event /\ y.handler = x.handler /\ y.sent = x.sent
<1> DEFINE g == Append(x.got, Head(x.queue))
           q == Tail(x.queue)
           y == [x EXCEPT !.got = g, !.queue = q, !.tsfn = f]
<1>1. x.sent \in Seq(Answers) /\ x.queue \in Seq(Answers) /\ x.got \in Seq(Answers)
  BY DEF Call
<1>2. Head(x.queue) \in Answers /\ q \in Seq(Answers) /\ Head(x.queue) = x.queue[1]
  BY <1>1
<1>3. /\ g \in Seq(Answers) /\ g # <<>>
      /\ x.got = <<>> => g[1] = x.queue[1]
      /\ x.got # <<>> => g[1] = x.got[1]
  BY <1>1, <1>2, AppendFacts
<1>. HIDE DEF g, q
<1>4. y \in Call
  BY <1>2, <1>3 DEF Call
<1>5. /\ y.event = x.event /\ y.handler = x.handler /\ y.sent = x.sent
      /\ y.queue = q /\ y.got = g /\ y.tsfn = f
  BY DEF Call
<1>. HIDE DEF y
<1>6. FirstIsFirst(y)
  BY <1>3, <1>5 DEF FirstIsFirst
<1>. QED
  BY <1>4, <1>5, <1>6 DEF y, g, q

\* The registration a call has is one.
LEMMA RegistrationFacts ==
  ASSUME registered \in Seq(Registration), NEW x, FromHandler(x, registered), x.handler # 0
  PROVE  registered[x.handler].fn \in HandlerFns
<1>1. x.handler \in DOMAIN registered
  BY DEF FromHandler
<1>2. registered[x.handler] \in Registration
  BY <1>1
<1>. QED
  BY <1>2 DEF Registration

\* A step that changes one call.
LEMMA OneCallChanges ==
  ASSUME BridgeInv, NEW c \in DOMAIN calls, NEW y \in Call, CallRight(y, registered),
         calls' = [calls EXCEPT ![c] = y], registered' = registered
  PROVE  calls' \in Seq(Call) /\ CallsRight'
<1>1. calls \in Seq(Call) /\ CallsRight
  BY DEF BridgeInv, BridgeTypeOK
<1>2. calls' \in Seq(Call) /\ DOMAIN calls' = DOMAIN calls
  BY <1>1
<1>3. ASSUME NEW d \in DOMAIN calls
      PROVE  CallRight(calls'[d], registered)
  <2>1. calls'[d] = IF d = c THEN y ELSE calls[d]
    BY <1>1
  <2>. QED
    BY <1>1, <2>1 DEF CallsRight
<1>. QED
  BY <1>2, <1>3 DEF CallsRight

\* A step that leaves the handlers as they are.
LEMMA HandlersStay ==
  ASSUME BridgeInv, UNCHANGED <<handlers, registered, invoked, windowAlive>>,
         calls' \in Seq(Call), CallsRight'
  PROVE  BridgeInv'
BY DEF BridgeInv, BridgeTypeOK, OnceIsRemoved
-----------------------------------------------------------------------------
\* No handler, no call: the first state.
LEMMA InitHolds == BridgeInit => BridgeInv
BY DEF BridgeInit, BridgeInv, BridgeTypeOK, OnceIsRemoved, CallsRight

\* A call keeps its registration when another one is made.
LEMMA RegisterKeeps ==
  ASSUME BridgeInv, NEW m \in Channels, NEW fn \in HandlerFns, NEW once \in BOOLEAN,
         Register(m, fn, once)
  PROVE  BridgeInv'
<1> DEFINE n == Len(registered) + 1
           g == [fn |-> fn, once |-> once]
<1>1. /\ registered \in Seq(Registration) /\ invoked \in Seq(Nat)
      /\ Len(invoked) = Len(registered) /\ handlers \in [Channels -> 0..Len(registered)]
      /\ calls \in Seq(Call) /\ windowAlive \in BOOLEAN
  BY DEF BridgeInv, BridgeTypeOK
<1>2. /\ registered' = Append(registered, g) /\ invoked' = Append(invoked, 0)
      /\ handlers' = [handlers EXCEPT ![m] = n] /\ handlers[m] = 0
      /\ calls' = calls /\ windowAlive' = windowAlive
  BY DEF Register
<1>3. g \in Registration /\ Len(registered) \in Nat /\ g.once = once
  BY <1>1 DEF Registration
<1>. HIDE DEF g
<1>4. /\ registered' \in Seq(Registration) /\ Len(registered') = n
      /\ DOMAIN registered' = DOMAIN registered \cup {n} /\ n \notin DOMAIN registered
      /\ registered'[n] = g
      /\ \A r \in DOMAIN registered : registered'[r] = registered[r]
  BY <1>1, <1>2, <1>3
<1>5. /\ invoked' \in Seq(Nat) /\ Len(invoked') = n /\ invoked'[n] = 0
      /\ \A r \in DOMAIN registered : invoked'[r] = invoked[r]
  BY <1>1, <1>2, <1>3
<1>6. handlers' \in [Channels -> 0..n]
  BY <1>1, <1>2, <1>3
<1>7. BridgeTypeOK'
  BY <1>1, <1>2, <1>4, <1>5, <1>6 DEF BridgeTypeOK
<1>8. \A k \in Channels : handlers'[k] = IF k = m THEN n ELSE handlers[k]
  BY <1>1, <1>2
<1>9. \A k \in Channels : handlers[k] \in Nat /\ handlers[k] < n
  BY <1>1, <1>3
<1>10. OnceIsRemoved'
  <2>1. \A k, l \in Channels : handlers'[k] = handlers'[l] /\ handlers'[k] # 0 => k = l
    BY <1>8, <1>9 DEF BridgeInv, OnceIsRemoved
  <2>2. ASSUME NEW r \in DOMAIN registered, registered[r].once
        PROVE  invoked[r] <= 1 /\ (invoked[r] = 1 => \A k \in Channels : handlers'[k] # r)
    <3>1. r # n
      BY <1>4
    <3>2. invoked[r] <= 1 /\ (invoked[r] = 1 => \A k \in Channels : handlers[k] # r)
      BY <2>2 DEF BridgeInv, OnceIsRemoved
    <3>. QED
      BY <1>8, <3>1, <3>2
  <2>3. ASSUME NEW r \in DOMAIN registered', registered'[r].once
        PROVE  invoked'[r] <= 1 /\ (invoked'[r] = 1 => \A k \in Channels : handlers'[k] # r)
    <3>1. CASE r = n
      BY <1>5, <3>1
    <3>2. CASE r \in DOMAIN registered
      BY <1>4, <1>5, <2>2, <2>3, <3>2
    <3>. QED
      BY <1>4, <3>1, <3>2
  <2>. QED
    BY <2>1, <2>3 DEF OnceIsRemoved
<1>11. ASSUME NEW c \in DOMAIN calls
       PROVE  CallRight(calls[c], registered')
  <2>1. CallRight(calls[c], registered)
    BY DEF BridgeInv, CallsRight
  <2>. DEFINE h == calls[c].handler
  <2>2. h \in DOMAIN registered \cup {0}
    BY <2>1 DEF CallRight, FromHandler
  <2>3. h # 0 => registered'[h] = registered[h]
    BY <1>4, <2>2
  <2>4. h \in DOMAIN registered' \cup {0}
    BY <1>4, <2>2
  <2>. QED
    BY <2>1, <2>3, <2>4 DEF CallRight, FromHandler
<1>. QED
  BY <1>2, <1>7, <1>10, <1>11 DEF BridgeInv, CallsRight

\* Without a handler the channel is free for the next one.
LEMMA RemoveHandlerKeeps ==
  ASSUME BridgeInv, NEW m \in Channels, RemoveHandler(m)
  PROVE  BridgeInv'
<1>1. BridgeTypeOK /\ OnceIsRemoved /\ CallsRight
  BY DEF BridgeInv
<1>2. /\ handlers' = [handlers EXCEPT ![m] = 0]
      /\ UNCHANGED <<registered, invoked, calls, windowAlive>>
  BY DEF RemoveHandler
<1>3. handlers \in [Channels -> 0..Len(registered)] /\ Len(registered) \in Nat
  BY <1>1 DEF BridgeTypeOK
<1>4. /\ handlers' \in [Channels -> 0..Len(registered)]
      /\ \A k \in Channels : handlers'[k] = IF k = m THEN 0 ELSE handlers[k]
  BY <1>2, <1>3
<1>5. BridgeTypeOK' /\ CallsRight'
  BY <1>1, <1>2, <1>4 DEF BridgeTypeOK, CallsRight
<1>6. DOMAIN registered \subseteq Nat \ {0}
  BY <1>1 DEF BridgeTypeOK
<1>7. OnceIsRemoved'
  BY <1>1, <1>2, <1>4, <1>6 DEF OnceIsRemoved
<1>. QED
  BY <1>5, <1>7 DEF BridgeInv

\* A new call was sent nothing and has nothing.
LEMMA PageCallKeeps ==
  ASSUME BridgeInv, NEW m \in Channels, PageCall(m)
  PROVE  BridgeInv'
<1> DEFINE x == [channel |-> m, event |-> "posted", handler |-> 0, tsfn |-> "open",
                 sent |-> <<>>, queue |-> <<>>, got |-> <<>>]
<1>1. calls \in Seq(Call) /\ CallsRight
  BY DEF BridgeInv, BridgeTypeOK
<1>2. calls' = Append(calls, x) /\ UNCHANGED <<handlers, registered, invoked, windowAlive>>
  BY DEF PageCall
<1>3. x \in Call /\ CallRight(x, registered)
  BY DEF Call, CallRight, FirstIsFirst, FromHandler
<1>. HIDE DEF x
<1>4. /\ calls' \in Seq(Call) /\ DOMAIN calls' = 1..(Len(calls) + 1)
      /\ calls'[Len(calls) + 1] = x /\ \A d \in DOMAIN calls : calls'[d] = calls[d]
      /\ DOMAIN calls = 1..Len(calls) /\ Len(calls) \in Nat
  BY <1>1, <1>2, <1>3
<1>5. CallsRight'
  <2>1. ASSUME NEW d \in DOMAIN calls'
        PROVE  CallRight(calls'[d], registered)
    <3>1. CASE d = Len(calls) + 1
      BY <1>3, <1>4, <3>1
    <3>2. CASE d \in DOMAIN calls
      BY <1>1, <1>4, <3>2 DEF CallsRight
    <3>. QED
      BY <1>4, <3>1, <3>2
  <2>. QED
    BY <1>2, <2>1 DEF CallsRight
<1>. QED
  BY <1>2, <1>4, <1>5, HandlersStay

\* The handler of the channel is counted, and one of handleOnce is removed
\* from its channel.
LEMMA InvokeCounts ==
  ASSUME BridgeTypeOK, OnceIsRemoved, NEW m \in Channels, handlers[m] # 0,
         invoked' = [invoked EXCEPT ![handlers[m]] = invoked[handlers[m]] + 1],
         handlers' = IF registered[handlers[m]].once THEN [handlers EXCEPT ![m] = 0]
                                                     ELSE handlers,
         UNCHANGED <<registered, windowAlive>>, calls' \in Seq(Call)
  PROVE  BridgeTypeOK' /\ OnceIsRemoved'
<1> DEFINE r == handlers[m]
<1>1. /\ registered \in Seq(Registration) /\ invoked \in Seq(Nat)
      /\ Len(invoked) = Len(registered) /\ handlers \in [Channels -> 0..Len(registered)]
      /\ Len(registered) \in Nat /\ windowAlive \in BOOLEAN
  BY DEF BridgeTypeOK
<1>2. r \in DOMAIN registered /\ r \in DOMAIN invoked /\ DOMAIN registered = DOMAIN invoked
  BY <1>1
<1>3. /\ invoked' \in Seq(Nat) /\ Len(invoked') = Len(invoked)
      /\ \A s \in DOMAIN registered : invoked'[s] = IF s = r THEN invoked[s] + 1 ELSE invoked[s]
      /\ \A s \in DOMAIN registered : invoked[s] \in Nat
  BY <1>1, <1>2
<1>4. /\ handlers' \in [Channels -> 0..Len(registered)]
      /\ \A k \in Channels :
           handlers'[k] = IF k = m /\ registered[r].once THEN 0 ELSE handlers[k]
  BY <1>1
<1>5. BridgeTypeOK'
  BY <1>1, <1>3, <1>4 DEF BridgeTypeOK
<1>6. \A k, l \in Channels : handlers'[k] = handlers'[l] /\ handlers'[k] # 0 => k = l
  BY <1>4 DEF OnceIsRemoved
<1>7. ASSUME NEW s \in DOMAIN registered, registered[s].once
      PROVE  invoked'[s] <= 1 /\ (invoked'[s] = 1 => \A k \in Channels : handlers'[k] # s)
  <2>1. invoked[s] <= 1 /\ (invoked[s] = 1 => \A k \in Channels : handlers[k] # s)
    BY <1>7 DEF OnceIsRemoved
  <2>2. s \in Nat \ {0}
    BY <1>1
  <2>3. CASE s = r
    <3>1. invoked[s] # 1
      BY <2>1, <2>3
    <3>2. invoked[s] = 0
      <4>1. invoked[s] \in Nat /\ invoked[s] <= 1
        BY <1>3, <2>1
      <4>2. \A n \in Nat : n <= 1 /\ n # 1 => n = 0
        OBVIOUS
      <4>. QED
        BY <3>1, <4>1, <4>2
    <3>3. \A k \in Channels : handlers'[k] # s
      BY <1>4, <1>7, <2>2, <2>3 DEF OnceIsRemoved
    <3>. QED
      BY <1>3, <2>3, <3>2, <3>3
  <2>4. CASE s # r
    BY <1>3, <1>4, <2>1, <2>2, <2>4
  <2>. QED
    BY <2>3, <2>4
<1>. QED
  BY <1>5, <1>6, <1>7 DEF OnceIsRemoved

\* The call of a posted task gets its handler, and the answer of a handler
\* that replies itself.
LEMMA InvokedCallIsRight ==
  ASSUME BridgeTypeOK, NEW x \in Call, CallRight(x, registered), x.event = "posted",
         NEW r \in DOMAIN registered \cup {0}
  PROVE  LET awaited == r # 0 /\ registered[r].fn # "fails"
             runs == [x EXCEPT !.handler = IF awaited THEN r ELSE 0,
                               !.event = IF awaited THEN "awaited" ELSE "free"]
             y == IF r # 0 /\ registered[r].fn = "replies" THEN SendReply(runs, "own") ELSE runs
         IN  y \in Call /\ CallRight(y, registered)
<1> DEFINE awaited == r # 0 /\ registered[r].fn # "fails"
           h == IF awaited THEN r ELSE 0
           e == IF awaited THEN "awaited" ELSE "free"
           runs == [x EXCEPT !.handler = h, !.event = e]
           replies == r # 0 /\ registered[r].fn = "replies"
           y == IF replies THEN SendReply(runs, "own") ELSE runs
<1>1. registered \in Seq(Registration)
  BY DEF BridgeTypeOK
<1>2. r \in Nat
  BY <1>1
<1>3. h \in Nat /\ e \in {"posted", "awaited", "free", "collected"}
  BY <1>2
<1>5. x.handler = 0 /\ x.sent = <<>> /\ FirstIsFirst(x)
  BY DEF CallRight, FromHandler
<1>. HIDE DEF h, e
<1>6. /\ runs \in Call /\ FirstIsFirst(runs)
      /\ runs.event = e /\ runs.handler = h /\ runs.sent = <<>>
  <2>1. runs \in Call
    BY <1>3 DEF Call
  <2>2. /\ runs.event = e /\ runs.handler = h /\ runs.sent = x.sent
        /\ runs.queue = x.queue /\ runs.got = x.got /\ runs.tsfn = x.tsfn
    BY DEF Call
  <2>. HIDE DEF runs
  <2>3. FirstIsFirst(runs)
    BY <1>5, <2>2 DEF FirstIsFirst
  <2>. QED
    BY <1>5, <2>1, <2>2, <2>3
<1>. HIDE DEF runs
<1>7. r # 0 => registered[r].fn \in HandlerFns
  <2>1. r # 0 => registered[r] \in Registration
    BY <1>1
  <2>. QED
    BY <2>1 DEF Registration
<1>8. CASE replies
  <2>1. /\ y \in Call /\ FirstIsFirst(y) /\ y.event = e /\ y.handler = h
        /\ y.sent # <<>> /\ y.sent[1] = "own"
    BY <1>6, <1>8, SendReplyFacts DEF Answers
  <2>2. e = "awaited" /\ h = r
    BY <1>8 DEF e, h
  <2>. HIDE DEF y
  <2>3. FromHandler(y, registered)
    BY <1>8, <2>1, <2>2 DEF FromHandler
  <2>. QED
    BY <2>1, <2>3 DEF CallRight, y, runs, h, e
<1>9. CASE ~replies
  <2>1. y = runs
    BY <1>9
  <2>2. FromHandler(runs, registered)
    <3>1. CASE awaited
      BY <1>6, <1>7, <1>9, <3>1 DEF FromHandler, HandlerFns, h, e
    <3>2. CASE ~awaited
      BY <1>6, <3>2 DEF FromHandler, h, e
    <3>. QED
      BY <3>1, <3>2
  <2>. HIDE DEF y
  <2>3. y \in Call /\ CallRight(y, registered)
    BY <1>6, <2>1, <2>2 DEF CallRight
  <2>. QED
    BY <2>3 DEF y, runs, h, e
<1>. QED
  BY <1>8, <1>9

\* A handler of handleOnce is removed by the call that runs it, and the call
\* waits for what its handler returns.
LEMMA InvokeKeeps ==
  ASSUME BridgeInv, NEW c \in DOMAIN calls, Invoke(c)
  PROVE  BridgeInv'
<1> DEFINE x == calls[c]
           m == x.channel
           r == IF windowAlive THEN handlers[m] ELSE 0
           awaited == r # 0 /\ registered[r].fn # "fails"
           runs == [x EXCEPT !.handler = IF awaited THEN r ELSE 0,
                             !.event = IF awaited THEN "awaited" ELSE "free"]
           y == IF r # 0 /\ registered[r].fn = "replies" THEN SendReply(runs, "own") ELSE runs
<1>1. BridgeTypeOK /\ OnceIsRemoved /\ CallsRight
  BY DEF BridgeInv
<1>2. x \in Call /\ CallRight(x, registered)
  BY <1>1 DEF BridgeTypeOK, CallsRight
<1>3. m \in Channels
  BY <1>2 DEF Call
<1>4. r \in DOMAIN registered \cup {0}
  BY <1>1, <1>3 DEF BridgeTypeOK
<1>5. /\ x.event = "posted" /\ calls' = [calls EXCEPT ![c] = y]
      /\ invoked' = IF r = 0 THEN invoked ELSE [invoked EXCEPT ![r] = invoked[r] + 1]
      /\ handlers' = IF r # 0 /\ registered[r].once THEN [handlers EXCEPT ![m] = 0] ELSE handlers
      /\ UNCHANGED <<registered, windowAlive>>
  BY DEF Invoke
<1>6. y \in Call /\ CallRight(y, registered)
  BY <1>1, <1>2, <1>4, <1>5, InvokedCallIsRight
<1>. HIDE DEF y
<1>7. calls' \in Seq(Call) /\ CallsRight'
  BY <1>5, <1>6, OneCallChanges
<1>8. CASE r = 0
  BY <1>5, <1>7, <1>8, HandlersStay
<1>9. CASE r # 0
  <2>1. r = handlers[m] /\ handlers[m] # 0
    BY <1>9
  <2>2. BridgeTypeOK' /\ OnceIsRemoved'
    BY <1>1, <1>3, <1>5, <1>7, <2>1, InvokeCounts
  <2>. QED
    BY <1>7, <2>2 DEF BridgeInv
<1>. QED
  BY <1>8, <1>9

\* The value of a handler is the first answer; a handler that replied itself
\* has its answer before.
LEMMA SettleKeeps ==
  ASSUME BridgeInv, NEW c \in DOMAIN calls, Settle(c)
  PROVE  BridgeInv'
<1> DEFINE x == calls[c]
           answer == IF registered[x.handler].fn = "value" THEN "value" ELSE "undefined"
           y == [SendReply(x, answer) EXCEPT !.event = "free"]
<1>1. x \in Call /\ FirstIsFirst(x) /\ FromHandler(x, registered)
  BY DEF BridgeInv, BridgeTypeOK, CallsRight, CallRight
<1>2. /\ x.event = "awaited" /\ calls' = [calls EXCEPT ![c] = y]
      /\ UNCHANGED <<handlers, registered, invoked, windowAlive>>
  BY DEF Settle
<1>3. answer \in Answers
  BY DEF Answers
<1>4. /\ y \in Call /\ FirstIsFirst(y)
      /\ y.event = "free" /\ y.handler = x.handler /\ y.sent # <<>>
      /\ x.sent = <<>> => y.sent[1] = answer
      /\ x.sent # <<>> => y.sent[1] = x.sent[1]
  BY <1>1, <1>3, AnswerFacts, ZenonT(40)
<1>. HIDE DEF y
<1>5. FromHandler(y, registered)
  BY <1>1, <1>2, <1>4 DEF FromHandler
<1>6. calls' \in Seq(Call) /\ CallsRight'
  BY <1>2, <1>4, <1>5, OneCallChanges DEF CallRight
<1>. QED
  BY <1>2, <1>6, HandlersStay

\* A rejected promise leaves the call without an answer and a handler.
LEMMA RejectKeeps ==
  ASSUME BridgeInv, NEW c \in DOMAIN calls, Reject(c)
  PROVE  BridgeInv'
<1> DEFINE x == calls[c]
           y == [x EXCEPT !.event = "free", !.handler = 0]
<1>1. x \in Call /\ FirstIsFirst(x) /\ FromHandler(x, registered) /\ calls \in Seq(Call)
  BY DEF BridgeInv, BridgeTypeOK, CallsRight, CallRight
<1>2. /\ x.event = "awaited" /\ registered[x.handler].fn = "value"
      /\ calls' = [calls EXCEPT ![c].event = "free", ![c].handler = 0]
      /\ UNCHANGED <<handlers, registered, invoked, windowAlive>>
  BY DEF Reject
<1>3. calls' = [calls EXCEPT ![c] = y]
  BY <1>1, <1>2
<1>4. y \in Call
  BY <1>1 DEF Call
<1>5. /\ y.event = "free" /\ y.handler = 0 /\ y.sent = x.sent
      /\ y.queue = x.queue /\ y.got = x.got /\ y.tsfn = x.tsfn
  BY <1>1 DEF Call
<1>. HIDE DEF y
<1>6. FirstIsFirst(y)
  BY <1>1, <1>5 DEF FirstIsFirst
<1>7. x.sent = <<>>
  BY <1>1, <1>2 DEF FromHandler
<1>8. FromHandler(y, registered)
  BY <1>1, <1>5, <1>7 DEF FromHandler
<1>9. calls' \in Seq(Call) /\ CallsRight'
  BY <1>2, <1>3, <1>4, <1>6, <1>8, OneCallChanges DEF CallRight
<1>. QED
  BY <1>2, <1>9, HandlersStay

\* The error of a collected event is the first answer only where there is no
\* other.
LEMMA CollectKeeps ==
  ASSUME BridgeInv, NEW c \in DOMAIN calls, Collect(c)
  PROVE  BridgeInv'
<1> DEFINE x == calls[c]
           y == [SendReply(x, "never sent") EXCEPT !.event = "collected"]
<1>1. x \in Call /\ FirstIsFirst(x) /\ FromHandler(x, registered)
  BY DEF BridgeInv, BridgeTypeOK, CallsRight, CallRight
<1>2. /\ x.event = "free" /\ calls' = [calls EXCEPT ![c] = y]
      /\ UNCHANGED <<handlers, registered, invoked, windowAlive>>
  BY DEF Collect
<1>3. /\ y \in Call /\ FirstIsFirst(y)
      /\ y.event = "collected" /\ y.handler = x.handler /\ y.sent # <<>>
      /\ x.sent = <<>> => y.sent[1] = "never sent"
      /\ x.sent # <<>> => y.sent[1] = x.sent[1]
  BY <1>1, AnswerFacts, ZenonT(40) DEF Answers
<1>. HIDE DEF y
<1>4. registered \in Seq(Registration)
  BY DEF BridgeInv, BridgeTypeOK
<1>5. x.handler # 0 => x.sent # <<>>
  <2>1. x.handler # 0 => registered[x.handler].fn \in HandlerFns
    BY <1>1, <1>4, RegistrationFacts
  <2>. QED
    BY <1>1, <1>2, <2>1 DEF FromHandler, HandlerFns
<1>6. FromHandler(y, registered)
  BY <1>1, <1>2, <1>3, <1>5 DEF FromHandler
<1>7. calls' \in Seq(Call) /\ CallsRight'
  BY <1>2, <1>3, <1>6, OneCallChanges DEF CallRight
<1>. QED
  BY <1>2, <1>7, HandlersStay

\* The callback gets the answers in the order in which they were sent.
LEMMA CallbackKeeps ==
  ASSUME BridgeInv, NEW c \in DOMAIN calls, Callback(c)
  PROVE  BridgeInv'
<1> DEFINE x == calls[c]
           f == IF x.tsfn = "released" /\ Len(x.queue) = 1 THEN "gone" ELSE x.tsfn
           y == [x EXCEPT !.got = Append(x.got, Head(x.queue)),
                          !.queue = Tail(x.queue), !.tsfn = f]
<1>1. x \in Call /\ FirstIsFirst(x) /\ FromHandler(x, registered)
  BY DEF BridgeInv, BridgeTypeOK, CallsRight, CallRight
<1>2. /\ x.queue # <<>> /\ calls' = [calls EXCEPT ![c] = y]
      /\ UNCHANGED <<handlers, registered, invoked, windowAlive>>
  BY DEF Callback
<1>3. f \in {"open", "released", "gone"}
  BY <1>1 DEF Call
<1>. HIDE DEF f
<1>4. /\ y \in Call /\ FirstIsFirst(y)
      /\ y.event = x.event /\ y.handler = x.handler /\ y.sent = x.sent
  BY <1>1, <1>2, <1>3, CallbackFacts
<1>. HIDE DEF y
<1>5. FromHandler(y, registered)
  BY <1>1, <1>4 DEF FromHandler
<1>6. calls' \in Seq(Call) /\ CallsRight'
  BY <1>2, <1>4, <1>5, OneCallChanges DEF CallRight
<1>. QED
  BY <1>2, <1>6, HandlersStay

\* The calls of a page outlive its window.
LEMMA WindowDestroyedKeeps == BridgeInv /\ WindowDestroyed => BridgeInv'
BY DEF WindowDestroyed, BridgeInv, BridgeTypeOK, OnceIsRemoved, CallsRight

\* Every step keeps the invariant.
LEMMA NextKeeps == BridgeInv /\ [BridgeNext]_bridgeVars => BridgeInv'
<1> SUFFICES ASSUME BridgeInv, [BridgeNext]_bridgeVars
             PROVE  BridgeInv'
  OBVIOUS
<1>1. ASSUME NEW m \in Channels, NEW fn \in HandlerFns, Handle(m, fn) \/ HandleOnce(m, fn)
      PROVE  BridgeInv'
  BY <1>1, RegisterKeeps DEF Handle, HandleOnce
<1>2. ASSUME NEW m \in Channels, RemoveHandler(m) \/ PageCall(m)
      PROVE  BridgeInv'
  BY <1>2, RemoveHandlerKeeps, PageCallKeeps
<1>3. ASSUME NEW c \in DOMAIN calls,
             Invoke(c) \/ Settle(c) \/ Reject(c) \/ Collect(c) \/ Callback(c)
      PROVE  BridgeInv'
  BY <1>3, InvokeKeeps, SettleKeeps, RejectKeeps, CollectKeeps, CallbackKeeps
<1>4. CASE WindowDestroyed
  BY <1>4, WindowDestroyedKeeps
<1>5. CASE UNCHANGED bridgeVars
  BY <1>5 DEF bridgeVars, BridgeInv, BridgeTypeOK, OnceIsRemoved, CallsRight
<1>. QED
  BY <1>1, <1>2, <1>3, <1>4, <1>5 DEF BridgeNext
-----------------------------------------------------------------------------
\* What the handlers and the calls of a page always are.
THEOREM BridgeKeeps == BridgeSpec => []BridgeInv
BY InitHolds, NextKeeps, PTL DEF BridgeSpec

\* lynx-bridge-impl.ts:43: a handler of handleOnce runs at most once, for any
\* number of handlers and of calls that are on their way.
THEOREM OnceRunsOnceTheorem == BridgeSpec => []OnceRunsOnce
<1>1. BridgeInv => OnceRunsOnce
  BY DEF BridgeInv, OnceIsRemoved, OnceRunsOnce
<1>. QED
  BY <1>1, BridgeKeeps, PTL

\* lynx_native_module.cc:223: a call whose callback was not called is still on
\* its way.
THEOREM NoCallIsLostTheorem == BridgeSpec => []NoCallIsLost
<1>1. ASSUME BridgeInv, NEW c \in DOMAIN calls
      PROVE  \/ calls[c].got # <<>> \/ calls[c].queue # <<>>
             \/ calls[c].event \in {"posted", "awaited", "free"}
  <2> DEFINE x == calls[c]
  <2>1. x \in Call /\ CallRight(x, registered) /\ registered \in Seq(Registration)
    BY <1>1 DEF BridgeInv, BridgeTypeOK, CallsRight
  <2>2. x.event \in {"posted", "awaited", "free", "collected"}
    BY <2>1 DEF Call
  <2>3. x.handler # 0 => registered[x.handler].fn \in HandlerFns
    BY <2>1, RegistrationFacts DEF CallRight
  <2>4. x.event = "collected" => x.sent # <<>>
    BY <2>1, <2>3 DEF CallRight, FromHandler, HandlerFns
  <2>. QED
    BY <2>1, <2>2, <2>4 DEF CallRight, FirstIsFirst
<1>2. BridgeInv => NoCallIsLost
  BY <1>1 DEF NoCallIsLost
<1>. QED
  BY <1>2, BridgeKeeps, PTL

\* lynx-bridge.d.ts:15: the first answer is the handler's, whatever happens to
\* the handler, the window and the event meanwhile.
THEOREM FirstAnswerTheorem == BridgeSpec => []FirstAnswerIsTheHandlers
<1>1. ASSUME BridgeInv, NEW c \in DOMAIN calls, calls[c].got # <<>>
      PROVE  Head(calls[c].got) =
               IF calls[c].handler = 0 THEN "never sent"
               ELSE IF registered[calls[c].handler].fn = "value" THEN "value" ELSE "own"
  <2> DEFINE x == calls[c]
  <2>1. x \in Call /\ CallRight(x, registered) /\ registered \in Seq(Registration)
    BY <1>1 DEF BridgeInv, BridgeTypeOK, CallsRight
  <2>2. Head(x.got) = x.got[1]
    BY <1>1, <2>1 DEF Call
  <2>3. x.sent # <<>> /\ x.got[1] = x.sent[1]
    BY <1>1, <2>1 DEF CallRight, FirstIsFirst
  <2>4. CASE x.handler = 0
    <3>1. x.event \in {"posted", "awaited", "free", "collected"}
      BY <2>1 DEF Call
    <3>2. x.sent[1] = "never sent"
      BY <2>1, <2>3, <2>4, <3>1 DEF CallRight, FromHandler
    <3>. QED
      BY <2>2, <2>3, <2>4, <3>2
  <2>5. CASE x.handler # 0 /\ registered[x.handler].fn = "value"
    <3>1. x.sent[1] = "value"
      BY <2>1, <2>3, <2>5 DEF CallRight, FromHandler
    <3>. QED
      BY <2>2, <2>3, <2>5, <3>1
  <2>6. CASE x.handler # 0 /\ registered[x.handler].fn # "value"
    <3>1. registered[x.handler].fn \in HandlerFns
      BY <2>1, <2>6, RegistrationFacts DEF CallRight
    <3>2. registered[x.handler].fn = "replies"
      BY <2>1, <2>6, <3>1 DEF CallRight, FromHandler, HandlerFns
    <3>3. x.sent[1] = "own"
      BY <2>1, <2>6, <3>2 DEF CallRight, FromHandler
    <3>. QED
      BY <2>2, <2>3, <2>6, <3>3
  <2>. QED
    BY <2>4, <2>5, <2>6
<1>2. BridgeInv => FirstAnswerIsTheHandlers
  BY <1>1 DEF FirstAnswerIsTheHandlers
<1>. QED
  BY <1>2, BridgeKeeps, PTL

\* Whatever becomes of handlers, windows and events, a call of the page is
\* answered, once by a once handler, and first by its own.
THEOREM CallsAreAnsweredTheorem == BridgeSpec => []CallsAreAnswered
BY NoCallIsLostTheorem, OnceRunsOnceTheorem, FirstAnswerTheorem, PTL DEF CallsAreAnswered
=============================================================================
