--------------------------- MODULE AnswersProofs ----------------------------
(* Proofs about the two components in which somebody waits for an answer: an *)
(* operator for the reply to a request over Valkey, a member for what a      *)
(* reaction does.  They share no state; the names of the second component    *)
(* that the first one has too start with Roles.                              *)
EXTENDS BotBridge, ReactionRoles, TLAPS

(***************************************************************************)
(* BotBridge, for every set of requests, notifications, channels and modules, *)
(* every age limit, every longer claim and any number of faults.             *)
(***************************************************************************)

-----------------------------------------------------------------------------
(* Types: what the channel carries and what the listener may be at.         *)

RequestMessages ==
  {x \in [kind : Kinds, request : Requests, module : Modules \cup {""}] :
     x.kind \in {"load", "unload"} => x.module \in Modules}
EventMessages == [kind : {"event"}, event : Events]
MessageSet == RequestMessages \cup EventMessages

Replying == [kind : {"reply"}, request : Requests, answer : Results]
LookingUp == [kind : {"lookup"}, event : Events]
PostingTo == [kind : {"post"}, event : Events, to : SUBSET Channels]
Handlers == {Idle} \cup RequestMessages \cup Replying \cup LookingUp \cup PostingTo

Answers == Results \cup {NoReply}
Asked == [at : {"free", "waiting", "over"}, kind : Kinds, module : Modules \cup {""}, answer : Answers]

Typed ==
  /\ TypeOK
  /\ buffer \in Seq(MessageSet) /\ handler \in Handlers
  /\ asked \in [Requests -> Asked]
  /\ reply \in [Requests -> Answers] /\ handled \in [Requests -> Answers]
  /\ age \in [Events -> {Unsent} \cup Nat] /\ claim \in [Events -> Nat]
  /\ posts \in [Events -> [Channels -> Nat]]

LEMMA HandlerShape ==
  ASSUME NEW h \in Handlers
  PROVE  /\ h.kind \in Kinds => h \in RequestMessages
         /\ h.kind = "reply" => h \in Replying
         /\ h.kind = "lookup" => h \in LookingUp
         /\ h.kind = "post" => h \in PostingTo
  <1>1. CASE h = Idle
    BY <1>1 DEF Idle, Kinds
  <1>2. CASE h \in RequestMessages
    BY <1>2 DEF RequestMessages, Kinds
  <1>3. CASE h \in Replying
    BY <1>3 DEF Replying, Kinds
  <1>4. CASE h \in LookingUp
    BY <1>4 DEF LookingUp, Kinds
  <1>5. CASE h \in PostingTo
    BY <1>5 DEF PostingTo, Kinds
  <1> QED
    BY <1>1, <1>2, <1>3, <1>4, <1>5 DEF Handlers

LEMMA MessageShape ==
  ASSUME NEW x \in MessageSet
  PROVE  /\ x.kind = "event" => x \in EventMessages
         /\ x.kind # "event" => x \in RequestMessages /\ x.kind \in Kinds
         /\ x.kind = "event" => x.kind \notin Kinds
  BY DEF MessageSet, RequestMessages, EventMessages, Kinds

-----------------------------------------------------------------------------
(* The inductive invariant.  A request or a notification is in one place at *)
(* most: in the channel once, or with the handler, or done.  A notification *)
(* that was passed on once is claimed, or too old to be accepted again.     *)

ForEvent(x, e) == x.kind = "event" /\ x.event = e
ForRequest(x, r) == x.kind # "event" /\ x.request = r
Same(x, y) ==
  \/ \E e \in Events : ForEvent(x, e) /\ ForEvent(y, e)
  \/ \E r \in Requests : ForRequest(x, r) /\ ForRequest(y, r)

QueuedEvent(b, e) == \E i \in 1 .. Len(b) : ForEvent(b[i], e)
QueuedRequest(b, r) == \E i \in 1 .. Len(b) : ForRequest(b[i], r)
Apart(b) == \A i, j \in 1 .. Len(b) : i < j => ~Same(b[i], b[j])

Working(r) == handler.kind \in Kinds /\ handler.request = r
LookingUpFor(e) == handler.kind = "lookup" /\ handler.event = e
PostingFor(e) == handler.kind = "post" /\ handler.event = e
Begun(e) == QueuedEvent(buffer, e) \/ LookingUpFor(e) \/ PostingFor(e) \/ \E c \in Channels : posts[e][c] # 0

EventOK(e) ==
  /\ QueuedEvent(buffer, e) => ~LookingUpFor(e) /\ ~PostingFor(e)
  /\ QueuedEvent(buffer, e) \/ LookingUpFor(e) => \A c \in Channels : posts[e][c] = 0
  /\ PostingFor(e) => \A c \in handler.to : posts[e][c] = 0
  /\ \A c \in Channels : posts[e][c] <= 1
  /\ Begun(e) => age[e] >= 0 /\ claim[e] + age[e] > MaxAge

RequestOK(r) ==
  /\ asked[r].at = "free" => ~QueuedRequest(buffer, r) /\ ~Working(r) /\ handled[r] = NoReply
  /\ QueuedRequest(buffer, r) => ~Working(r) /\ handled[r] = NoReply
  /\ Working(r) => handled[r] = NoReply
  /\ handler.kind = "reply" /\ handler.request = r => handler.answer = handled[r]
  /\ reply[r] \in {NoReply, handled[r]} /\ asked[r].answer \in {NoReply, handled[r]}

Inv == Typed /\ Apart(buffer) /\ (\A e \in Events : EventOK(e)) /\ (\A r \in Requests : RequestOK(r))

LEMMA InitInv == Init => Inv
  <1> SUFFICES ASSUME Init PROVE Inv
    OBVIOUS
  <1>1. TypeOK
    <2>1. \A r \in Requests : asked[r] = Free /\ Free.answer = NoReply /\ reply[r] = NoReply
      BY DEF Init, Free
    <2>2. listening = FALSE /\ buffer = <<>> /\ loaded = Modules /\ faults = 0
      BY DEF Init
    <2>3. listening \in BOOLEAN
      BY <2>2
    <2> QED
      BY <2>1, <2>2, <2>3, ConstantsAssumption DEF TypeOK
  <1>2. Free \in Asked /\ Free.at = "free" /\ Free.answer = NoReply
    BY DEF Free, Asked, Kinds, Answers
  <1>3. /\ buffer = <<>> /\ handler = Idle /\ handler.kind = "idle"
        /\ asked = [r \in Requests |-> Free] /\ reply = [r \in Requests |-> NoReply]
        /\ handled = [r \in Requests |-> NoReply]
        /\ age = [e \in Events |-> Unsent] /\ claim = [e \in Events |-> 0]
        /\ posts = [e \in Events |-> [c \in Channels |-> 0]]
    BY DEF Init, Idle
  <1>4. Typed
    <2>1. buffer \in Seq(MessageSet)
      BY <1>3
    <2>2. handler \in Handlers
      <3>1. handler = Idle
        BY DEF Init
      <3> QED
        BY <3>1 DEF Handlers
    <2>3. asked \in [Requests -> Asked] /\ reply \in [Requests -> Answers] /\ handled \in [Requests -> Answers]
      BY <1>2, <1>3 DEF Answers
    <2>4. /\ age \in [Events -> {Unsent} \cup Nat] /\ claim \in [Events -> Nat]
          /\ posts \in [Events -> [Channels -> Nat]]
      BY <1>3
    <2> QED
      BY <1>1, <2>1, <2>2, <2>3, <2>4 DEF Typed
  <1>5. Apart(buffer) /\ \A e \in Events : ~Begun(e) /\ \A c \in Channels : posts[e][c] = 0
    BY <1>3 DEF Apart, Begun, QueuedEvent, LookingUpFor, PostingFor
  <1>6. \A e \in Events : EventOK(e)
    BY <1>5 DEF EventOK, Begun
  <1>7. \A r \in Requests : RequestOK(r)
    BY <1>2, <1>3 DEF RequestOK, QueuedRequest, Working, Kinds
  <1> QED
    BY <1>4, <1>5, <1>6, <1>7 DEF Inv

-----------------------------------------------------------------------------
(* The channel.                                                             *)

\* What publishing a message adds, if nothing of its kind is queued yet.
LEMMA Published ==
  ASSUME Inv, NEW x \in MessageSet, Publish(x), \A i \in 1 .. Len(buffer) : ~Same(buffer[i], x)
  PROVE  /\ buffer' \in Seq(MessageSet) /\ Apart(buffer') /\ (~listening => buffer' = <<>>)
         /\ \A e : QueuedEvent(buffer', e) => QueuedEvent(buffer, e) \/ ForEvent(x, e)
         /\ \A r : QueuedRequest(buffer', r) => QueuedRequest(buffer, r) \/ ForRequest(x, r)
  <1>1. buffer \in Seq(MessageSet) /\ Apart(buffer) /\ (~listening => buffer = <<>>)
    BY DEF Inv, Typed, TypeOK
  <1>2. CASE ~listening
    BY <1>1, <1>2 DEF Publish
  <1>3. CASE listening
    <2>1. buffer' = Append(buffer, x)
      BY <1>3 DEF Publish
    <2>2. /\ buffer' \in Seq(MessageSet) /\ Len(buffer') = Len(buffer) + 1 /\ Len(buffer) \in Nat
          /\ \A i \in 1 .. Len(buffer) : buffer'[i] = buffer[i]
          /\ buffer'[Len(buffer) + 1] = x
      BY <1>1, <2>1
    <2>3. \A i \in 1 .. Len(buffer') : i \in 1 .. Len(buffer) \/ i = Len(buffer) + 1
      BY <2>2
    <2>4. Apart(buffer')
      <3> SUFFICES ASSUME NEW i \in 1 .. Len(buffer'), NEW j \in 1 .. Len(buffer'), i < j
                   PROVE  ~Same(buffer'[i], buffer'[j])
        BY DEF Apart
      <3>1. i \in 1 .. Len(buffer)
        BY <2>2
      <3>2. CASE j \in 1 .. Len(buffer)
        BY <1>1, <2>2, <3>1, <3>2 DEF Apart
      <3>3. CASE j = Len(buffer) + 1
        BY <2>2, <3>1, <3>3
      <3> QED BY <2>3, <3>2, <3>3
    <2> QED
      BY <1>3, <2>2, <2>3, <2>4 DEF QueuedEvent, QueuedRequest
  <1> QED
    BY <1>2, <1>3

\* What taking the first message leaves.
LEMMA Taken ==
  ASSUME Inv, buffer # <<>>
  PROVE  /\ Tail(buffer) \in Seq(MessageSet) /\ Head(buffer) \in MessageSet /\ Apart(Tail(buffer))
         /\ \A e \in Events : /\ QueuedEvent(Tail(buffer), e) => QueuedEvent(buffer, e) /\ ~ForEvent(Head(buffer), e)
                              /\ ForEvent(Head(buffer), e) => QueuedEvent(buffer, e)
         /\ \A r \in Requests : /\ QueuedRequest(Tail(buffer), r) => QueuedRequest(buffer, r) /\ ~ForRequest(Head(buffer), r)
                                /\ ForRequest(Head(buffer), r) => QueuedRequest(buffer, r)
  <1>1. buffer \in Seq(MessageSet) /\ Apart(buffer)
    BY DEF Inv, Typed
  <1> DEFINE t == Tail(buffer)
  <1>2. /\ t \in Seq(MessageSet) /\ Len(t) = Len(buffer) - 1 /\ Len(buffer) \in Nat \ {0}
        /\ Head(buffer) = buffer[1] /\ Head(buffer) \in MessageSet
        /\ \A i \in 1 .. Len(t) : t[i] = buffer[i + 1]
    BY <1>1
  <1>3. \A i \in 1 .. Len(t) : i + 1 \in 1 .. Len(buffer) /\ 1 < i + 1
    BY <1>2
  <1>4. 1 \in 1 .. Len(buffer)
    BY <1>2
  <1> HIDE DEF t
  <1>5. Apart(t)
    <2> SUFFICES ASSUME NEW i \in 1 .. Len(t), NEW j \in 1 .. Len(t), i < j
                 PROVE  ~Same(t[i], t[j])
      BY DEF Apart
    <2>1. i + 1 < j + 1
      BY <1>2
    <2> QED
      BY <1>1, <1>2, <1>3, <2>1 DEF Apart
  <1>6. \A i \in 1 .. Len(t) : ~Same(Head(buffer), t[i])
    BY <1>1, <1>2, <1>3, <1>4 DEF Apart
  <1>7. ASSUME NEW e \in Events
        PROVE  /\ QueuedEvent(t, e) => QueuedEvent(buffer, e) /\ ~ForEvent(Head(buffer), e)
               /\ ForEvent(Head(buffer), e) => QueuedEvent(buffer, e)
    BY <1>2, <1>3, <1>4, <1>6 DEF QueuedEvent, Same
  <1>8. ASSUME NEW r \in Requests
        PROVE  /\ QueuedRequest(t, r) => QueuedRequest(buffer, r) /\ ~ForRequest(Head(buffer), r)
               /\ ForRequest(Head(buffer), r) => QueuedRequest(buffer, r)
    BY <1>2, <1>3, <1>4, <1>6 DEF QueuedRequest, Same
  <1> QED
    BY <1>2, <1>5, <1>7, <1>8 DEF t

LEMMA NothingQueued ==
  /\ Apart(<<>>) /\ \A x : ~QueuedEvent(<<>>, x) /\ ~QueuedRequest(<<>>, x)
  BY DEF Apart, QueuedEvent, QueuedRequest

-----------------------------------------------------------------------------
(* Frames: a step that leaves one half of the bridge alone.                 *)

LEMMA EventFrame ==
  ASSUME Inv, UNCHANGED <<age, claim, posts>>,
         \A e \in Events : QueuedEvent(buffer', e) => QueuedEvent(buffer, e),
         handler' = handler \/ handler'.kind \notin {"lookup", "post"}
  PROVE  \A e \in Events : EventOK(e)'
  BY DEF Inv, EventOK, Begun, LookingUpFor, PostingFor

LEMMA RequestFrame ==
  ASSUME Inv, UNCHANGED <<asked, reply, handled>>,
         \A r \in Requests : QueuedRequest(buffer', r) => QueuedRequest(buffer, r),
         handler' = handler \/ handler'.kind \notin Kinds \cup {"reply"}
  PROVE  \A r \in Requests : RequestOK(r)'
  BY DEF Inv, RequestOK, Working

-----------------------------------------------------------------------------
(* The dashboard's side.                                                    *)

LEMMA SendInv ==
  ASSUME Inv, NEW r \in Requests, NEW kind \in Kinds, NEW m \in Modules \cup {""}, Send(r, kind, m)
  PROVE  Inv'
  <1> DEFINE x == [kind |-> kind, request |-> r, module |-> m]
  <1>1. /\ asked[r].at = "free" /\ Publish(x) /\ (kind \in {"load", "unload"} => m \in Modules)
        /\ asked' = [asked EXCEPT ![r] = [@ EXCEPT !.at = "waiting", !.kind = kind, !.module = m]]
        /\ UNCHANGED <<listening, handler, reply, bot, events, faults, handled>>
    <2>1. asked[r] = Free /\ Free.at = "free"
      BY DEF Send, Free
    <2> QED
      BY <2>1 DEF Send
  <1>2. x \in MessageSet /\ x.kind # "event" /\ x.request = r
    BY <1>1 DEF MessageSet, RequestMessages, Kinds
  <1> HIDE DEF x
  <1>3. ~QueuedRequest(buffer, r) /\ ~Working(r) /\ handled[r] = NoReply
    BY <1>1 DEF Inv, RequestOK
  <1>4. \A i \in 1 .. Len(buffer) : ~Same(buffer[i], x)
    BY <1>2, <1>3 DEF Same, ForEvent, ForRequest, QueuedRequest
  <1>5. /\ buffer' \in Seq(MessageSet) /\ Apart(buffer') /\ (~listening => buffer' = <<>>)
        /\ \A e : QueuedEvent(buffer', e) => QueuedEvent(buffer, e)
        /\ \A q : QueuedRequest(buffer', q) => QueuedRequest(buffer, q) \/ q = r
    BY <1>1, <1>2, <1>4, Published DEF ForEvent, ForRequest
  <1>6. /\ asked' \in [Requests -> Asked] /\ asked'[r].at = "waiting" /\ asked'[r].answer = asked[r].answer
        /\ \A q \in Requests : q # r => asked'[q] = asked[q]
    BY <1>1 DEF Inv, Typed, Asked
  <1>7. Typed'
    <2>1. TypeOK'
      BY <1>1, <1>5, <1>6 DEF Inv, Typed, TypeOK, bot, events, Asked, Answers
    <2> QED
      BY <1>1, <1>5, <1>6, <2>1 DEF Inv, Typed, bot, events
  <1>8. \A e \in Events : EventOK(e)'
    BY <1>1, <1>5, EventFrame DEF events
  <1>9. ASSUME NEW q \in Requests PROVE RequestOK(q)'
    <2>1. RequestOK(q) /\ UNCHANGED <<handler, reply, handled>> /\ (Working(q)' <=> Working(q))
      BY <1>1 DEF Inv, Working
    <2>2. CASE q = r
      BY <1>3, <1>6, <2>1, <2>2 DEF RequestOK
    <2>3. CASE q # r
      BY <1>5, <1>6, <2>1, <2>3 DEF RequestOK
    <2> QED BY <2>2, <2>3
  <1> QED
    BY <1>5, <1>7, <1>8, <1>9 DEF Inv

\* The reply is taken, has expired, or is waited for no more.
LEMMA WaitInv ==
  ASSUME Inv, NEW r \in Requests, Receive(r) \/ GiveUp(r) \/ ReplyExpires(r)
  PROVE  Inv'
  <1>1. /\ UNCHANGED <<listening, buffer, handler, bot, events, faults, handled>>
        /\ asked[r].at # "free"
    BY DEF Receive, GiveUp, ReplyExpires
  <1>2. /\ asked' \in [Requests -> Asked] /\ asked'[r].at # "free"
        /\ asked'[r].answer \in {asked[r].answer, reply[r]}
        /\ \A q \in Requests : q # r => asked'[q] = asked[q]
    <2>1. CASE Receive(r)
      <3>1. asked' = [asked EXCEPT ![r] = [@ EXCEPT !.at = "over", !.answer = reply[r]]]
        BY <2>1 DEF Receive
      <3> QED
        BY <3>1 DEF Inv, Typed, Asked
    <2>2. CASE GiveUp(r)
      <3>1. asked' = [asked EXCEPT ![r] = [@ EXCEPT !.at = "over"]]
        BY <2>2 DEF GiveUp
      <3> QED
        BY <3>1 DEF Inv, Typed, Asked
    <2>3. CASE ReplyExpires(r)
      BY <1>1, <2>3 DEF ReplyExpires, Inv, Typed
    <2> QED BY <2>1, <2>2, <2>3
  <1>3. /\ reply' \in [Requests -> Answers] /\ reply'[r] \in {reply[r], NoReply}
        /\ \A q \in Requests : q # r => reply'[q] = reply[q]
    BY DEF Receive, GiveUp, ReplyExpires, Inv, Typed, Answers
  <1>4. Typed'
    <2>1. TypeOK'
      BY <1>1, <1>2, <1>3 DEF Inv, Typed, TypeOK, bot, events, Asked, Answers
    <2> QED
      BY <1>1, <1>2, <1>3, <2>1 DEF Inv, Typed, bot, events
  <1>5. \A e \in Events : EventOK(e)'
    BY <1>1, EventFrame DEF events
  <1>6. ASSUME NEW q \in Requests PROVE RequestOK(q)'
    <2>1. RequestOK(q) /\ UNCHANGED <<buffer, handler, handled>> /\ (Working(q)' <=> Working(q))
      BY <1>1 DEF Inv, Working
    <2>2. CASE q = r
      BY <1>2, <1>3, <2>1, <2>2 DEF RequestOK
    <2>3. CASE q # r
      BY <1>2, <1>3, <2>1, <2>3 DEF RequestOK
    <2> QED BY <2>2, <2>3
  <1> QED
    BY <1>1, <1>4, <1>5, <1>6 DEF Inv

-----------------------------------------------------------------------------
(* Twitch and the webhook.                                                  *)

LEMMA HappensInv ==
  ASSUME Inv, NEW e \in Events, Happens(e)
  PROVE  Inv'
  <1>1. /\ age[e] = Unsent /\ age' = [age EXCEPT ![e] = 0]
        /\ UNCHANGED <<listening, buffer, handler, asked, reply, bot, claim, faults, handled, posts, missed>>
    BY DEF Happens
  <1>2. Typed'
    <2>1. TypeOK'
      BY <1>1 DEF Inv, Typed, TypeOK, bot
    <2> QED
      BY <1>1, <2>1 DEF Inv, Typed, bot
  <1>3. ASSUME NEW d \in Events PROVE EventOK(d)'
    <2>1. (Begun(d)' <=> Begun(d)) /\ EventOK(d)
      BY <1>1 DEF Inv, Begun, LookingUpFor, PostingFor
    <2>2. Begun(d) => age'[d] >= 0 /\ claim[d] + age'[d] > MaxAge
      BY <1>1, <2>1 DEF EventOK, Inv, Typed, Unsent
    <2> QED
      BY <1>1, <2>1, <2>2 DEF EventOK, LookingUpFor, PostingFor
  <1>4. \A r \in Requests : RequestOK(r)'
    BY <1>1, RequestFrame
  <1> QED
    BY <1>1, <1>2, <1>3, <1>4 DEF Inv

\* An id that may be claimed again belongs to a notification nobody has begun with.
LEMMA UnclaimedNotBegun ==
  ASSUME Inv, NEW e \in Events, Accepted(e), claim[e] = 0
  PROVE  ~Begun(e) /\ age[e] \in Nat
  BY ConstantsAssumption DEF Inv, EventOK, Accepted

LEMMA WebhookInv ==
  ASSUME Inv, NEW e \in Events, Webhook(e) \/ WebhookFails(e)
  PROVE  Inv'
  <1> DEFINE x == [kind |-> "event", event |-> e]
  <1>1. /\ claim' = [claim EXCEPT ![e] = ClaimTtl] /\ Accepted(e) /\ claim[e] = 0
        /\ UNCHANGED <<listening, handler, asked, reply, bot, age, handled, posts>>
    BY DEF Webhook, WebhookFails
  <1>2. ~Begun(e) /\ age[e] \in Nat
    BY <1>1, UnclaimedNotBegun
  <1>3. x \in MessageSet /\ x.kind = "event" /\ x.event = e
    BY DEF MessageSet, EventMessages
  <1> HIDE DEF x
  <1>4. /\ buffer' \in Seq(MessageSet) /\ Apart(buffer') /\ (~listening => buffer' = <<>>)
        /\ \A d : QueuedEvent(buffer', d) => QueuedEvent(buffer, d) \/ d = e
        /\ \A r : QueuedRequest(buffer', r) => QueuedRequest(buffer, r)
    <2>1. CASE Webhook(e)
      <3>1. Publish(x)
        BY <2>1 DEF Webhook, x
      <3>2. \A i \in 1 .. Len(buffer) : ~Same(buffer[i], x)
        BY <1>2, <1>3 DEF Same, ForEvent, ForRequest, Begun, QueuedEvent
      <3> QED
        BY <1>3, <3>1, <3>2, Published DEF ForEvent, ForRequest
    <2>2. CASE WebhookFails(e)
      BY <2>2 DEF WebhookFails, Inv, Typed, TypeOK
    <2> QED BY <2>1, <2>2
  <1>5. faults' \in 0 .. MaxFaults
    BY ConstantsAssumption DEF Webhook, WebhookFails, Fault, Inv, Typed, TypeOK
  <1>6. claim' \in [Events -> Nat] /\ claim'[e] = ClaimTtl /\ \A d \in Events : d # e => claim'[d] = claim[d]
    BY <1>1, ConstantsAssumption DEF Inv, Typed
  <1>7. Typed'
    <2>1. TypeOK'
      BY <1>1, <1>4, <1>5 DEF Inv, Typed, TypeOK, bot
    <2> QED
      BY <1>1, <1>4, <1>6, <2>1 DEF Inv, Typed, bot
  <1>8. ASSUME NEW d \in Events PROVE EventOK(d)'
    <2>1. EventOK(d) /\ (LookingUpFor(d)' <=> LookingUpFor(d)) /\ (PostingFor(d)' <=> PostingFor(d))
      BY <1>1 DEF Inv, LookingUpFor, PostingFor
    <2>2. CASE d = e
      <3>1. claim'[e] + age'[e] > MaxAge /\ age'[e] >= 0
        BY <1>1, <1>2, <1>6, ConstantsAssumption
      <3>2. /\ ~LookingUpFor(e) /\ ~PostingFor(e)
            /\ \A c \in Channels : posts[e][c] = 0
        BY <1>2 DEF Begun
      <3> QED
        BY <1>1, <2>1, <2>2, <3>1, <3>2 DEF EventOK
    <2>3. CASE d # e
      BY <1>1, <1>4, <1>6, <2>1, <2>3 DEF EventOK, Begun
    <2> QED BY <2>2, <2>3
  <1>9. \A r \in Requests : RequestOK(r)'
    BY <1>1, <1>4, RequestFrame
  <1> QED
    BY <1>4, <1>7, <1>8, <1>9 DEF Inv

\* Age and claim add up to the same until the notification is too old.
LEMMA TickInv ==
  ASSUME Inv, Tick
  PROVE  Inv'
  <1>1. /\ age' = [e \in Events |-> IF age[e] \in 0 .. MaxAge THEN age[e] + 1 ELSE age[e]]
        /\ claim' = [e \in Events |-> IF claim[e] > 0 THEN claim[e] - 1 ELSE 0]
        /\ UNCHANGED <<listening, buffer, handler, asked, reply, bot, faults, handled, posts, missed>>
    BY DEF Tick
  <1>2. Typed'
    <2>1. TypeOK'
      BY <1>1 DEF Inv, Typed, TypeOK, bot
    <2>2. age' \in [Events -> {Unsent} \cup Nat] /\ claim' \in [Events -> Nat]
      BY <1>1 DEF Inv, Typed
    <2> QED
      BY <1>1, <2>1, <2>2 DEF Inv, Typed, bot
  <1>3. ASSUME NEW d \in Events PROVE EventOK(d)'
    <2>1. (Begun(d)' <=> Begun(d)) /\ EventOK(d)
      BY <1>1 DEF Inv, Begun, LookingUpFor, PostingFor
    <2>2. Begun(d) => age'[d] >= 0 /\ claim'[d] + age'[d] > MaxAge
      BY <1>1, <2>1, ConstantsAssumption DEF EventOK, Inv, Typed, Unsent
    <2> QED
      BY <1>1, <2>1, <2>2 DEF EventOK, LookingUpFor, PostingFor
  <1>4. \A r \in Requests : RequestOK(r)'
    BY <1>1, RequestFrame
  <1> QED
    BY <1>1, <1>2, <1>3, <1>4 DEF Inv

-----------------------------------------------------------------------------
(* The listener and its handlers.                                           *)

LEMMA TakeInv ==
  ASSUME Inv, Take
  PROVE  Inv'
  <1> DEFINE x == Head(buffer)
  <1>1. /\ listening /\ handler = Idle /\ buffer # <<>> /\ buffer' = Tail(buffer)
        /\ handler' = IF x.kind = "event" THEN [kind |-> "lookup", event |-> x.event] ELSE x
        /\ UNCHANGED <<listening, asked, reply, bot, events, faults, handled>>
    BY DEF Take
  <1>2. /\ buffer' \in Seq(MessageSet) /\ x \in MessageSet /\ Apart(buffer')
        /\ \A e \in Events : /\ QueuedEvent(buffer', e) => QueuedEvent(buffer, e) /\ ~ForEvent(x, e)
                             /\ ForEvent(x, e) => QueuedEvent(buffer, e)
        /\ \A r \in Requests : /\ QueuedRequest(buffer', r) => QueuedRequest(buffer, r) /\ ~ForRequest(x, r)
                               /\ ForRequest(x, r) => QueuedRequest(buffer, r)
    BY <1>1, Taken
  <1> HIDE DEF x
  <1>3. /\ handler' \in Handlers
        /\ \A e : LookingUpFor(e)' => ForEvent(x, e)
        /\ \A e : ~PostingFor(e)'
        /\ \A r : Working(r)' => ForRequest(x, r)
        /\ handler'.kind # "reply"
    <2>1. CASE x.kind = "event"
      <3>1. handler' = [kind |-> "lookup", event |-> x.event] /\ x.event \in Events
        BY <1>1, <1>2, <2>1, MessageShape DEF EventMessages
      <3>2. handler' \in LookingUp /\ handler'.kind = "lookup" /\ handler'.event = x.event
        BY <3>1 DEF LookingUp
      <3> QED
        BY <2>1, <3>2 DEF Handlers, LookingUpFor, PostingFor, Working, ForEvent, Kinds
    <2>2. CASE x.kind # "event"
      <3>1. handler' = x /\ x \in RequestMessages /\ x.kind \in Kinds
        BY <1>1, <1>2, <2>2, MessageShape
      <3> QED
        BY <2>2, <3>1 DEF Handlers, LookingUpFor, PostingFor, Working, ForRequest, Kinds
    <2> QED BY <2>1, <2>2
  <1>4. Typed'
    <2>1. TypeOK'
      BY <1>1 DEF Inv, Typed, TypeOK, bot, events
    <2> QED
      BY <1>1, <1>2, <1>3, <2>1 DEF Inv, Typed, bot, events
  <1>5. ASSUME NEW e \in Events PROVE EventOK(e)'
    <2>1. EventOK(e) /\ UNCHANGED <<age, claim, posts>>
      BY <1>1 DEF Inv, events
    <2>2. LookingUpFor(e)' \/ QueuedEvent(buffer', e) => QueuedEvent(buffer, e)
      BY <1>2, <1>3
    <2>3. QueuedEvent(buffer', e) => ~LookingUpFor(e)'
      BY <1>2, <1>3
    <2> QED
      BY <1>3, <2>1, <2>2, <2>3 DEF EventOK, Begun
  <1>6. ASSUME NEW r \in Requests PROVE RequestOK(r)'
    <2>1. RequestOK(r) /\ UNCHANGED <<asked, reply, handled>>
      BY <1>1 DEF Inv
    <2>2. Working(r)' \/ QueuedRequest(buffer', r) => QueuedRequest(buffer, r)
      BY <1>2, <1>3
    <2>3. QueuedRequest(buffer', r) => ~Working(r)'
      BY <1>2, <1>3
    <2> QED
      BY <1>3, <2>1, <2>2, <2>3 DEF RequestOK
  <1> QED
    BY <1>2, <1>4, <1>5, <1>6 DEF Inv

\* The one answer to a request is settled by the one time it is handled.
LEMMA FinishInv ==
  ASSUME Inv, Query \/ QueryFails \/ Load \/ LoadFails \/ Unload \/ Sync
  PROVE  Inv'
  <1> DEFINE q == handler.request
  <1>1. PICK result \in Results : Finish(result)
    BY DEF Query, QueryFails, Load, LoadFails, Unload, Sync, Results
  <1>2. handler.kind \in Kinds
    BY DEF Query, QueryFails, Load, LoadFails, Unload, Sync, Handling, Kinds
  <1>3. handler \in RequestMessages /\ q \in Requests /\ Working(q)
    BY <1>2, HandlerShape DEF Inv, Typed, RequestMessages, Working
  <1>4. loaded' \subseteq Modules
    <2>1. handler.kind = "load" => handler.module \in Modules
      BY <1>3 DEF RequestMessages
    <2> QED
      BY <2>1 DEF Query, QueryFails, Load, LoadFails, Unload, Sync, Handling, Finish, bot, Inv, Typed, TypeOK
  <1>5. faults' \in 0 .. MaxFaults
    BY ConstantsAssumption
    DEF Query, QueryFails, Load, LoadFails, Unload, Sync, Finish, Fault, Inv, Typed, TypeOK
  <1>6. /\ handled' = [handled EXCEPT ![q] = result]
        /\ handler' = [kind |-> "reply", request |-> q, answer |-> result]
        /\ UNCHANGED <<listening, buffer, asked, reply, events>>
    BY <1>1 DEF Finish
  <1> HIDE DEF q
  <1>7. /\ handler' \in Replying /\ handler'.kind = "reply" /\ handler'.request = q /\ handler'.answer = result
        /\ handler'.kind \notin Kinds
    BY <1>3, <1>6 DEF Replying, Kinds
  <1>8. /\ handled' \in [Requests -> Answers] /\ handled'[q] = result
        /\ \A r \in Requests : r # q => handled'[r] = handled[r]
    BY <1>1, <1>3, <1>6 DEF Inv, Typed, Answers
  <1>9. Typed'
    <2>1. TypeOK'
      BY <1>4, <1>5, <1>6 DEF Inv, Typed, TypeOK
    <2> QED
      BY <1>6, <1>7, <1>8, <2>1 DEF Inv, Typed, Handlers, events
  <1>10. \A e \in Events : EventOK(e)'
    BY <1>6, <1>7, EventFrame DEF events
  <1>11. ASSUME NEW r \in Requests PROVE RequestOK(r)'
    <2>1. RequestOK(r) /\ UNCHANGED <<asked, reply, buffer>> /\ ~Working(r)'
      BY <1>6, <1>7 DEF Inv, Working
    <2>2. CASE r = q
      <3>1. handled[q] = NoReply /\ asked[q].at # "free" /\ ~QueuedRequest(buffer, q)
        BY <1>3, <2>1, <2>2 DEF RequestOK
      <3> QED
        BY <1>7, <1>8, <2>1, <2>2, <3>1 DEF RequestOK
    <2>3. CASE r # q
      BY <1>7, <1>8, <2>1, <2>3 DEF RequestOK
    <2> QED BY <2>2, <2>3
  <1> QED
    BY <1>6, <1>9, <1>10, <1>11 DEF Inv

LEMMA PushReplyInv ==
  ASSUME Inv, PushReply
  PROVE  Inv'
  <1> DEFINE q == handler.request
  <1>1. /\ handler.kind = "reply" /\ reply' = [reply EXCEPT ![q] = handler.answer] /\ handler' = Idle
        /\ UNCHANGED <<listening, buffer, asked, bot, events, faults, handled>>
    BY DEF PushReply, Handling
  <1>2. q \in Requests /\ handler.answer \in Results
    BY <1>1, HandlerShape DEF Inv, Typed, Replying
  <1>3. handler.answer = handled[q] /\ handler.answer # NoReply
    BY <1>1, <1>2 DEF Inv, RequestOK, Results, NoReply
  <1> HIDE DEF q
  <1>4. handler' \in Handlers /\ handler'.kind = "idle" /\ handler'.kind \notin Kinds
    BY <1>1 DEF Handlers, Idle, Kinds
  <1>5. /\ reply' \in [Requests -> Answers] /\ reply'[q] = handled[q]
        /\ \A r \in Requests : r # q => reply'[r] = reply[r]
    BY <1>1, <1>2, <1>3 DEF Inv, Typed, Answers
  <1>6. asked[q].at # "free"
    BY <1>2, <1>3 DEF Inv, RequestOK
  <1>7. Typed'
    <2>1. TypeOK'
      BY <1>1, <1>5, <1>6 DEF Inv, Typed, TypeOK, bot, Answers
    <2> QED
      BY <1>1, <1>4, <1>5, <2>1 DEF Inv, Typed, events
  <1>8. \A e \in Events : EventOK(e)'
    BY <1>1, <1>4, EventFrame DEF events
  <1>9. ASSUME NEW r \in Requests PROVE RequestOK(r)'
    <2>1. RequestOK(r) /\ UNCHANGED <<asked, handled, buffer>> /\ ~Working(r)'
      BY <1>1, <1>4 DEF Inv, Working
    <2>2. reply'[r] \in {NoReply, handled[r]}
      BY <1>5, <2>1 DEF RequestOK
    <2> QED
      BY <1>4, <2>1, <2>2 DEF RequestOK
  <1> QED
    BY <1>1, <1>7, <1>8, <1>9 DEF Inv

LEMMA LookUpInv ==
  ASSUME Inv, LookUp
  PROVE  Inv'
  <1> DEFINE n == handler.event
  <1>1. /\ handler.kind = "lookup" /\ handler' = [kind |-> "post", event |-> n, to |-> Channels]
        /\ UNCHANGED <<listening, buffer, asked, reply, bot, events, faults, handled>>
    BY DEF LookUp, Handling
  <1>2. n \in Events /\ LookingUpFor(n)
    BY <1>1, HandlerShape DEF Inv, Typed, LookingUp, LookingUpFor
  <1> HIDE DEF n
  <1>3. /\ handler' \in PostingTo /\ handler'.kind = "post" /\ handler'.event = n
        /\ handler'.kind \notin Kinds \cup {"reply"} /\ handler'.to = Channels
    BY <1>1, <1>2 DEF PostingTo, Kinds
  <1>4. Typed'
    <2>1. TypeOK'
      BY <1>1 DEF Inv, Typed, TypeOK, bot
    <2> QED
      BY <1>1, <1>3, <2>1 DEF Inv, Typed, Handlers, events
  <1>5. ASSUME NEW e \in Events PROVE EventOK(e)'
    <2>1. EventOK(e) /\ UNCHANGED <<age, claim, posts, buffer>>
      BY <1>1 DEF Inv, events
    <2>2. (PostingFor(e)' => LookingUpFor(e)) /\ ~LookingUpFor(e)'
      BY <1>2, <1>3 DEF PostingFor, LookingUpFor
    <2> QED
      BY <1>3, <2>1, <2>2 DEF EventOK, Begun
  <1>6. \A r \in Requests : RequestOK(r)'
    BY <1>1, <1>3, RequestFrame
  <1> QED
    BY <1>1, <1>4, <1>5, <1>6 DEF Inv

\* A channel that has got the notification, or refused it, is written to no more.
LEMMA PostInv ==
  ASSUME Inv, NEW c \in Channels, Post(c) \/ PostFails(c)
  PROVE  Inv'
  <1> DEFINE n == handler.event
  <1>1. /\ handler.kind = "post" /\ c \in handler.to
        /\ handler' = IF handler.to = {c} THEN Idle ELSE [handler EXCEPT !.to = @ \ {c}]
        /\ UNCHANGED <<listening, buffer, asked, reply, bot, age, claim, handled>>
    BY DEF Post, PostFails, Posting, Handling
  <1>2. handler \in PostingTo /\ n \in Events /\ PostingFor(n)
    BY <1>1, HandlerShape DEF Inv, Typed, PostingTo, PostingFor
  <1>3. /\ posts' \in [Events -> [Channels -> Nat]]
        /\ \A e \in Events, d \in Channels : e # n \/ d # c => posts'[e][d] = posts[e][d]
        /\ posts'[n][c] \in {posts[n][c], posts[n][c] + 1}
    <2>1. CASE Post(c)
      <3>1. posts' = [posts EXCEPT ![n][c] = @ + 1]
        BY <2>1 DEF Post
      <3> QED
        BY <1>2, <3>1 DEF Inv, Typed
    <2>2. CASE PostFails(c)
      BY <1>2, <2>2 DEF PostFails, Inv, Typed
    <2> QED BY <2>1, <2>2
  <1>4. faults' \in 0 .. MaxFaults
    BY ConstantsAssumption DEF Post, PostFails, Fault, Inv, Typed, TypeOK
  <1> HIDE DEF n
  <1>5. /\ handler' \in Handlers /\ handler'.kind \in {"idle", "post"} /\ handler'.kind \notin Kinds \cup {"reply"}
        /\ handler'.kind = "post" => handler'.event = n /\ handler'.to = handler.to \ {c}
    <2>1. CASE handler.to = {c}
      BY <1>1, <2>1 DEF Handlers, Idle, Kinds
    <2>2. CASE handler.to # {c}
      <3>1. /\ handler' \in PostingTo /\ handler'.event = n /\ handler'.to = handler.to \ {c}
            /\ handler'.kind = "post"
        BY <1>1, <1>2, <2>2 DEF PostingTo, n
      <3> QED
        BY <3>1 DEF Handlers, Kinds
    <2> QED BY <2>1, <2>2
  <1>6. Typed'
    <2>1. TypeOK'
      BY <1>1, <1>4 DEF Inv, Typed, TypeOK, bot
    <2> QED
      BY <1>1, <1>3, <1>5, <2>1 DEF Inv, Typed
  <1>7. ASSUME NEW e \in Events PROVE EventOK(e)'
    <2>1. /\ EventOK(e) /\ UNCHANGED <<age, claim, buffer>>
          /\ posts[e] \in [Channels -> Nat] /\ posts'[e] \in [Channels -> Nat]
      BY <1>1, <1>3 DEF Inv, Typed
    <2>2. ~LookingUpFor(e)' /\ (PostingFor(e)' => e = n) /\ (PostingFor(e) <=> e = n)
      BY <1>1, <1>2, <1>5 DEF PostingFor, LookingUpFor, n
    <2>3. CASE e = n
      <3>1. posts[e][c] = 0 /\ ~QueuedEvent(buffer, e) /\ Begun(e)
        BY <1>1, <1>2, <2>1, <2>2, <2>3 DEF EventOK, Begun
      <3>2. handler.to \subseteq Channels /\ \A d \in handler.to : posts[e][d] = 0
        BY <1>2, <2>1, <2>2, <2>3 DEF EventOK, PostingTo
      <3>3. \A d \in Channels : posts'[e][d] <= 1
        <4> SUFFICES ASSUME NEW d \in Channels PROVE posts'[e][d] <= 1
          OBVIOUS
        <4>1. CASE d = c
          BY <1>3, <2>3, <3>1, <4>1
        <4>2. CASE d # c
          BY <1>3, <2>1, <4>2 DEF EventOK
        <4> QED BY <4>1, <4>2
      <3>4. handler'.kind = "post" => \A d \in handler'.to : posts'[e][d] = 0
        <4> SUFFICES ASSUME handler'.kind = "post", NEW d \in handler'.to PROVE posts'[e][d] = 0
          OBVIOUS
        <4>1. d \in handler.to /\ d # c /\ d \in Channels
          BY <1>5, <3>2
        <4>2. posts'[e][d] = posts[e][d]
          BY <1>3, <4>1
        <4> QED
          BY <3>2, <4>1, <4>2
      <3>5. age[e] >= 0 /\ claim[e] + age[e] > MaxAge
        BY <2>1, <3>1 DEF EventOK
      <3> QED
        BY <2>1, <2>2, <3>1, <3>3, <3>4, <3>5 DEF EventOK, PostingFor
    <2>4. CASE e # n
      <3>1. \A d \in Channels : posts'[e][d] = posts[e][d]
        BY <1>3, <2>4
      <3> QED
        BY <2>1, <2>2, <2>4, <3>1 DEF EventOK, Begun, LookingUpFor
    <2> QED BY <2>3, <2>4
  <1>8. \A r \in Requests : RequestOK(r)'
    <2>1. UNCHANGED <<asked, reply, handled, buffer>>
      BY <1>1
    <2> QED
      BY <1>5, <2>1, RequestFrame
  <1> QED
    BY <1>1, <1>6, <1>7, <1>8 DEF Inv

-----------------------------------------------------------------------------
(* Connection, process and operator: what is given up comes back to nobody. *)

LEMMA GivenUpInv ==
  ASSUME Inv, PushFails \/ LookUpFails \/ Disconnect \/ Restart
  PROVE  Inv'
  <1>1. /\ UNCHANGED <<asked, reply, age, claim, handled, posts>> /\ loaded' \in {loaded, Modules}
        /\ handler' = Idle
    BY DEF PushFails, LookUpFails, Disconnect, Restart, bot
  <1>2. handler' \in Handlers /\ handler'.kind \notin Kinds \cup {"reply", "lookup", "post"}
    BY <1>1 DEF Handlers, Idle, Kinds
  <1>3. \/ buffer' = <<>> /\ listening' = FALSE
        \/ UNCHANGED <<buffer, listening>>
    BY DEF PushFails, LookUpFails, Disconnect, Restart
  <1>4. faults' \in 0 .. MaxFaults
    BY ConstantsAssumption DEF PushFails, LookUpFails, Disconnect, Restart, Fault, Inv, Typed, TypeOK
  <1>5. /\ Apart(buffer') /\ buffer' \in Seq(MessageSet)
        /\ \A x : QueuedEvent(buffer', x) => QueuedEvent(buffer, x)
        /\ \A x : QueuedRequest(buffer', x) => QueuedRequest(buffer, x)
    <2>1. buffer \in Seq(MessageSet) /\ Apart(buffer) /\ <<>> \in Seq(MessageSet)
      BY DEF Inv, Typed
    <2>2. CASE buffer' = <<>>
      BY <2>1, <2>2, NothingQueued
    <2>3. CASE buffer' = buffer
      BY <2>1, <2>3
    <2> QED BY <1>3, <2>2, <2>3
  <1>6. Typed'
    <2>1. TypeOK'
      BY <1>1, <1>3, <1>4 DEF Inv, Typed, TypeOK
    <2> QED
      BY <1>1, <1>2, <1>5, <2>1 DEF Inv, Typed
  <1> QED
    BY <1>1, <1>2, <1>5, <1>6, EventFrame, RequestFrame DEF Inv

LEMMA BesideInv ==
  ASSUME Inv, Subscribe \/ SyncRecipes \/ \E s : SyncEnds(s)
  PROVE  Inv'
  <1>1. /\ UNCHANGED <<buffer, handler, asked, reply, loaded, age, claim, posts, faults, handled>>
        /\ listening' \in {listening, TRUE}
    BY DEF Subscribe, SyncRecipes, SyncEnds, bot, events
  <1>2. Typed'
    <2>1. listening' \in BOOLEAN /\ (~listening' => buffer' = <<>>)
      BY <1>1 DEF Inv, Typed, TypeOK
    <2>2. TypeOK'
      BY <1>1, <2>1 DEF Inv, Typed, TypeOK
    <2> QED
      BY <1>1, <2>2 DEF Inv, Typed
  <1> QED
    BY <1>1, <1>2, EventFrame, RequestFrame DEF Inv

-----------------------------------------------------------------------------

LEMMA StepInv == Inv /\ [Next]_vars => Inv'
  <1> SUFFICES ASSUME Inv, [Next]_vars PROVE Inv'
    OBVIOUS
  <1>1. CASE UNCHANGED vars
    <2>1. Typed'
      BY <1>1 DEF Inv, Typed, TypeOK, vars, bot, events
    <2> QED
      BY <1>1, <2>1, EventFrame, RequestFrame DEF Inv, vars, events
  <1>2. CASE Handle
    BY <1>2, TakeInv, PushReplyInv, FinishInv, LookUpInv, PostInv DEF Handle
  <1>3. CASE Next /\ ~Handle
    BY <1>3, TickInv, FinishInv, GivenUpInv, BesideInv, WaitInv, SendInv, HappensInv, WebhookInv, PostInv
    DEF Next
  <1> QED
    BY <1>1, <1>2, <1>3

LEMMA Inductive == Spec => []Inv
  BY InitInv, StepInv, PTL DEF Spec

\* The listener that is not subscribed holds nothing, and replies are left by asked requests only.
THEOREM TypeCorrect == Spec => []TypeOK
  <1>1. Inv => TypeOK
    BY DEF Inv, Typed
  <1> QED
    BY <1>1, Inductive, PTL

\* No channel gets a notification twice, however often Twitch delivers it: its id stays claimed for
\* longer than it is accepted.
THEOREM NotificationsPostedOnce == Spec => []PostedOnce
  <1>1. Inv => PostedOnce
    BY DEF Inv, EventOK, PostedOnce
  <1> QED
    BY <1>1, Inductive, PTL

\* An answer that reaches the dashboard is what became of the very request it was asked with.
THEOREM AnswersAreOwn == Spec => []AnswerIsOwn
  <1>1. Inv => AnswerIsOwn
    BY DEF Inv, RequestOK, AnswerIsOwn
  <1> QED
    BY <1>1, Inductive, PTL

(***************************************************************************)
(* ReactionRoles, for every set of messages and emojis and every bound.      *)
(***************************************************************************)

-----------------------------------------------------------------------------
(* Type correctness.                                                        *)

LEMMA EmptyTable == NoMappings \in [Messages -> SUBSET Emojis]
  BY DEF NoMappings

LEMMA ConfiguredSome ==
  ASSUME NEW rows \in [Messages -> SUBSET Emojis]
  PROVE  Configured(rows) \subseteq Messages
  BY DEF Configured

LEMMA IdleThread == NoThread \in [at : {"none", "begun", "read", "swapped"}, rows : [Messages -> SUBSET Emojis]]
  BY EmptyTable DEF NoThread

LEMMA InitType == RolesInit => RolesTypeOK
  <1> SUFFICES ASSUME RolesInit PROVE RolesTypeOK
    OBVIOUS
  <1>1. changes \in 0 .. MaxChanges /\ rolesFaults \in 0 .. MaxRolesFaults
    BY BoundsAssumption DEF RolesInit
  <1> QED
    BY <1>1, EmptyTable, IdleThread DEF RolesInit, RolesTypeOK

LEMMA CountType ==
  ASSUME RolesTypeOK
  PROVE  /\ Change => changes' \in 0 .. MaxChanges
         /\ RolesFault => rolesFaults' \in 0 .. MaxRolesFaults
  BY BoundsAssumption DEF RolesTypeOK, Change, RolesFault

LEMMA SpoilType ==
  ASSUME RolesTypeOK, NEW ms \in SUBSET Messages, Spoil(ms)
  PROVE  spoiled' \subseteq Messages
  BY DEF RolesTypeOK, Spoil

LEMMA CommandType ==
  ASSUME RolesTypeOK, NEW m \in Messages,
         Clear(m) \/ \E e \in Emojis : Add(m, e) \/ Remove(m, e)
  PROVE  RolesTypeOK'
  <1> USE CountType DEF RolesTypeOK
  <1>1. ASSUME NEW e \in Emojis, Add(m, e) PROVE RolesTypeOK'
    <2>1. table' \in [Messages -> SUBSET Emojis] /\ mappings' \in [Messages -> SUBSET Emojis]
      BY <1>1 DEF Add
    <2>2. spoiled' \subseteq Messages
      BY <1>1 DEF Add
    <2> QED BY <1>1, <2>1, <2>2 DEF Add
  <1>2. ASSUME NEW e \in Emojis, Remove(m, e) PROVE RolesTypeOK'
    <2>1. table' \in [Messages -> SUBSET Emojis] /\ mappings' \in [Messages -> SUBSET Emojis]
      BY <1>2 DEF Remove
    <2>2. spoiled' \subseteq Messages
      BY <1>2, SpoilType DEF Remove
    <2> QED BY <1>2, <2>1, <2>2 DEF Remove
  <1>3. CASE Clear(m)
    <2>1. table' \in [Messages -> SUBSET Emojis] /\ mappings' \in [Messages -> SUBSET Emojis]
      BY <1>3 DEF Clear
    <2>2. spoiled' \subseteq Messages
      BY <1>3, SpoilType DEF Clear
    <2> QED BY <1>3, <2>1, <2>2 DEF Clear
  <1> QED
    BY <1>1, <1>2, <1>3

LEMMA WarmUpType ==
  ASSUME RolesTypeOK,
         Ready \/ Rewarm \/ CooledDown \/ ReadRows \/ ReadFails \/ Swap \/ FinishWarm
  PROVE  RolesTypeOK'
  <1> USE EmptyTable, ConfiguredSome, CountType DEF RolesTypeOK, cache, NoThread
  <1>1. CASE Ready
    BY <1>1 DEF Ready
  <1>2. CASE Rewarm
    BY <1>2 DEF Rewarm
  <1>3. CASE CooledDown
    BY <1>3 DEF CooledDown
  <1>4. CASE ReadRows
    BY <1>4 DEF ReadRows
  <1>5. CASE ReadFails
    BY <1>5 DEF ReadFails
  <1>6. CASE Swap
    BY <1>6 DEF Swap
  <1>7. CASE FinishWarm
    BY <1>7 DEF FinishWarm
  <1> QED
    BY <1>1, <1>2, <1>3, <1>4, <1>5, <1>6, <1>7

LEMMA GuildType ==
  ASSUME RolesTypeOK,
         (\E m \in Messages : React(m)) \/ EvictGuild \/ Rejoin \/ RolesRestart
  PROVE  RolesTypeOK'
  <1> USE CountType DEF RolesTypeOK, cache
  <1>1. ASSUME NEW m \in Messages, React(m) PROVE RolesTypeOK'
    <2>1. mappings' \in [Messages -> SUBSET Emojis]
      BY <1>1 DEF React
    <2> QED BY <1>1, <2>1 DEF React
  <1>2. CASE EvictGuild
    <2>1. spoiled' \subseteq Messages
      BY <1>2, SpoilType DEF EvictGuild
    <2> QED BY <1>2, <2>1 DEF EvictGuild
  <1>3. CASE Rejoin
    BY <1>3 DEF Rejoin
  <1>4. CASE RolesRestart
    BY <1>4, EmptyTable DEF RolesRestart, NoThread
  <1> QED
    BY <1>1, <1>2, <1>3, <1>4

LEMMA StepType == RolesTypeOK /\ [RolesNext]_rolesVars => RolesTypeOK'
  <1> SUFFICES ASSUME RolesTypeOK, [RolesNext]_rolesVars PROVE RolesTypeOK'
    OBVIOUS
  <1>1. CASE UNCHANGED rolesVars
    BY <1>1 DEF RolesTypeOK, rolesVars, cache
  <1>2. CASE RolesNext
    BY <1>2, CommandType, WarmUpType, GuildType DEF RolesNext
  <1> QED
    BY <1>1, <1>2

\* Every variable keeps its type, and no message is both known and marked for a second look but
\* between the two steps that end a warm-up.
THEOREM RolesTypeCorrect == RolesSpec => []RolesTypeOK
  BY InitType, StepType, PTL DEF RolesSpec

-----------------------------------------------------------------------------
(* The inductive invariant behind AnswersAsTable: what the cache, the marks *)
(* and the thread say of a message whose history is not excepted.           *)

Stands(m) == (m \in known <=> table[m] # {}) /\ mappings[m] = table[m]

\* Before the cache is warm nothing is promised of it; a marked message has no mappings left that
\* a command added to it could outlive; what the thread read is still so until it is swapped in.
Sound(m) ==
  /\ thread.at = "read" => thread.rows[m] = table[m]
  /\ thread.at = "swapped" => Stands(m)
  /\ warmed /\ m \notin evicted => Stands(m)
  /\ thread.at # "swapped" /\ m \in evicted => mappings[m] = {}

ColdUnmarked == ~warmed => evicted = {}
RowsInFlight == thread.at # "read" => thread.rows = NoMappings

RolesInv == RolesTypeOK /\ ColdUnmarked /\ RowsInFlight /\ \A m \in Messages \ spoiled : Sound(m)

LEMMA RolesInitInv == RolesInit => RolesInv
  <1> SUFFICES ASSUME RolesInit PROVE RolesInv
    OBVIOUS
  <1>1. thread.at = "none" /\ thread.rows = NoMappings /\ ~warmed /\ evicted = {}
    BY DEF RolesInit, NoThread
  <1> QED
    BY <1>1, InitType DEF RolesInv, ColdUnmarked, RowsInFlight, Sound

\* A message that is marked or stands is answered as the table would answer it.
LEMMA SoundAgrees ==
  ASSUME RolesInv, NEW m \in Messages \ spoiled
  PROVE  Agrees(m)
  <1>1. CASE ~warmed \/ m \in evicted
    BY <1>1 DEF Agrees, Answer
  <1>2. CASE warmed /\ m \notin evicted
    <2>1. Stands(m)
      BY <1>2 DEF RolesInv, Sound
    <2> QED
      BY <1>2, <2>1 DEF Agrees, Answer, Stands
  <1> QED
    BY <1>1, <1>2

LEMMA ReactInv ==
  ASSUME RolesInv, NEW m \in Messages, React(m)
  PROVE  RolesInv'
  <1>1. RolesTypeOK'
    BY GuildType DEF RolesInv
  <1>2. ColdUnmarked' /\ RowsInFlight'
    BY DEF RolesInv, React, ColdUnmarked, RowsInFlight
  <1>3. ASSUME NEW n \in Messages \ spoiled, n # m PROVE Sound(n)'
    <2>1. /\ mappings'[n] = mappings[n] /\ (n \in known' <=> n \in known)
          /\ (n \in evicted' <=> n \in evicted) /\ UNCHANGED <<table, warmed, thread>>
      BY <1>3 DEF React, RolesInv, RolesTypeOK
    <2> QED
      BY <2>1 DEF RolesInv, Sound, Stands
  <1>4. ASSUME m \notin spoiled PROVE Sound(m)'
    <2>1. UNCHANGED <<table, warmed, thread>> /\ m \notin evicted'
      BY DEF React
    <2>2. (m \in known' <=> table[m] # {})
      BY DEF React
    <2>3. ASSUME warmed \/ thread.at = "swapped" PROVE mappings'[m] = table[m]
      <3>1. mappings[m] \in {{}, table[m]} /\ mappings \in [Messages -> SUBSET Emojis]
        BY <1>4, <2>3 DEF React, RolesInv, RolesTypeOK, Sound, Stands
      <3>2. ~warmed => mappings[m] = table[m]
        BY <1>4, <2>3 DEF RolesInv, Sound, Stands
      <3>3. CASE table[m] = {}
        BY <3>1, <3>3 DEF React
      <3>4. CASE table[m] # {}
        BY <3>1, <3>2, <3>4 DEF React
      <3> QED
        BY <3>3, <3>4
    <2> QED
      BY <1>4, <2>1, <2>2, <2>3 DEF RolesInv, Sound, Stands
  <1> QED
    BY <1>1, <1>2, <1>3, <1>4 DEF RolesInv, React

\* A command touches one message; during a warm-up that message's history is excepted.
LEMMA CommandInv ==
  ASSUME RolesInv, NEW m \in Messages,
         Clear(m) \/ \E e \in Emojis : Add(m, e) \/ Remove(m, e)
  PROVE  RolesInv'
  <1>1. RolesTypeOK'
    BY CommandType DEF RolesInv
  <1>2. UNCHANGED <<warmed, thread>> /\ evicted' \subseteq evicted
    BY DEF Clear, Add, Remove
  <1>3. ColdUnmarked' /\ RowsInFlight'
    BY <1>2 DEF RolesInv, ColdUnmarked, RowsInFlight
  <1>4. spoiled \subseteq spoiled' /\ (Overlaps => m \in spoiled')
    BY DEF Clear, Add, Remove, Spoil
  <1>5. ASSUME NEW n \in Messages \ spoiled', n # m PROVE Sound(n)'
    <2>1. /\ mappings'[n] = mappings[n] /\ (n \in known' <=> n \in known)
          /\ (n \in evicted' <=> n \in evicted) /\ table'[n] = table[n]
      BY <1>5 DEF Clear, Add, Remove, RolesInv, RolesTypeOK
    <2> QED
      BY <1>2, <1>4, <2>1 DEF RolesInv, Sound, Stands
  <1>6. ASSUME m \notin spoiled' PROVE Sound(m)'
    <2>1. ~Overlaps /\ m \notin spoiled
      BY <1>4, <1>6
    <2>2. ASSUME m \in evicted' PROVE mappings'[m] = {}
      <3>1. m \in evicted /\ mappings[m] = {}
        BY <1>2, <2>1, <2>2 DEF RolesInv, Sound, Overlaps
      <3> QED
        BY <2>2, <3>1 DEF Clear, Add, Remove, RolesInv, RolesTypeOK
    <2>3. ASSUME warmed, m \notin evicted' PROVE Stands(m)'
      <3>1. CASE Clear(m)
        BY <3>1 DEF Clear, Stands, RolesInv, RolesTypeOK
      <3>2. ASSUME NEW e \in Emojis, Add(m, e) PROVE Stands(m)'
        <4>1. m \in known' /\ table'[m] = table[m] \cup {e} /\ mappings'[m] = mappings[m] \cup {e}
          BY <2>3, <3>2 DEF Add, RolesInv, RolesTypeOK
        <4>2. mappings[m] = table[m]
          <5>1. CASE m \notin evicted
            BY <2>1, <2>3, <5>1 DEF RolesInv, Sound, Stands
          <5>2. CASE m \in evicted
            <6>1. table[m] = {}
              BY <1>6, <3>2, <5>2 DEF Add
            <6> QED
              BY <2>1, <5>2, <6>1 DEF RolesInv, Sound, Overlaps
          <5> QED BY <5>1, <5>2
        <4> QED
          BY <4>1, <4>2 DEF Stands
      <3>3. ASSUME NEW e \in Emojis, Remove(m, e) PROVE Stands(m)'
        <4>1. CASE table[m] = {e}
          BY <3>3, <4>1 DEF Remove, Stands, RolesInv, RolesTypeOK
        <4>2. CASE table[m] # {e}
          <5>1. m \notin evicted /\ m \in known' /\ mappings[m] = table[m]
            BY <2>1, <2>3, <3>3, <4>2 DEF Remove, RolesInv, Sound, Stands
          <5>2. table'[m] = table[m] \ {e} /\ mappings'[m] = mappings[m] \ {e} /\ e \in table[m]
            BY <3>3, <4>2 DEF Remove, RolesInv, RolesTypeOK
          <5> QED
            BY <4>2, <5>1, <5>2 DEF Stands
        <4> QED BY <4>1, <4>2
      <3> QED
        BY <3>1, <3>2, <3>3
    <2> QED
      BY <1>2, <2>1, <2>2, <2>3 DEF Sound, Overlaps
  <1> QED
    BY <1>1, <1>3, <1>5, <1>6 DEF RolesInv

\* Between the swap and the end of the warm-up the new maps are in place, the old marks still there.
LEMMA WarmUpInv ==
  ASSUME RolesInv,
         Ready \/ Rewarm \/ CooledDown \/ ReadRows \/ ReadFails \/ Swap \/ FinishWarm
  PROVE  RolesInv'
  <1>1. RolesTypeOK'
    BY WarmUpType DEF RolesInv
  <1> USE DEF ColdUnmarked, RowsInFlight, NoThread, cache
  <1>2. CASE Ready
    <2>1. \A m \in Messages : Stands(m)'
      BY <1>2 DEF Ready, Stands, Configured
    <2>2. thread'.at = "read" => \A m \in Messages \ spoiled' : thread'.rows[m] = table'[m]
      BY <1>2 DEF Ready, RolesInv, Sound
    <2> QED
      BY <1>1, <1>2, <2>1, <2>2 DEF Ready, RolesInv, Sound
  <1>3. CASE Rewarm \/ CooledDown \/ ReadFails
    <2>1. /\ UNCHANGED <<table, cache, spoiled>>
          /\ \/ UNCHANGED thread
             \/ thread'.at \in {"none", "begun"} /\ thread'.rows = NoMappings /\ thread.at # "swapped"
      BY <1>3 DEF Rewarm, CooledDown, ReadFails
    <2>2. \A m \in Messages \ spoiled' : Sound(m)'
      BY <2>1 DEF RolesInv, Sound, Stands
    <2> QED
      BY <1>1, <2>1, <2>2 DEF RolesInv
  <1>4. CASE ReadRows
    <2>1. \A m \in Messages \ spoiled' : Sound(m)'
      BY <1>4 DEF ReadRows, RolesInv, Sound, Stands
    <2> QED
      BY <1>1, <1>4, <2>1 DEF ReadRows, RolesInv
  <1>5. CASE Swap
    <2>1. \A m \in Messages \ spoiled' : Stands(m)'
      BY <1>5 DEF Swap, RolesInv, Sound, Stands, Configured
    <2> QED
      BY <1>1, <1>5, <2>1 DEF Swap, RolesInv, Sound
  <1>6. CASE FinishWarm
    <2>1. \A m \in Messages \ spoiled' : Stands(m)'
      BY <1>6 DEF FinishWarm, RolesInv, Sound, Stands
    <2> QED
      BY <1>1, <1>6, <2>1 DEF FinishWarm, RolesInv, Sound
  <1> QED
    BY <1>2, <1>3, <1>4, <1>5, <1>6

LEMMA GuildInv ==
  ASSUME RolesInv, EvictGuild \/ Rejoin \/ RolesRestart
  PROVE  RolesInv'
  <1>1. RolesTypeOK'
    BY GuildType DEF RolesInv
  <1>2. CASE EvictGuild
    <2>1. ASSUME NEW m \in Messages \ spoiled' PROVE Sound(m)'
      <3>1. m \notin spoiled /\ ~Overlaps /\ thread' = thread
        BY <1>2, <2>1 DEF EvictGuild, Spoil
      <3>2. UNCHANGED <<table, warmed>> /\ m \notin known'
            /\ mappings'[m] = IF m \in known THEN {} ELSE mappings[m]
        BY <1>2 DEF EvictGuild
      <3>3. m \in evicted' <=> m \in evicted \/ (warmed /\ m \in known)
        BY <1>2 DEF EvictGuild
      <3> QED
        BY <3>1, <3>2, <3>3 DEF RolesInv, Sound, Stands, Overlaps
    <2>2. ColdUnmarked' /\ RowsInFlight'
      BY <1>2 DEF EvictGuild, RolesInv, ColdUnmarked, RowsInFlight
    <2> QED
      BY <1>1, <2>1, <2>2 DEF RolesInv
  <1>3. CASE Rejoin
    BY <1>1, <1>3 DEF Rejoin, RolesInv, ColdUnmarked, RowsInFlight, Sound, Stands, cache
  <1>4. CASE RolesRestart
    BY <1>1, <1>4 DEF RolesRestart, NoThread, RolesInv, ColdUnmarked, RowsInFlight, Sound
  <1> QED
    BY <1>2, <1>3, <1>4

LEMMA RolesStepInv == RolesInv /\ [RolesNext]_rolesVars => RolesInv'
  <1> SUFFICES ASSUME RolesInv, [RolesNext]_rolesVars PROVE RolesInv'
    OBVIOUS
  <1>1. CASE UNCHANGED rolesVars
    <2>1. RolesTypeOK'
      BY <1>1, StepType DEF RolesInv
    <2> QED
      BY <1>1, <2>1 DEF RolesInv, ColdUnmarked, RowsInFlight, Sound, Stands, rolesVars, cache
  <1>2. CASE RolesNext
    BY <1>2, ReactInv, CommandInv, WarmUpInv, GuildInv DEF RolesNext
  <1> QED
    BY <1>1, <1>2

\* Through warm-ups in a thread, reconnections, evictions, restarts and commands a reaction is
\* answered as the tables would answer it, but for the two excepted histories.
THEOREM ReactionsAnsweredAsTable == RolesSpec => []AnswersAsTable
  <1>1. RolesInv => AnswersAsTable
    BY SoundAgrees DEF AnswersAsTable
  <1> QED
    BY <1>1, RolesInitInv, RolesStepInv, PTL DEF RolesSpec

=============================================================================
