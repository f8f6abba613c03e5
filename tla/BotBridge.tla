----------------------------- MODULE BotBridge -----------------------------
(***************************************************************************)
(* What the dashboard and Twitch ask of the bot: requests with a reply and *)
(* a timeout, and notifications nobody waits for, over one channel of      *)
(* Valkey (web/cache.py, web/webhooks/twitch.py, web/routes/operator.py,   *)
(* NerdyPy/utils/valkey.py, modules/operator.py).                          *)
(*                                                                         *)
(* The bot's listener takes one message at a time from its subscription    *)
(* and awaits its handler before it takes the next.  A message published   *)
(* while the listener is not subscribed is gone.  Twitch repeats a         *)
(* notification it got no answer for; the webhook refuses what is too old  *)
(* and remembers the ids it has passed on for a little longer than that.   *)
(* Time is counted in ticks.                                               *)
(***************************************************************************)
EXTENDS Integers, Sequences, FiniteSets

CONSTANTS
  Requests,   \* requests of operators, each sent once
  Events,     \* notifications of Twitch, by message id
  Channels,   \* those whose guilds follow the streamer
  Modules,    \* extensions that are not protected
  Asks,       \* the kinds of request each may be
  MaxAge,     \* _MAX_AGE_SECONDS, in ticks
  ClaimTtl,   \* how long an id stays claimed, in ticks
  MaxFaults   \* bound on lost connections, restarts and failed calls

ASSUME ConstantsAssumption == MaxAge \in Nat /\ ClaimTtl \in Nat /\ ClaimTtl > MaxAge /\ MaxFaults \in Nat

ASSUME ChannelsAssumption == Channels # {}


Kinds == {"query", "load", "unload", "sync"}
Results == {"done", "refused"}

VARIABLES
  listening,  \* whether the listener is subscribed
  buffer,     \* messages its subscription holds
  handler,    \* the message being handled
  asked,      \* send_bot_command of each request
  reply,      \* the reply lists in Valkey
  loaded,     \* bot.extensions
  syncing,    \* who runs a recipe sync: requests in the background, the !sync command
  age,        \* of each notification since Twitch made it; Unsent before
  claim,      \* ticks left of the claim on each message id
  faults,     \* how many of MaxFaults happened
  handled,    \* history: what became of each request
  posts,      \* history: how often each notification was posted to each channel
  missed      \* history: channels that a fault or a deaf bot kept each notification from

bot == <<loaded, syncing>>
events == <<age, claim, posts, missed>>
vars == <<listening, buffer, handler, asked, reply, bot, events, faults, handled>>

-----------------------------------------------------------------------------
NoReply == "none"
Unsent == -1
Idle == [kind |-> "idle"]
Free == [at |-> "free", kind |-> "query", module |-> "", answer |-> NoReply]

Init ==
  /\ listening = FALSE /\ buffer = <<>> /\ handler = Idle
  /\ asked = [r \in Requests |-> Free]
  /\ reply = [r \in Requests |-> NoReply]
  /\ loaded = Modules /\ syncing = {}
  /\ age = [e \in Events |-> Unsent]
  /\ claim = [e \in Events |-> 0]
  /\ faults = 0
  /\ handled = [r \in Requests |-> NoReply]
  /\ posts = [e \in Events |-> [c \in Channels |-> 0]]
  /\ missed = {}

Publish(m) == buffer' = IF listening THEN Append(buffer, m) ELSE buffer
Fault == faults < MaxFaults /\ faults' = faults + 1

-----------------------------------------------------------------------------
(* The dashboard's side of a request.                                      *)

Send(r, kind, m) ==
  /\ asked[r] = Free /\ kind \in Asks[r]
  /\ (kind \in {"load", "unload"}) = (m \in Modules)
  /\ asked' = [asked EXCEPT ![r] = [@ EXCEPT !.at = "waiting", !.kind = kind, !.module = m]]
  /\ Publish([kind |-> kind, request |-> r, module |-> m])
  /\ UNCHANGED <<listening, handler, reply, bot, events, faults, handled>>

\* Mutant: whoever waits takes a reply.
ReceiveAny(r) ==
  \E q \in Requests :
    /\ asked[r].at = "waiting" /\ reply[q] # NoReply
    /\ asked' = [asked EXCEPT ![r] = [@ EXCEPT !.at = "over", !.answer = reply[q]]]
    /\ reply' = [reply EXCEPT ![q] = NoReply]
    /\ UNCHANGED <<listening, buffer, handler, bot, events, faults, handled>>

Receive(r) ==
  /\ asked[r].at = "waiting" /\ reply[r] # NoReply
  /\ asked' = [asked EXCEPT ![r] = [@ EXCEPT !.at = "over", !.answer = reply[r]]]
  /\ reply' = [reply EXCEPT ![r] = NoReply]
  /\ UNCHANGED <<listening, buffer, handler, bot, events, faults, handled>>

\* The timeout: the dashboard reports that the bot is unreachable.
GiveUp(r) ==
  /\ asked[r].at = "waiting" /\ reply[r] = NoReply
  /\ asked' = [asked EXCEPT ![r] = [@ EXCEPT !.at = "over"]]
  /\ UNCHANGED <<listening, buffer, handler, reply, bot, events, faults, handled>>

\* A reply nobody waits for any more expires.
ReplyExpires(r) ==
  /\ asked[r].at = "over" /\ reply[r] # NoReply
  /\ reply' = [reply EXCEPT ![r] = NoReply]
  /\ UNCHANGED <<listening, buffer, handler, asked, bot, events, faults, handled>>

-----------------------------------------------------------------------------
(* Twitch and the webhook.                                                 *)

Happens(e) ==
  /\ age[e] = Unsent
  /\ age' = [age EXCEPT ![e] = 0]
  /\ UNCHANGED <<listening, buffer, handler, asked, reply, bot, claim, faults, handled, posts, missed>>

\* Mutant: a notification too old is passed on.
AcceptedAlways(e) == age[e] >= 0

Accepted(e) == age[e] \in 0 .. MaxAge

\* Twitch may deliver it again at any time; a claimed one is acknowledged and left alone.
Webhook(e) ==
  /\ Accepted(e) /\ claim[e] = 0
  /\ claim' = [claim EXCEPT ![e] = ClaimTtl]
  /\ Publish([kind |-> "event", event |-> e])
  /\ missed' = IF listening THEN missed ELSE missed \cup {e} \X Channels
  /\ UNCHANGED <<listening, handler, asked, reply, bot, age, faults, handled, posts>>

\* notify_bot cannot publish, or the web process stops: the claim stays.
WebhookFails(e) ==
  /\ Accepted(e) /\ claim[e] = 0 /\ Fault
  /\ claim' = [claim EXCEPT ![e] = ClaimTtl]
  /\ missed' = missed \cup {e} \X Channels
  /\ UNCHANGED <<listening, buffer, handler, asked, reply, bot, age, handled, posts>>

Tick ==
  /\ \E e \in Events : age[e] \in 0 .. MaxAge
  /\ age' = [e \in Events |-> IF age[e] \in 0 .. MaxAge THEN age[e] + 1 ELSE age[e]]
  /\ claim' = [e \in Events |-> IF claim[e] > 0 THEN claim[e] - 1 ELSE 0]
  /\ UNCHANGED <<listening, buffer, handler, asked, reply, bot, faults, handled, posts, missed>>

-----------------------------------------------------------------------------
(* The listener and its handlers.                                          *)

Take ==
  /\ listening /\ handler = Idle /\ buffer # <<>>
  /\ handler' = IF Head(buffer).kind = "event" THEN [kind |-> "lookup", event |-> Head(buffer).event] ELSE Head(buffer)
  /\ buffer' = Tail(buffer)
  /\ UNCHANGED <<listening, asked, reply, bot, events, faults, handled>>

\* What the handler answers is pushed next, for the request that is being handled.
Finish(result) ==
  /\ handled' = [handled EXCEPT ![handler.request] = result]
  /\ handler' = [kind |-> "reply", request |-> handler.request, answer |-> result]
  /\ UNCHANGED <<listening, buffer, asked, reply, events>>

Handling(kind) == handler.kind = kind
Buffered == {buffer[i].event : i \in {j \in DOMAIN buffer : buffer[j].kind = "event"}}
InHand == IF Handling("lookup") \/ Handling("post") THEN {handler.event} ELSE {}

PushReply ==
  /\ Handling("reply")
  /\ reply' = [reply EXCEPT ![handler.request] = handler.answer]
  /\ handler' = Idle
  /\ UNCHANGED <<listening, buffer, asked, bot, events, faults, handled>>

\* The connection is given up, and with it what it still held.
PushFails ==
  /\ Handling("reply") /\ Fault
  /\ handler' = Idle /\ listening' = FALSE /\ buffer' = <<>>
  /\ missed' = missed \cup Buffered \X Channels
  /\ UNCHANGED <<asked, reply, bot, age, claim, posts, handled>>

Query == Handling("query") /\ Finish("done") /\ UNCHANGED <<bot, faults>>

\* What a query asks of Discord, of Battle.net or of the database may fail; the answer says so.
QueryFails == Handling("query") /\ Fault /\ Finish("refused") /\ UNCHANGED bot

Load ==
  /\ Handling("load")
  /\ IF handler.module \in loaded THEN Finish("refused") /\ UNCHANGED loaded
                                  ELSE Finish("done") /\ loaded' = loaded \cup {handler.module}
  /\ UNCHANGED <<syncing, faults>>

LoadFails == Handling("load") /\ Fault /\ Finish("refused") /\ UNCHANGED bot

Unload ==
  /\ Handling("unload")
  /\ IF handler.module \in loaded THEN Finish("done") /\ loaded' = loaded \ {handler.module}
                                  ELSE Finish("refused") /\ UNCHANGED loaded
  /\ UNCHANGED <<syncing, faults>>

\* A sync of the dashboard is refused while another one of the dashboard runs.
Sync ==
  /\ Handling("sync")
  /\ IF syncing \cap Requests # {} THEN Finish("refused") /\ UNCHANGED syncing
                                  ELSE Finish("done") /\ syncing' = syncing \cup {handler.request}
  /\ UNCHANGED <<loaded, faults>>

SyncEnds(r) ==
  /\ r \in syncing
  /\ syncing' = syncing \ {r}
  /\ UNCHANGED <<listening, buffer, handler, asked, reply, loaded, events, faults, handled>>

-----------------------------------------------------------------------------
(* twitch_event: the channels are looked up, then all are written to at once. *)

LookUp ==
  /\ Handling("lookup")
  /\ handler' = [kind |-> "post", event |-> handler.event, to |-> Channels]
  /\ UNCHANGED <<listening, buffer, asked, reply, bot, events, faults, handled>>

LookUpFails ==
  /\ Handling("lookup") /\ Fault
  /\ handler' = Idle /\ missed' = missed \cup {handler.event} \X Channels
  /\ UNCHANGED <<listening, buffer, asked, reply, bot, age, claim, handled, posts>>

Posting(c) ==
  /\ Handling("post") /\ c \in handler.to
  /\ handler' = IF handler.to = {c} THEN Idle ELSE [handler EXCEPT !.to = @ \ {c}]
  /\ UNCHANGED <<listening, buffer, asked, reply, bot, age, claim, handled>>

Post(c) ==
  /\ Posting(c)
  /\ posts' = [posts EXCEPT ![handler.event][c] = @ + 1]
  /\ UNCHANGED <<missed, faults>>

\* Mutant: the first refusal ends the round.
PostFailsForAll(c) ==
  /\ Handling("post") /\ c \in handler.to /\ Fault
  /\ handler' = Idle /\ missed' = missed \cup {<<handler.event, c>>}
  /\ UNCHANGED <<listening, buffer, asked, reply, bot, age, claim, handled, posts>>

\* One channel that refuses keeps none of the others from getting it.
PostFails(c) == Posting(c) /\ Fault /\ missed' = missed \cup {<<handler.event, c>>} /\ UNCHANGED posts

-----------------------------------------------------------------------------
(* Connection, process and operator.                                       *)

Disconnect ==
  /\ listening /\ handler = Idle /\ Fault
  /\ listening' = FALSE /\ buffer' = <<>>
  /\ missed' = missed \cup Buffered \X Channels
  /\ UNCHANGED <<handler, asked, reply, bot, age, claim, handled, posts>>

Subscribe ==
  /\ ~listening /\ listening' = TRUE
  /\ UNCHANGED <<buffer, handler, asked, reply, bot, events, faults, handled>>

Restart ==
  /\ Fault
  /\ listening' = FALSE /\ buffer' = <<>> /\ handler' = Idle
  /\ missed' = missed \cup (InHand \cup Buffered) \X Channels
  /\ loaded' = Modules /\ syncing' = {}
  /\ UNCHANGED <<asked, reply, age, claim, handled, posts>>

\* The command in Discord, beside the listener.
SyncRecipes ==
  /\ "operator" \notin syncing /\ syncing' = syncing \cup {"operator"}
  /\ UNCHANGED <<listening, buffer, handler, asked, reply, loaded, events, faults, handled>>

Handle ==
  \/ Take \/ PushReply \/ Query \/ Load \/ Unload \/ Sync \/ LookUp
  \/ \E c \in Channels : Post(c)

Next ==
  \/ Handle \/ Tick \/ LoadFails \/ QueryFails \/ PushFails \/ LookUpFails \/ Disconnect \/ Subscribe \/ Restart
  \/ \E r \in Requests : \/ Receive(r) \/ GiveUp(r) \/ ReplyExpires(r)
                         \/ \E kind \in Kinds, m \in Modules \cup {""} : Send(r, kind, m)
  \/ \E s \in Requests \cup {"operator"} : SyncEnds(s)
  \/ \E e \in Events : Happens(e) \/ Webhook(e) \/ WebhookFails(e)
  \/ \E c \in Channels : PostFails(c)
  \/ SyncRecipes

Spec == Init /\ [][Next]_vars

\* The listener's task goes on and connects again; every call that waits has a timeout.
FairSpec ==
  /\ Spec /\ WF_vars(Handle) /\ WF_vars(Subscribe)
  /\ \A r \in Requests : WF_vars(Receive(r) \/ GiveUp(r))

-----------------------------------------------------------------------------
(* Properties.                                                             *)

\* Types; a bot that is not subscribed holds no message, and only what is over leaves a reply behind.
TypeOK ==
  /\ listening \in BOOLEAN
  /\ ~listening => buffer = <<>>
  /\ \A r \in Requests : asked[r].answer \in Results \cup {NoReply} /\ reply[r] \in Results \cup {NoReply}
  /\ \A r \in Requests : reply[r] # NoReply => asked[r].at # "free"
  /\ loaded \subseteq Modules
  /\ faults \in 0 .. MaxFaults

\* However often Twitch delivers a notification within its age limit or after it, no channel
\* gets it twice: the claim on its id outlives the window in which it is accepted.
PostedOnce == \A e \in Events, c \in Channels : posts[e][c] <= 1

\* What the dashboard is told is what became of this very request, although replies come late,
\* requests time out in between and the bot restarts.
AnswerIsOwn == \A r \in Requests : asked[r].answer # NoReply => asked[r].answer = handled[r]

\* A claimed notification gets to every channel, except those it was lost for: published to a
\* deaf bot, given up with the connection or the process, or refused by Discord there.
HeardIsPosted ==
  \A e \in Events, c \in Channels : claim[e] > 0 ~> <<e, c>> \in missed \/ posts[e][c] = 1
=============================================================================
