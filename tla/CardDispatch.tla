---------------------------- MODULE CardDispatch ----------------------------
(***************************************************************************)
(* The rich-card dispatcher with its one plain-text fallback, as written   *)
(* in src/claude_notify_enhanced.py:                                       *)
(*   send_enhanced_feishu_notification POSTs an "interactive" card; only   *)
(*   when that POST (or response.json()) raises does it call               *)
(*   send_simple_notification, which POSTs a "text" message once and       *)
(*   swallows every error.                                                 *)
(* src/claude_notify_direct.py (send_feishu_card_notification ->           *)
(* send_feishu_notification) has the same control flow.                    *)
(* The other senders POST once and interpret the answer, each its own way: *)
(*   smart  claude_notify_smart.send_smart_notification: a rich card, 200  *)
(*          and code 0, and no fallback                                    *)
(*   final  claude_notify_final.send_claude_notification: 200 and code 0   *)
(*   push   claude_notify.send_notification: the success field            *)
(*   quick  quick_notify_enhanced.quick_notify_with_project: 200 alone     *)
(*   notifier  claude_code_notifier.send_notification: 200 and success     *)
(* and swallow every exception.                                            *)
(*                                                                         *)
(* Each caller is one process invocation sending one notification; callers *)
(* share nothing but the webhook.  The webhook's answer to a POST is a     *)
(* nondeterministic reply kind; whether the webhook processed the message  *)
(* is a separate choice, because a timeout or an unparsable 200 body says  *)
(* nothing about it.                                                       *)
(***************************************************************************)
EXTENDS Naturals, Sequences, FiniteSets

CONSTANTS
  Callers,   \* concurrent notifier invocations, one notification each
  Replies,   \* the reply kinds the webhook may produce (subset of ReplyKinds)
  Program,   \* Program[c]: the sender caller c runs
  NONE       \* outcome of a call that has not returned yet

(***************************************************************************)
(* What requests.post(...) can come back with, seen from the caller:       *)
(*  ok      HTTP 200, JSON body with code == 0                             *)
(*  apiErr  HTTP 200, JSON body with code != 0 (e.g. 10185227)             *)
(*  noCode  HTTP 200, JSON body without "code" (mock_feishu_server's       *)
(*          {"StatusCode": 0, ...})                                        *)
(*  notJson HTTP 200, body that response.json() cannot parse               *)
(*  httpErr any other status code                                          *)
(*  timeout requests raises Timeout after timeout=10                       *)
(*  connErr requests raises ConnectionError                                *)
(***************************************************************************)
ReplyKinds == {"ok", "apiErr", "noCode", "notJson", "httpErr", "timeout", "connErr"}

ASSUME Replies \subseteq ReplyKinds /\ Replies # {}
ASSUME NONE \notin BOOLEAN

Programs == {"enhanced", "smart", "final", "push", "quick", "notifier"}
ASSUME Program \in [Callers -> Programs]

VARIABLES
  pc,        \* pc[c]: "idle", "card" (card POST in flight),
             \*        "text" (fallback POST in flight), "post" (the one
             \*        POST of a single-POST sender in flight), "done"
  outcome,   \* outcome[c]: the boolean the call returned, NONE before
  replies,   \* replies[c]: reply kinds of c's POSTs, in order
  channel    \* history: messages the webhook processed, <<caller, schema>>

vars == <<pc, outcome, replies, channel>>

\* The wire payloads: the rich card, the plain text fallback, the structured
\* hook payload ({"msg_type": "text", "content": {task_name, status, ...}})
\* and the Message Pusher push request ({title, description, content}).
Schemas == {"card", "text", "hook", "push"}

(***************************************************************************)
(* Whether the webhook processed a POST answered with kind k.  A 200 with  *)
(* a body is an answer of a server that handled it; the mock server        *)
(* prints and answers 200 for every JSON body.  A timeout may race a late  *)
(* success, and a 200 whose body is not JSON may come from either side.    *)
(***************************************************************************)
ProcessedOptions(k) ==
  CASE k \in {"ok", "noCode"}       -> {TRUE}
    [] k \in {"notJson", "timeout"} -> BOOLEAN
    [] OTHER                        -> {FALSE}

\* Variant: fall back on every failed card POST (spec.md 4.5's rule).
RaisesOrRejected(k) == k # "ok"

\* The POST, or response.json() on a 200, raises inside the try block.
Raises(k) == k \in {"notJson", "timeout", "connErr"}

\* quick_notify_with_project: response.status_code == 200, the body unread.
StatusOnly(k) == k \in {"ok", "apiErr", "noCode", "notJson"}

\* response.status_code == 200 and response.json().get('code') == 0; the
\* same test in send_claude_notification.
CodeZero(k) == k = "ok"

\* claude_notify.send_notification: response.json().get('success') on any
\* status; a body that is not JSON raises into an except branch.
SuccessField(k) == k = "ok"

\* claude_code_notifier.send_notification: status 200, then the success
\* field of response.json().
StatusAndSuccess(k) == k = "ok"

\* What a single-POST sender returns for the answer k.
Accepted(c, k) ==
  CASE Program[c] = "final" -> CodeZero(k)
    [] Program[c] = "push"  -> SuccessField(k)
    [] Program[c] = "notifier" -> StatusAndSuccess(k)
    [] Program[c] = "smart" -> CodeZero(k)
    [] OTHER                -> StatusOnly(k)

\* The payload a single-POST sender builds.
PayloadSchema(c) ==
  CASE Program[c] = "smart"              -> "card"
    [] Program[c] \in {"final", "quick"} -> "hook"
    [] OTHER                             -> "push"

\* The webhook's history grows by c's message of schema s when processed.
Deliver(c, s, processed) ==
  channel' = IF processed THEN Append(channel, <<c, s>>) ELSE channel

Answer(c, k) == replies' = [replies EXCEPT ![c] = Append(@, k)]

\* Variant: a branch that falls off the end of the function (returns None).
ReturnNothing(c, b) ==
  /\ pc' = [pc EXCEPT ![c] = "done"]
  /\ UNCHANGED outcome

Return(c, b) ==
  /\ pc' = [pc EXCEPT ![c] = "done"]
  /\ outcome' = [outcome EXCEPT ![c] = b]

Init ==
  /\ pc = [c \in Callers |-> "idle"]
  /\ outcome = [c \in Callers |-> NONE]
  /\ replies = [c \in Callers |-> <<>>]
  /\ channel = <<>>

(***************************************************************************)
(* send_enhanced_feishu_notification: build card_data, requests.post.      *)
(***************************************************************************)
SendCard(c) ==
  /\ Program[c] = "enhanced"
  /\ pc[c] = "idle"
  /\ pc' = [pc EXCEPT ![c] = "card"]
  /\ UNCHANGED <<outcome, replies, channel>>

\* The card POST returns without raising: return code == 0, no fallback on
\* a non-200 status or an API error.
CardAnswered(c) ==
  /\ pc[c] = "card"
  /\ \E k \in {r \in Replies : ~Raises(r)} :
       /\ Answer(c, k)
       /\ \E p \in ProcessedOptions(k) : Deliver(c, "card", p)
       /\ Return(c, CodeZero(k))

\* The card POST raises: the except branch calls send_simple_notification.
CardRaised(c) ==
  /\ pc[c] = "card"
  /\ \E k \in {r \in Replies : Raises(r)} :
       /\ Answer(c, k)
       /\ \E p \in ProcessedOptions(k) : Deliver(c, "card", p)
       /\ pc' = [pc EXCEPT ![c] = "text"]
       /\ UNCHANGED outcome

\* Variant: the fallback POST retried while it raises.
TextReplyRetry(c) ==
  /\ pc[c] = "text"
  /\ \E k \in Replies :
       /\ Answer(c, k)
       /\ \E p \in ProcessedOptions(k) : Deliver(c, "text", p)
       /\ IF Raises(k) THEN UNCHANGED <<pc, outcome>> ELSE Return(c, CodeZero(k))

\* Variant: send_simple_notification without its try/except; an exception
\* ends the process without a return value.
TextReplyUncaught(c) ==
  /\ pc[c] = "text"
  /\ \E k \in Replies :
       /\ Answer(c, k)
       /\ \E p \in ProcessedOptions(k) : Deliver(c, "text", p)
       /\ IF Raises(k) THEN ReturnNothing(c, FALSE) ELSE Return(c, CodeZero(k))

\* send_simple_notification: one text POST, True only on 200 with code 0,
\* every exception swallowed into False.
TextReply(c) ==
  /\ pc[c] = "text"
  /\ \E k \in Replies :
       /\ Answer(c, k)
       /\ \E p \in ProcessedOptions(k) : Deliver(c, "text", p)
       /\ Return(c, CodeZero(k))

(***************************************************************************)
(* The single-POST senders: build the payload, POST it once (timeout 10 s, *)
(* 15 s for the notifier), and return; none of them has a fallback.       *)
(***************************************************************************)
SendPost(c) ==
  /\ Program[c] # "enhanced"
  /\ pc[c] = "idle"
  /\ pc' = [pc EXCEPT ![c] = "post"]
  /\ UNCHANGED <<outcome, replies, channel>>

\* The answer, or the exception, interpreted; every exception becomes False.
PostReply(c) ==
  /\ pc[c] = "post"
  /\ \E k \in Replies :
       /\ Answer(c, k)
       /\ \E p \in ProcessedOptions(k) : Deliver(c, PayloadSchema(c), p)
       /\ Return(c, Accepted(c, k))

Next ==
  \E c \in Callers :
    \/ SendCard(c)
    \/ CardAnswered(c)
    \/ CardRaised(c)
    \/ TextReply(c)
    \/ SendPost(c)
    \/ PostReply(c)

\* Every POST carries a timeout (10 s), so a caller's enabled step always
\* happens.
Fairness ==
  \A c \in Callers :
    WF_vars(SendCard(c) \/ CardAnswered(c) \/ CardRaised(c) \/ TextReply(c)
            \/ SendPost(c) \/ PostReply(c))

Spec == Init /\ [][Next]_vars /\ Fairness

-----------------------------------------------------------------------------
(***************************************************************************)
(* Properties                                                              *)
(***************************************************************************)

TypeOK ==
  /\ pc \in [Callers -> {"idle", "card", "text", "post", "done"}]
  /\ outcome \in [Callers -> BOOLEAN \cup {NONE}]
  /\ replies \in [Callers -> Seq(Replies)]
  /\ channel \in Seq(Callers \X Schemas)
  /\ \A c \in Callers : (outcome[c] = NONE) <=> (pc[c] # "done")

\* The messages of caller c the webhook processed.
DeliveredOf(c) == {i \in DOMAIN channel : channel[i][1] = c}

(* When a notifier call returns True, the webhook has processed one of that *)
(* caller's messages: the response interpretation in                       *)
(* send_enhanced_feishu_notification / send_simple_notification never       *)
(* reports a rejected or unprocessed notification as sent.                  *)
SuccessMeansDelivered ==
  \A c \in Callers : outcome[c] = TRUE => DeliveredOf(c) # {}

(* A caller's notification reaches the channel twice only when the card    *)
(* POST's answer was lost (a timeout, or a 200 body response.json() could   *)
(* not parse) and the except branch then sent the text fallback: the        *)
(* fallback of send_enhanced_feishu_notification never duplicates a card    *)
(* the webhook acknowledged in any form.                                    *)
DuplicateOnlyAfterLostAnswer ==
  \A c \in Callers :
    Cardinality(DeliveredOf(c)) > 1 => replies[c][1] \in {"timeout", "notJson"}

(* Every notifier call eventually returns a definite True or False: no     *)
(* reply of the webhook leaves the caller blocked or lets an exception      *)
(* escape past send_enhanced_feishu_notification.                           *)
EveryCallReturns == \A c \in Callers : <>(outcome[c] \in BOOLEAN)

=============================================================================
