--------------------------- MODULE ChannelConfig ----------------------------
(***************************************************************************)
(* The channel configuration scripts of src/ and the Message Pusher        *)
(* channel table they edit over HTTP (/api/channel/, /api/option/).        *)
(*   setup_feishu_flow   list; DELETE every channel named feishu (result   *)
(*                       ignored); POST a custom feishu channel            *)
(*   setup_real_feishu   list; PUT the first lark feishu channel, or POST  *)
(*                       a lark one                                        *)
(*   update_feishu_url, update_to_mock, final_fix: list; PUT the first     *)
(*                       lark feishu channel's url, or fail               *)
(*   update_webhook      list; PUT the first lark channel                  *)
(*   update_feishu_final PUT /api/channel/1                                *)
(*   fix_feishu_template list; PUT the first custom feishu channel         *)
(*   setup_feishu        list; if no lark channel, read a URL and POST a   *)
(*                       lark feishu channel; then set PushDefaultChannel  *)
(*   fix_default_channel, fix_default_channel_new: set the default         *)
(*                       channel option to feishu                          *)
(*   quick_setup         login; PUT the PushToken option; optionally POST  *)
(*                       an email channel named moren youjian              *)
(*   quick_fix           login; PUT the user's channel and the default     *)
(*                       channel option to feishu                          *)
(*   demo_complete       login; PUT the user's channel                     *)
(* Every lark or custom channel these scripts create or update is named    *)
(* feishu, and the email channel is named moren youjian, so a channel is   *)
(* its type and url.  A push to channel feishu goes to the feishu channel  *)
(* with the smallest id (the server's lookup by name).                     *)
(*                                                                         *)
(* Scripts are run one at a time by hand.  A script whose requests all     *)
(* come before its single write is one action; setup_feishu_flow and       *)
(* setup_feishu write more than once and are step by step, and may die     *)
(* between steps (an uncaught exception, Ctrl-C) when Crashes holds.       *)
(* The server answers a request with a JSON body whose success field says *)
(* whether it applied it.  When Faults holds any request may fail; when    *)
(* UniqueNames holds the server refuses a second channel of the same name; *)
(* when PlainReplies holds a write may get a 2xx reply with no JSON body   *)
(* (an HTML page after a redirect, an empty body), whatever the server     *)
(* did with it.                                                            *)
(***************************************************************************)
EXTENDS Naturals

CONSTANTS
  MaxChannels,  \* bound on the channel ids the server hands out
  UniqueNames,  \* the server refuses a second channel named feishu
  Faults,       \* any request may be refused
  Crashes,      \* a multi-step script may die between two steps
  PlainReplies, \* a write may be answered 2xx without a JSON body
  NONE

ASSUME MaxChannels \in Nat /\ UniqueNames \in BOOLEAN
ASSUME Faults \in BOOLEAN /\ Crashes \in BOOLEAN /\ PlainReplies \in BOOLEAN

Ids == 1..MaxChannels
Types == {"lark", "custom", "email"}
\* flowA, flowB: the two Feishu flow triggers (e6704c78..., 5f57f0a2...);
\* bot: the robot URL typed into setup_feishu; httpbin, mock: test sinks.
Urls == {"flowA", "flowB", "bot", "httpbin", "mock"}
\* mailbox: the address typed into quick_setup, in the url slot.
Channels == [type : {"lark", "custom"}, url : Urls] \cup [type : {"email"}, url : {"mailbox"}]

VARIABLES
  chan,     \* chan[i]: channel i of the server, or NONE
  nextId,   \* the id the server gives the next channel it creates
  default,  \* the PushDefaultChannel option: NONE or "feishu"
  run,      \* the multi-step script in progress, or NONE; `had` records
            \* whether a channel existed when it started
  report,   \* what the last script run said of its outcome, or NONE
  opts      \* the PushToken option and the root user's own channel, NONE
            \* until a script sets them

vars == <<chan, nextId, default, run, report, opts>>

Live == {i \in Ids : chan[i] # NONE}
OfType(t) == {i \in Live : chan[i].type = t}
\* The channels named feishu: every one but an email channel.
Feishu == {i \in Live : chan[i].type # "email"}
FirstOf(S) == IF S = {} THEN 0 ELSE CHOOSE i \in S : \A j \in S : i <= j

\* The channel a push to "feishu" reaches.
Target == FirstOf(Feishu)

-----------------------------------------------------------------------------
(* The server, as the scripts see it.                                      *)

\* The outcomes of a request the server would apply when `allowed`.
Accepts(allowed) ==
  IF ~allowed THEN {FALSE} ELSE IF Faults THEN BOOLEAN ELSE {TRUE}

\* Whether GET /api/channel/ answered with success.
Listings == IF Faults THEN BOOLEAN ELSE {TRUE}

\* The reply to a write: whether the server applied it, and whether its
\* body is JSON.
Replies(allowed) ==
  [applied : Accepts(allowed), json : IF PlainReplies THEN BOOLEAN ELSE {TRUE}]

Creatable == ~UniqueNames \/ Feishu = {}
CreatableEmail == ~UniqueNames \/ OfType("email") = {}
Updatable(i) == i \in Live /\ (~UniqueNames \/ Feishu \subseteq {i})

Post(type, url, ok) ==
  IF ok THEN /\ chan' = [chan EXCEPT ![nextId] = [type |-> type, url |-> url]]
             /\ nextId' = nextId + 1
        ELSE UNCHANGED <<chan, nextId>>

Put(i, type, url, ok) ==
  IF ok THEN chan' = [chan EXCEPT ![i] = [type |-> type, url |-> url]]
        ELSE UNCHANGED chan

\* A script's last word: success or not, the channel it says feishu now is
\* (NONE when it says nothing of it) and what it tested: the JSON success
\* field, or only the HTTP status.
Claim(s, ok, type, url, basis) ==
  report' = [s |-> s, ok |-> ok, type |-> type, url |-> url, basis |-> basis]

\* response.json() inside try, `except:` success when status_code < 300:
\* a JSON reply is judged on its success field, any other 2xx is success.
Guarded(s, r, type, url) ==
  IF r.json THEN Claim(s, r.applied, type, url, "success")
            ELSE Claim(s, TRUE, type, url, "http")

\* A bare response.json(): a reply that is not JSON raises JSONDecodeError
\* out of the script, which reports nothing.
Unguarded(s, r, type, url) ==
  IF r.json THEN Claim(s, r.applied, type, url, "success") ELSE report' = NONE

\* A script that creates a channel is run only while ids remain.
Idle == run = NONE
CanCreate == nextId <= MaxChannels

-----------------------------------------------------------------------------
(* setup_feishu_flow.py: setup_feishu_flow_webhook, called from main.      *)

\* Variant: the listed ids read 0-based, one too low.
FlowListOffByOne ==
  /\ Idle /\ CanCreate
  /\ \E listed \in Listings :
       run' = [s |-> "flow", pc |-> "delete", url |-> NONE, had |-> Feishu # {},
               todo |-> IF listed THEN {i - 1 : i \in Feishu} ELSE {}]
  /\ report' = NONE
  /\ UNCHANGED <<chan, nextId, default>>

\* GET the list; when it answers, every channel on it named feishu is to
\* be deleted.  A failed list is passed over and the script goes on.
FlowList ==
  /\ Idle /\ CanCreate
  /\ \E listed \in Listings :
       run' = [s |-> "flow", pc |-> "delete", url |-> NONE, had |-> Feishu # {},
               todo |-> IF listed THEN Feishu ELSE {}]
  /\ report' = NONE
  /\ UNCHANGED <<chan, nextId, default>>

\* DELETE the next listed channel, in list order; the answer is not read.
FlowDelete ==
  /\ run # NONE /\ run.s = "flow" /\ run.todo # {}
  /\ LET i == FirstOf(run.todo) IN
       /\ \E ok \in Accepts(i \in Live) :
            chan' = IF ok THEN [chan EXCEPT ![i] = NONE] ELSE chan
       /\ run' = [run EXCEPT !.todo = @ \ {i}]
  /\ UNCHANGED <<nextId, default, report>>

\* POST a custom feishu channel; a guarded reply.
FlowCreate ==
  /\ run # NONE /\ run.s = "flow" /\ run.todo = {}
  /\ \E r \in Replies(Creatable) :
       /\ Post("custom", "flowA", r.applied)
       /\ Guarded("flow", r, "custom", "flowA")
  /\ run' = NONE
  /\ UNCHANGED default

-----------------------------------------------------------------------------
(* The single-write scripts.                                               *)

\* setup_real_feishu.update_feishu_webhook: the PUT branch tests only
\* response.ok, the POST branch the success field of a bare json().
RealFeishu ==
  /\ Idle /\ CanCreate
  /\ \E listed \in Listings :
       IF ~listed
         THEN Claim("real", FALSE, NONE, NONE, "success") /\ UNCHANGED <<chan, nextId>>
       ELSE LET i == FirstOf(OfType("lark")) IN
            IF i # 0
              THEN /\ \E r \in Replies(Updatable(i)) : Put(i, "lark", "flowA", r.applied)
                   /\ Claim("real", TRUE, "lark", "flowA", "http")
                   /\ UNCHANGED nextId
              ELSE \E r \in Replies(Creatable) :
                     /\ Post("lark", "flowA", r.applied)
                     /\ Unguarded("real", r, "lark", "flowA")
  /\ UNCHANGED <<default, run>>

\* update_feishu_url.update_feishu_channel (url httpbin),
\* update_to_mock.update_feishu_to_mock and final_fix.update_feishu_complete
\* (url mock): PUT the first lark feishu channel, or fail without one.
\* update_feishu_url reads the reply with a bare json(), the other two
\* guard it.
UpdateLarkUrl(s, url, guarded) ==
  /\ Idle
  /\ \E listed \in Listings :
       LET i == IF listed THEN FirstOf(OfType("lark")) ELSE 0 IN
       IF i = 0
         THEN Claim(s, FALSE, NONE, NONE, "success") /\ UNCHANGED chan
       ELSE \E r \in Replies(Updatable(i)) :
              /\ Put(i, "lark", url, r.applied)
              /\ IF guarded THEN Guarded(s, r, "lark", url) ELSE Unguarded(s, r, "lark", url)
  /\ UNCHANGED <<nextId, default, run>>

UpdateFeishuUrl == UpdateLarkUrl("feishuUrl", "httpbin", FALSE)
UpdateToMock == UpdateLarkUrl("toMock", "mock", TRUE)
FinalFix == UpdateLarkUrl("finalFix", "mock", TRUE)

\* update_webhook.get_feishu_channel: the first lark channel whatever its
\* name, or none (0) when the list fails.
GetFeishuChannel(listed) == IF listed THEN FirstOf(OfType("lark")) ELSE 0

\* update_webhook.main: update_webhook_url PUTs the channel found as lark
\* feishu flowB; without one main ends.
UpdateWebhook ==
  /\ Idle
  /\ \E listed \in Listings :
       LET i == GetFeishuChannel(listed) IN
       IF i = 0
         THEN Claim("webhook", FALSE, NONE, NONE, "success") /\ UNCHANGED chan
       ELSE \E r \in Replies(Updatable(i)) :
              Put(i, "lark", "flowB", r.applied) /\ Unguarded("webhook", r, "lark", "flowB")
  /\ UNCHANGED <<nextId, default, run>>

\* update_feishu_final.update_feishu_channel: PUT /api/channel/1, success
\* when the status code is 200, which it always is.
UpdateFinal ==
  /\ Idle
  /\ \E ok \in Accepts(Updatable(1)) : Put(1, "lark", "flowB", ok)
  /\ Claim("final", TRUE, "lark", "flowB", "http")
  /\ UNCHANGED <<nextId, default, run>>

\* fix_feishu_template.update_feishu_template: PUT the first custom
\* feishu channel with the flowA url and a template; a guarded reply.
FixTemplate ==
  /\ Idle
  /\ \E listed \in Listings :
       LET i == IF listed THEN FirstOf(OfType("custom")) ELSE 0 IN
       IF i = 0
         THEN Claim("template", FALSE, NONE, NONE, "success") /\ UNCHANGED chan
       ELSE \E r \in Replies(Updatable(i)) :
              Put(i, "custom", "flowA", r.applied) /\ Guarded("template", r, "custom", "flowA")
  /\ UNCHANGED <<nextId, default, run>>

-----------------------------------------------------------------------------
(* setup_feishu.py main, with check_channels, setup_feishu_channel and     *)
(* set_default_channel.                                                    *)

\* check_channels: the listed channels, or none when the GET fails.
CheckChannels(listed) == IF listed THEN Live ELSE {}

\* set_default_channel: PUT the PushDefaultChannel option.
SetPushDefault(ok) == default' = IF ok THEN "feishu" ELSE default

\* Variant: the create skipped when any channel is listed, lark or not.
SetupListAnyChannel ==
  /\ Idle /\ CanCreate
  /\ \E listed \in Listings :
       IF CheckChannels(listed) # {}
         THEN run' = [s |-> "setup", pc |-> "default", url |-> NONE, todo |-> {},
                      had |-> Feishu # {}]
              /\ report' = NONE
       ELSE \E given \in BOOLEAN :
              IF given
                THEN run' = [s |-> "setup", pc |-> "create", url |-> NONE, todo |-> {},
                      had |-> Feishu # {}]
                     /\ report' = NONE
                ELSE run' = NONE /\ Claim("setup", FALSE, NONE, NONE, "success")
  /\ UNCHANGED <<chan, nextId, default>>

\* check_channels (an empty list when the GET fails); with a lark channel
\* the create is skipped, else a URL is read and an empty one ends main.
SetupList ==
  /\ Idle /\ CanCreate
  /\ \E listed \in Listings :
       IF \E i \in CheckChannels(listed) : chan[i].type = "lark"
         THEN run' = [s |-> "setup", pc |-> "default", url |-> NONE, todo |-> {},
                      had |-> Feishu # {}]
              /\ report' = NONE
       ELSE \E given \in BOOLEAN :
              IF given
                THEN run' = [s |-> "setup", pc |-> "create", url |-> NONE, todo |-> {},
                      had |-> Feishu # {}]
                     /\ report' = NONE
                ELSE run' = NONE /\ Claim("setup", FALSE, NONE, NONE, "success")
  /\ UNCHANGED <<chan, nextId, default>>

\* setup_feishu_channel: POST a lark feishu channel; main returns on failure,
\* and a reply that is not JSON raises out of main.
SetupCreate ==
  /\ run # NONE /\ run.s = "setup" /\ run.pc = "create"
  /\ \E r \in Replies(Creatable) :
       /\ Post("lark", "bot", r.applied)
       /\ CASE ~r.json -> run' = NONE /\ report' = NONE
             [] r.applied -> run' = [run EXCEPT !.pc = "default", !.url = "bot"]
                             /\ UNCHANGED report
             [] OTHER -> run' = NONE /\ Claim("setup", FALSE, NONE, NONE, "success")
  /\ UNCHANGED default

\* set_default_channel(session, "feishu"), then the closing message.
SetupDefault ==
  /\ run # NONE /\ run.s = "setup" /\ run.pc = "default"
  /\ \E r \in Replies(TRUE) :
       /\ SetPushDefault(r.applied)
       /\ Unguarded("setup", r, IF run.url = NONE THEN NONE ELSE "lark", run.url)
  /\ run' = NONE
  /\ UNCHANGED <<chan, nextId>>

-----------------------------------------------------------------------------
(* The default channel option.                                             *)

\* fix_default_channel.update_user_default_channel: the name is tried
\* under each of four option names until one is accepted.
UpdateUserDefaultChannel ==
  \E tries \in [1..4 -> Accepts(TRUE)] :
    default' = IF \E k \in 1..4 : tries[k] THEN "feishu" ELSE default

\* fix_default_channel.main: get_channels (empty when the GET fails), the
\* first lark channel's name (feishu) made the default; no lark channel
\* ends main.  The result is not reported.
FixDefaultChannel ==
  /\ Idle
  /\ \E listed \in Listings :
       IF \E i \in CheckChannels(listed) : chan[i].type = "lark"
         THEN UpdateUserDefaultChannel
         ELSE UNCHANGED default
  /\ report' = NONE
  /\ UNCHANGED <<chan, nextId, run>>

\* fix_default_channel_new.main: the
\* channels are listed and printed, then PushDefaultChannel is set to
\* feishu whatever they are.
SetDefaultChannel ==
  /\ Idle
  /\ \E ok \in Accepts(TRUE) : SetPushDefault(ok)
  /\ report' = NONE
  /\ UNCHANGED <<chan, nextId, run>>

\* quick_setup.main: login, setup_token (GET /api/option/, always HTTP 200
\* here, then PUT PushToken; a refusal ends main), then an email read from
\* the keyboard, an empty one skipping setup_email_channel's POST.  Dying
\* between the two writes is the POST refused.  The test push changes
\* nothing.
QuickSetup ==
  /\ Idle /\ CanCreate
  /\ \E login \in Accepts(TRUE), tokOk \in Accepts(TRUE), email \in BOOLEAN :
       IF ~login THEN UNCHANGED <<chan, nextId, opts>>
       ELSE /\ opts' = [opts EXCEPT !.token = IF tokOk THEN "claude_task_2025" ELSE @]
            /\ IF tokOk /\ email
                 THEN \E ok \in Accepts(CreatableEmail) : Post("email", "mailbox", ok)
                 ELSE UNCHANGED <<chan, nextId>>
  /\ report' = NONE
  /\ UNCHANGED <<default, run>>

\* quick_fix.login_and_fix: after the login, the user's channel PUT and the
\* PushDefaultChannel PUT, each refusal only printed.  The test pushes and
\* the claude_notify.py run change nothing.
QuickFix ==
  /\ Idle
  /\ \E login \in Accepts(TRUE), userOk \in Accepts(TRUE), optOk \in Accepts(TRUE) :
       IF ~login THEN UNCHANGED <<default, opts>>
       ELSE /\ opts' = [opts EXCEPT !.user = IF userOk THEN "feishu" ELSE @]
            /\ SetPushDefault(optOk)
  /\ report' = NONE
  /\ UNCHANGED <<chan, nextId, run>>

\* demo_complete.main: demo_login_and_setup (GET the service, then log in;
\* either failing ends main), then demo_channel_config lists the channels
\* and PUTs /api/user/self with channel feishu (and the user's token), a
\* refusal only printed.  The demos after it push test messages.
DemoComplete ==
  /\ Idle
  /\ \E up \in Accepts(TRUE), login \in Accepts(TRUE), userOk \in Accepts(TRUE) :
       opts' = [opts EXCEPT !.user = IF up /\ login /\ userOk THEN "feishu" ELSE @]
  /\ report' = NONE
  /\ UNCHANGED <<chan, nextId, default, run>>

\* setup_feishu_flow or setup_feishu dies between two of its requests.
Crash ==
  /\ Crashes /\ run # NONE
  /\ run' = NONE
  /\ UNCHANGED <<chan, nextId, default, report>>

\* The server may hold one channel made by hand before any script runs.
Init ==
  /\ \E c \in Channels \cup {NONE} :
       /\ chan = [i \in Ids |-> IF i = 1 THEN c ELSE NONE]
       /\ nextId = IF c = NONE THEN 1 ELSE 2
  /\ default = NONE
  /\ run = NONE
  /\ report = NONE
  /\ opts = [token |-> NONE, user |-> NONE]

\* The steps of the scripts that leave the options alone.
ChannelStep ==
  \/ FlowList \/ FlowDelete \/ FlowCreate
  \/ RealFeishu \/ UpdateFeishuUrl \/ UpdateToMock \/ FinalFix
  \/ UpdateWebhook \/ UpdateFinal \/ FixTemplate
  \/ SetupList \/ SetupCreate \/ SetupDefault
  \/ FixDefaultChannel \/ SetDefaultChannel
  \/ Crash

Next == (ChannelStep /\ UNCHANGED opts) \/ QuickSetup \/ QuickFix \/ DemoComplete

Spec == Init /\ [][Next]_vars

-----------------------------------------------------------------------------
(***************************************************************************)
(* Properties                                                              *)
(***************************************************************************)

TypeOK ==
  /\ chan \in [Ids -> Channels \cup {NONE}]
  /\ nextId \in 1..MaxChannels + 1 /\ \A i \in Live : i < nextId
  /\ default \in {NONE, "feishu"}
  /\ run = NONE \/
       /\ run.s \in {"flow", "setup"} /\ run.pc \in {"delete", "create", "default"}
       /\ run.todo \subseteq Ids /\ run.url \in Urls \cup {NONE}
       /\ run.had \in BOOLEAN
  /\ report = NONE \/
       /\ report.ok \in BOOLEAN /\ report.basis \in {"success", "http"}
       /\ report.url \in Urls \cup {NONE}
  /\ opts \in [token : {NONE, "claude_task_2025"}, user : {NONE, "feishu"}]

\* What a finished script said holds of the server: a channel named feishu
\* exists and, when it named one, a push to feishu reaches that channel.
ClaimHolds ==
  /\ Feishu # {}
  /\ report.url # NONE => chan[Target] = [type |-> report.type, url |-> report.url]

(* Every script that tests the JSON success field is right when it says   *)
(* success: after it, a push to feishu reaches the channel it configured, *)
(* whatever requests failed and whichever multi-step script died earlier. *)
CheckedSuccessHolds ==
  Idle /\ report # NONE /\ report.ok /\ report.basis = "success" => ClaimHolds

(* Every script that prints success is right, including those that test   *)
(* only the HTTP status (update_feishu_final, the PUT branch of           *)
(* setup_real_feishu).                                                    *)
ReportedSuccessHolds ==
  Idle /\ report # NONE /\ report.ok => ClaimHolds

(* A script run that found a channel named feishu leaves one when it     *)
(* ends, by finishing or by dying: setup_feishu_flow deletes the old       *)
(* channel before it creates the new one, so between the two steps        *)
(* pushes to feishu (and to the default channel) have no target.           *)
FeishuKeptAcrossRun ==
  [][run # NONE /\ run' = NONE /\ run.had => Feishu' # {}]_vars

=============================================================================
