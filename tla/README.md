# TLA+ models of message-pusher's notification scripts

These are TLA+ models of the Python scripts under `src/`. The scripts turn text
about a finished Claude Code task into a notification. They POST it to a
Feishu webhook or to a local Message Pusher server, and they configure that
server's channels. Each definition is written from the code that
`PROJECT.json` ("map") names. `PROJECT.json` ("runs") lists what TLC checks,
and it also holds the findings and the hazards.

## 1. The system

### Parts

Every notifier is a separate process invocation. It analyses some text,
builds a payload, and POSTs it once with a timeout. Two kinds of state are
shared:
- **Outside the process:** the messages the webhook has processed, and the
  Message Pusher server's channels and options, which the configuration
  scripts edit.
- **Inside one process:** module-level singletons. `_hook`
  (`claude_code_hook.py`) and `_flow_hook` (`claude_flow_hook.py`) each hold
  one `start_time`. `_monitor` (`claude_monitor.py`) holds the captured
  output; it is started at import and flushed by an `atexit` hook.

| Part | Source | Module |
|---|---|---|
| Card dispatcher with one text fallback, and the single-POST senders | `claude_notify_enhanced.py`, `claude_notify_smart.py`, `claude_code_notifier.py`, `claude_notify.py`, `claude_notify_final.py`, `quick_notify_enhanced.py` | `CardDispatch`, `DispatchSpec`, `MCCardDispatch` |
| Shared task timers and the structured payload | `claude_code_hook.py`, `claude_flow_hook.py` | `HookTimer`, `MCHookTimer` |
| Status, task-type, task-name and duration classifiers of every entry point | `claude_notify_enhanced.py`, `claude_notify_global.py`, `claude_hook_notify.py`, `claude_interaction_hook.py`, `claude_notify.py`, `claude_notify_direct.py`, `claude_notify_smart.py`, `claude_code_notifier.py`, `claude_auto_notify.py`, `claude_auto_summarizer.py`, `claude_monitor.py` | `StatusMapping`, `MCStatusMapping` |
| Output monitor singleton | `claude_monitor.py` | `Monitor`, `MCMonitor` |
| Channel configuration scripts | `setup_*.py`, `update_*.py`, `fix_*.py`, `final_fix.py`, `quick_setup.py`, `quick_fix.py`, `demo_complete.py` | `ChannelConfig`, `MCChannelConfig` |

### How the modules compose

Two modules are reused by instance:
- `StatusMapping` takes `Monitor`'s `analyze_output` (`Mon == INSTANCE
  Monitor`) for `claude_monitor`'s exit notification, and checks it with the
  other classifiers.
- `MCCardDispatch` maps `CardDispatch` onto `DispatchSpec`, spec.md 4.5's
  abstract dispatcher, twice: once with the fallback rule the code follows,
  and once with the rule the spec states.

## 2. Modules and runs

### CardDispatch / DispatchSpec / MCCardDispatch

**Senders.** Each caller `c` runs the sender `Program[c]`:
- `enhanced`: `send_enhanced_feishu_notification`, the card with its text
  fallback;
- `smart`: `send_smart_notification`, a card POSTed once with no fallback;
- `final`: `send_claude_notification`, a structured-hook payload;
- `push`: `claude_notify.send_notification`, a Message Pusher push;
- `notifier`: `claude_code_notifier.send_notification`, a Message Pusher push;
- `quick`: `quick_notify_with_project`, a structured-hook payload.

The single-POST senders differ in their success test: 200 and `code == 0`
(`CodeZero`: final, smart), the `success` field on any status
(`SuccessField`: push), 200 and `success` (`StatusAndSuccess`: notifier),
and status 200 alone (`StatusOnly`: quick).

**State.** For each caller `c` (one invocation), the module keeps:
- `pc[c]`: `idle`, then `card` while the card POST is in flight, `text` while
  the fallback POST is in flight, or `post` while a single-POST sender's POST
  is in flight, then `done`;
- `outcome[c]`: the boolean the call returned, or `NONE` before it returns;
- `replies[c]`: the reply kinds its POSTs received.

`channel` is the history of the messages the webhook processed.

**Replies.** A POST's reply is one of seven kinds: `ok`, `apiErr`, `noCode`
(the mock server's body), `notJson`, `httpErr`, `timeout` and `connErr`.
Whether the webhook processed the message is a separate nondeterministic
choice, `ProcessedOptions`: certain for a 200 with a body, unknown for a
timeout or an unparsable body, and false otherwise.

**Actions.**
- `SendCard` builds and POSTs the card.
- `CardAnswered` is the non-raising path: it returns `code == 0` with no
  fallback.
- `CardRaised` is the `except` branch.
- `TextReply` is `send_simple_notification`: one POST, and every exception is
  swallowed.
- `SendPost` and `PostReply` are the single-POST senders: build the payload
  (`PayloadSchema`), POST it, return `Accepted` of the answer; every
  exception is swallowed into False.

**Fairness.** Each caller has weak fairness on its steps. Every POST carries
a timeout (10 s, 15 s in `claude_code_notifier`), so an enabled step is
eventually taken.

**Refinement.** `DispatchSpec` is spec.md 4.5's machine,
`Idle -> Primary -> {Success | Fallback -> {Success | Failed}}`. Only the
callers in its constant `RichCard` have a fallback, and only for the failure
classes in its constant `FallbackOn`; every other attempt ends the call,
Success exactly when the class is `ok` (200 and the success marker).
- `DispatchRefinement` maps the code with `RichCard` = the `enhanced`
  callers and `FallbackOn` = transport. This is the rule the code follows.
- `SpecFallbackRefinement` maps it with `RichCard` = every card sender
  (`enhanced` and `smart`) and `FallbackOn` = every failure class. This is
  spec.md 4.5's rule.

| Run | Checks | Result |
|---|---|---|
| `card_dispatch` | `TypeOK`, `SuccessMeansDelivered`, `DuplicateOnlyAfterLostAnswer`, `DispatchRefinement`, `EveryCallReturns` | pass (about 255k states, 50 s) |
| `card_dispatch_spec_fallback` | `SpecFallbackRefinement` | violation: an `apiErr` or `httpErr` card reply returns False with no fallback |

The `card_dispatch_spec_fallback` run gives four callers `enhanced`,
`smart`, `quick` and `final`. TLC reports the first departure it meets (the
enhanced card). Run with every caller `smart`, or every caller `quick`, the
same property is violated too: a failed smart card ends the call with no
fallback, and `quick` returns True on an `apiErr`. With every caller `final`
it holds.

**Bounds.** The pass run has four callers, `enhanced`, `smart`, `push` and
`notifier`, one for each success test that reads the body. All seven reply
kinds are used. Each call makes at most two POSTs. `CHECK_DEADLOCK FALSE` is
set because a call that has returned ends its process.

### HookTimer / MCHookTimer

**State.**
- `now` is `time.time()` on a discrete clock with `Grain` ticks per second.
  It starts at 1, because `time.time()` is never 0.
- `start_time` is `_hook.start_time`; `flow_start` is `_flow_hook.start_time`.
- `pc[t]` is each caller's position.
- `began`, `ended` and `reported` are history: the caller's own start, the
  instant its notification read the clock, and the `duration_sec` it sent.
- `payload` is the latest payload: its status, its task type, its result
  length, and whether the result was cut.

**Callers.** `Timed` callers are `@claude_hook` wrappers. `Untimed` callers
are the convenience functions of `claude_code_hook.py` (`Notify`) and of
`claude_flow_hook.py` (`FlowNotify`).

**Flow hook.** `_flow_hook` has a timer of its own that only
`start_claude_task` sets (`StartClaudeTask`) and nothing clears. `FlowTimed`
callers (a subset of `Timed`) start it and later notify through a
`claude_flow_hook` function; an untimed `FlowNotify` reports whatever the
timer says, 0 only if no one started it (`FlowDurationSeconds`).

**Texts.** Texts are lengths, from `MCLengths = {0, 150, 1000}`: empty, short,
and longer than every cap in the code (100, 200, 300, 900). Results are built
as the code builds them (prefixes, `output[:200]` or `output[:300]`, the
default summary) and then cut by `truncate_text` or by the flow hook's inline
cut. No property states the 900 cap: that cut is the last step on every path,
so the cap holds whatever comes before it.

**Order of steps.** `start_task()` and a notification are each one atomic
step. The steps of two timed calls may come in any order. Nested decorated
calls are the orders in which the inner call's steps fall between the outer
call's. spec.md section 5 says the engine is single-threaded. The passing
properties hold for every order, and the violation's overlap is a nesting.

| Run | Checks | Result |
|---|---|---|
| `hook_timer` | `TypeOK`, `DurationNeverOverstated`, `SoleTaskExact` | pass |
| `hook_timer_own` | `IsTaskSignal` | violation: spec.md section 3's task signal (status in the enum, `duration_sec` the caller's own elapsed time) fails in three ways, each confirmed on its own: a free-text status is sent as given; overlapping `start_task()` calls overwrite the shared start and a bare notify reports an earlier caller's elapsed time; and a `FlowNotify` after another caller's `start_claude_task` reports that caller's time |

**Bounds.** There are two timed callers on `_hook`, one of which may instead
be timed by the flow timer, and one untimed caller. Two callers on `_hook` are
needed for an overlap. No symmetry is declared, because only one of the two
may use the flow timer. `Grain = 2` makes `int()` truncation visible. `MaxTime = 5`
ticks is two and a half seconds, room for two overlapping runs of different
lengths (the run takes under two minutes). No deadlock is
checked: with every caller done, the process ends.

### StatusMapping / MCStatusMapping

**Shape.** Each entry point's analysis is an operator translated from its
code. A text is a set of words, and `Embeds` lists the substring facts (`ok`
in `token`, 失败 in N个失败, ...). Chinese keywords are spelled in pinyin,
with the glossary in the module header.

**Behaviours.** One behaviour is one process invocation: `Next` fires once,
from `last = NONE`, and records the notification in `last`. Every entry point
is a script or CLI call that sends one notification and exits. The three cfgs
therefore set `CHECK_DEADLOCK FALSE`.

**Entry points (actions).**

| Action | Source |
|---|---|
| `EnhancedNotify` | `claude_notify_enhanced.py`'s `main`: positional arguments fill task type, then status |
| `TestExecution` | `claude_notify_enhanced.py`'s `notify_test_execution` |
| `GlobalNotify` | `claude_notify_global.py`: status prefix and ordered classifier |
| `HookNotify` | `claude_hook_notify.py`: status map, `parse_duration`, coarse type |
| `InteractionNotify` | `claude_interaction_hook.py`: task name by lengths, `_determine_status`, type |
| `PushNotify`, `CardNotify` | `claude_notify.py`, `claude_notify_direct.py` |
| `SmartNotify` | `claude_notify_smart.py`: scores over description and directory |
| `NotifierNotify` | `claude_code_notifier.py`: smart, quick and manual modes |
| `CommandNotify` | `claude_auto_notify.py`: `extract_task_info`, exit code, timeout, exception |
| `MonitorExit` | `claude_monitor.py`'s exit notification, through `Monitor` |
| `SummaryNotify` | `claude_auto_summarizer.py`, including the NameError of its `project_detector` fallback |
| `FinalNotify` | `claude_notify_final.py`'s `main`: `argv[1]` is the task name and `argv[2]` the status, both as given |
| `QuickNotify` | `quick_notify_enhanced.py`'s `__main__`: `argv[1]` is the task name, the status is `success` |

| Run | Checks | Result |
|---|---|---|
| `status_mapping` | `TypeOK`, `PushAndCardAgree`, `ParseDurationMatchesSpec`, `ExtractMatchesReference`, `TaskNameWithinCap` | pass (about 435k states) |
| `status_mapping_failure` | `FailureNeverShownSuccess` | violation: 完成(N个失败) is green; `claude_notify_enhanced.py task 失败` sends 失败 as the task type under a green 完成; a failed status with 完成 or `ok` maps to success; output with an error line is reported 成功完成 |
| `status_mapping_task_name` | `TaskNameNonEmpty` | violation: an empty or blank user input is named `''` by the interaction hook and by the summarizer, and the command lines of `claude_notify_final` and `quick_notify_enhanced` send an empty first argument as the name (each cause confirmed on its own) |

**Reference definitions.** Several properties compare a loop of the code with
a declarative definition written from spec.md:
- `SpecDuration` for `parse_duration`;
- `CommandReference` for `extract_task_info`.

**Bounds.**
- **Words:** eight, so that every branch of every classifier is taken. All
  255 non-empty texts are enumerated.
- **Tests:** counts run from 0 to 2.
- **Durations:** nine arguments. They cover each unit word in both languages,
  two units together, and the two cases the spec does not cover: `days` and a
  bare number.
- **Captured output:** up to 3 lines (`MaxLines`), each one of 17 kinds. That
  is enough for an error line before a success line, and for a fourth detail
  line.
- **User inputs:** lengths {0, 3, 49, 50, 80} on both sides of the 50 cut.
  Intent captures are {0, 3, 20, 49, 50}, on both sides of the 5-40 and 50
  bounds. Key concepts have length 2 or 14.

### Monitor / MCMonitor

**State.**
- `captured` is `_monitor.captured_output`, one line kind per capture.
- `sent` is the history of notifications.
- `exited` records the `atexit` hook.
- `captures` counts `capture_output` calls.

**Actions.**
- `Capture`, `Restart` (`start_claude_monitoring`), `NotifyTask`
  (`notify_claude_task`) and `Flush` (`send_notification()`) are the calls the
  importing program makes.
- `Exit` is `auto_notify_on_exit`.

| Run | Checks | Result |
|---|---|---|
| `monitor` | `TypeOK`, `AnalysisMatchesReference` | pass |
| `monitor_resend` | `OutputReportedOnce` | violation: output already sent by `send_notification()` is sent again by the atexit hook (trace: capture, flush, exit) |

**Bounds.** Three captures and two notifications. That is enough for an error
line followed by a success line, and for a flush followed by the exit.

### ChannelConfig / MCChannelConfig

**State.**
- `chan[i]` is the server's channel `i`: its type and url, or `NONE`.
- `nextId` is the next channel id.
- `default` is the `PushDefaultChannel` option.
- `opts` holds the `PushToken` option and the user's own channel.
- `run` is the multi-step script in progress.
- `report` is what the last script said.

**Naming.** Every lark or custom channel the scripts make is named `feishu`.
`quick_setup`'s email channel is not, so `Feishu` is the set of channels named
feishu. A push to `feishu` goes to the lowest id in that set.

**Actions.** Each script is one action, except the two that write more than
once. `setup_feishu_flow` and `setup_feishu` go step by step and may `Crash`
between steps. The server either applies a request or refuses it (`Faults`).
With `UniqueNames` it refuses a second channel of the same name. With
`PlainReplies` a write may get a 2xx reply that is not JSON, for example the
HTML page a redirected request lands on, whatever the server did with it.
Each script then takes its own branch (`Replies`):
- `Guarded` is the `try`/`except:` of `update_to_mock`, `final_fix`,
  `fix_feishu_template` and `setup_feishu_flow`. Any 2xx without JSON is
  success, judged on the status alone.
- `Unguarded` is the bare `response.json()` of `update_feishu_url`,
  `update_webhook`, `setup_feishu` and `setup_real_feishu`'s POST. The
  JSONDecodeError ends the script, which reports nothing.

Non-JSON replies are modelled on writes only. A list that is not JSON ends
the script before it writes anything.
`QuickSetup`, `QuickFix` and `DemoComplete` (`demo_complete.py`'s login and
`demo_channel_config`) are the scripts that write `opts`.

| Run | Setting | Checks | Result |
|---|---|---|---|
| `channel_config` | unique names, faults, crashes, non-JSON replies | `TypeOK`, `CheckedSuccessHolds` | pass |
| `channel_config_lost` | the same | `FeishuKeptAcrossRun` | violation: `setup_feishu_flow` deletes before it creates |
| `channel_config_claims` | duplicates allowed, no faults | `ReportedSuccessHolds` | violation: success on HTTP 200 alone, and lark lookups that duplicate a custom feishu channel. A separate run with non-JSON replies also shows the `except:` branches reporting a write that was never applied |

**Bounds.** Three channel ids. That allows one hand-made channel, one
recreation and one duplicate.

## 3. Fairness

Fairness is assumed only in `CardDispatch`. There every blocking step is a
POST with a timeout, so a step that is enabled is eventually taken. The other
modules check safety properties only.

## 4. Assumptions about the servers

- The Message Pusher server answers a refused request with HTTP 200 and a
  JSON `success` field of false, so a refusal is not an HTTP error. A write
  may also get a 2xx reply that is not JSON (`PlainReplies`). The repository's
  own message 更新成功 (无JSON响应), "updated, no JSON reply", shows that
  this happens.
- The Feishu webhook may process a message whose answer is lost.

## 5. Not modelled

- **Project detector, demos, tests and launchers.** They only read files or
  call the modelled functions. Their test pushes change no configuration.
- **Text layout.** Markdown, emoji, line order and wording are left out. The
  models keep the fields that control flow and properties depend on.
- **The 800-character cuts.** The cuts in `claude_interaction_hook`'s
  `_generate_result_summary` and in `claude_auto_summarizer`'s
  `_generate_comprehensive_summary` are never reached. Their summaries are
  built from a few pieces, each bounded well below the cap.
- **`claude_notify_smart`'s file-name scores.** `SmartNotify` takes any
  directory, but no property compares the detectors with spec.md 4.1's rule.
  Where no file matches, the scoring is that rule (first maximum in
  declaration order), so a check shows nothing. Where files match, it departs
  from the rule plainly.
- **Further single-POST senders.** `claude_notify_direct`,
  `claude_hook_notify`, `claude_code_hook`, `claude_flow_hook`,
  `claude_interaction_hook`, `claude_auto_summarizer`, `claude_notify_global`,
  `claude_auto_notify` and `claude_monitor` POST once, with the `CodeZero`
  or `StatusAndSuccess` test. `CardDispatch` checks one sender of each test.
  A copy per file would add no behaviour.
- **Command-line argument handling** of `claude_notify`. Its `main` passes
  `argv` through unchanged to the push client, which `PushNotify` models.
- **Test pushes** of `setup_real_feishu.py` (`test_claude_code_notification`,
  `test_multiple_scenarios`) and `fix_feishu_template.py`
  (`test_fixed_notification`). They change no configuration.
  `test_multiple_templates` PUTs the same `feishu` channel again with other
  templates; templates are not modelled, so its writes change nothing the
  model keeps.
- **`setup_claude_global_env.py`.** It sets environment variables through
  `setx` and writes launcher files. Nothing in it is read back by the
  scripts' control flow.
- **`demo_complete.py` after `demo_channel_config`.** The later demos push
  test messages and run `claude_notify.py`. Its one write, the user's
  channel, is `DemoComplete` in `ChannelConfig`.
- **`fix_feishu_format.py`.** It only tries message formats against the
  webhook and reads the channel list; it writes nothing.
