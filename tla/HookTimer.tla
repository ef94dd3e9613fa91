----------------------------- MODULE HookTimer ------------------------------
(***************************************************************************)
(* The task timer of src/claude_code_hook.py: the one module-level         *)
(* ClaudeCodeHook instance _hook and its start_time, shared by every       *)
(* caller in the process.                                                  *)
(*   start_task()              _hook.start_time = time.time()              *)
(*   notify_task_completion()  duration_sec = _hook.get_duration_seconds() *)
(*                              = int(time.time() - start_time), or 0 when  *)
(*                              start_time is still None                    *)
(*   @claude_hook wrapper      start_task(); func(); notify_task_completion *)
(*                                                                         *)
(* Timed callers are decorated calls (or a caller doing start_task() then  *)
(* notify_task_completion() itself).  start_task() and a notification are *)
(* each one step (the clock read and the store or subtraction together).  *)
(* The steps of two timed calls may come in any order: nested decorated   *)
(* calls are the orders in which the inner call's steps fall between the  *)
(* outer's (spec.md section 5: one thread), and the passing properties    *)
(* hold for every order.                                                   *)
(* Untimed callers call notify_task_completion (or notify_bash_completion, *)
(* notify_file_operation) without a start_task of their own.               *)
(*                                                                         *)
(* Time is a discrete clock counting Grain ticks per second, so that       *)
(* int() of a difference of two instants is modelled by what it does.      *)
(***************************************************************************)
EXTENDS Naturals

CONSTANTS
  Statuses,  \* status strings callers pass (TaskStatus is only a hint)
  Lengths,   \* lengths of caller-supplied texts (results, commands, ...)
  Timed,     \* callers that run start_task() before notifying
  FlowTimed, \* the timed callers that may be claude_flow_hook scripts
  Untimed,   \* callers that only notify
  Grain,     \* clock ticks per second
  MaxTime,   \* bound on the clock
  NONE       \* start_time is None; a history field not yet set

ASSUME Timed \cap Untimed = {} /\ FlowTimed \subseteq Timed /\ Grain \in Nat \ {0} /\ MaxTime \in Nat
ASSUME NONE \notin Nat
ASSUME Lengths \subseteq Nat

\* The keyword lists of detect_task_type, each standing for any of its
\* words ("bash", "shell", "mingling", ...; "write", "chuangjian", ...;
\* "edit", "bianji", "xiugai", ...) found in the lowered name and result.
KeywordClasses == {"bashKw", "writeKw", "editKw"}
TaskTypes == {"Bash", "Write", "Edit", "Custom"}

\* ClaudeCodeHook.detect_task_type: the first list, in this order, that has
\* a word in the text.
DetectTaskType(words) ==
  CASE "bashKw" \in words -> "Bash"
    [] "writeKw" \in words -> "Write"
    [] "editKw" \in words -> "Edit"
    [] OTHER -> "Custom"

Cap == 900

\* ClaudeCodeHook.truncate_text(text, 900) on a text of length n:
\* text[:897] + "..." when it is longer than the cap.
TruncateText(n) == IF n <= Cap THEN n ELSE Cap - 3 + 3

\* build_result_summary with an empty result: "zhixing shijian: " and a
\* 19-character time (25), " | xiangmu: " and the cwd's name (7 + dirLen),
\* and " | files_processed: v" for a truthy keyword argument of length
\* kwLen (0 for none); the cwd is always readable.
DirLen == 12
SummaryLength(kwLen) ==
  25 + 7 + DirLen + (IF kwLen = 0 THEN 0 ELSE 3 + 15 + 2 + kwLen)

\* The result texts the convenience functions build, by length.
\* notify_bash_completion: "mingling: cmd", " | tuichuma: N", " | shuchu:
\* " and output[:200].
BashResultLength(cmdLen, exitCode, outLen) ==
  4 + cmdLen + (IF exitCode # 0 THEN 8 + 1 ELSE 0)
  + (IF outLen > 0 THEN 7 + (IF outLen < 200 THEN outLen ELSE 200) ELSE 0)

\* notify_file_operation: "wenjian: basename" and " | details".
BaseLen == 8
FileResultLength(detailsLen) ==
  4 + BaseLen + (IF detailsLen > 0 THEN 3 + detailsLen ELSE 0)

(***************************************************************************)
(* src/claude_flow_hook.py keeps a second module-level instance,          *)
(* _flow_hook, with a start_time of its own that only start_claude_task() *)
(* sets and nothing clears: every later notification of the process,     *)
(* timed or not, reports the seconds since the latest start.  Its         *)
(* send_hook_notification cuts the                                        *)
(* result inline, detects the type from the task name alone, and its      *)
(* helpers build the result texts below (output cut at 300).              *)
(***************************************************************************)
FlowTruncate(n) == IF n > 900 THEN 897 + 3 ELSE n

\* An empty result becomes "Claude Code renwuyu <time> zai xiangmu <dir>
\* zhong zhixing wancheng" (46 characters and the cwd's name).
FlowDefaultLength == 46 + DirLen

\* notify_bash_task: "mingling: cmd", " | tuichuma: N", " | shuchu: " and
\* output[:300].
FlowBashLength(cmdLen, exitCode, outLen) ==
  4 + cmdLen + (IF exitCode # 0 THEN 8 + 1 ELSE 0)
  + (IF outLen > 0 THEN 7 + (IF outLen < 300 THEN outLen ELSE 300) ELSE 0)

\* notify_write_task: "wenjian: name" and " | details"; notify_edit_task:
\* the same with " | xiugai: changes".
FlowFileLength(op, dLen) ==
  4 + BaseLen + (IF dLen = 0 THEN 0 ELSE IF op = "write" THEN 3 + dLen ELSE 7 + dLen)

Tasks == Timed \cup Untimed

VARIABLES
  now,         \* time.time(), in ticks; never 0
  start_time,  \* _hook.start_time
  flow_start,  \* _flow_hook.start_time
  pc,          \* pc[t]: "idle", "running" (func executing, timed by
               \* _hook), "flowRunning" (timed by _flow_hook), "done"
  began,       \* history: the instant t's own start_task() ran
  ended,       \* history: the instant t's notification read the clock
  reported,    \* history: the duration_sec t's payload carried
  payload      \* the content of the latest POST: status, task_type, the
               \* result's length and whether it was cut

vars == <<now, start_time, flow_start, pc, began, ended, reported, payload>>

Init ==
  /\ now = 1
  /\ start_time = NONE
  /\ flow_start = NONE
  /\ pc = [t \in Tasks |-> "idle"]
  /\ began = [t \in Tasks |-> NONE]
  /\ ended = [t \in Tasks |-> NONE]
  /\ reported = [t \in Tasks |-> NONE]
  /\ payload = NONE

\* Whole seconds between two instants, truncated as int() truncates.
Seconds(from, to) == (to - from) \div Grain

\* Variant: get_duration_seconds that clears start_time before reading it.
GetDurationSecondsReset == 0

\* Variant: the difference taken the wrong way round.
GetDurationSecondsSwapped ==
  IF start_time # NONE THEN Seconds(now, start_time) ELSE 0

\* ClaudeCodeHook.get_duration_seconds: `if self.start_time:` is true for
\* every time.time() value, so only None gives 0.
GetDurationSeconds ==
  IF start_time # NONE THEN Seconds(start_time, now) ELSE 0

\* ClaudeFlowHook.get_duration_seconds, the same test on _flow_hook.
FlowDurationSeconds ==
  IF flow_start # NONE THEN Seconds(flow_start, now) ELSE 0

Tick ==
  /\ now < MaxTime
  /\ now' = now + 1
  /\ UNCHANGED <<start_time, flow_start, pc, began, ended, reported, payload>>

\* Variant: start_task that keeps an existing start (`if not self.start_time`).
StartTaskOnce(t) ==
  /\ t \in Timed
  /\ pc[t] = "idle"
  /\ start_time' = IF start_time = NONE THEN now ELSE start_time
  /\ pc' = [pc EXCEPT ![t] = "running"]
  /\ began' = [began EXCEPT ![t] = now]
  /\ UNCHANGED <<now, flow_start, ended, reported, payload>>

\* wrapper: start_task(), which overwrites the shared start_time.
StartTask(t) ==
  /\ t \in Timed
  /\ pc[t] = "idle"
  /\ start_time' = now
  /\ pc' = [pc EXCEPT ![t] = "running"]
  /\ began' = [began EXCEPT ![t] = now]
  /\ UNCHANGED <<now, flow_start, ended, reported, payload>>

\* start_claude_task(): _flow_hook.start_task() overwrites its start_time.
StartClaudeTask(t) ==
  /\ t \in FlowTimed
  /\ pc[t] = "idle"
  /\ flow_start' = now
  /\ pc' = [pc EXCEPT ![t] = "flowRunning"]
  /\ began' = [began EXCEPT ![t] = now]
  /\ UNCHANGED <<now, start_time, ended, reported, payload>>

\* send_notification: task_type detected from name and result when the
\* caller gave none; duration_sec from get_duration_seconds; the result
\* (already built, of length n) cut to the cap.  duration_sec is recorded
\* in `reported` by Notify.  The POST's outcome does
\* not touch the timer.
SendNotification(status, words, type, n) ==
  payload' = [status |-> status,
              type |-> IF type = NONE THEN DetectTaskType(words) ELSE type,
              len |-> TruncateText(n), cut |-> n > Cap]

\* The keyword classes present in name and result; they are read only when
\* no task_type was given.
Words(type) == IF type = NONE THEN SUBSET KeywordClasses ELSE {{}}

\* claude_hook's wrapper after func: "success" and "hanshu zhixing
\* chenggong, fanhui: " + str(result)[:100], or "failed" and "hanshu
\* zhixing shibai: " + str(e); the decorator's task_type or None.
Wrapper ==
  \E type \in TaskTypes \cup {NONE}, m \in Lengths :
  \E words \in Words(type) :
    \/ SendNotification("success", words, type, 11 + (IF m < 100 THEN m ELSE 100))
    \/ SendNotification("failed", words, type, 8 + m)

\* notify_task_completion(name, status, result, task_type, **kwargs): an
\* empty result is replaced by the built summary.
NotifyTaskCompletion ==
  \E st \in Statuses, type \in TaskTypes \cup {NONE}, m \in Lengths, kw \in Lengths :
  \E words \in Words(type) :
    SendNotification(st, words, type, IF m > 0 THEN m ELSE SummaryLength(kw))

\* notify_bash_completion: "failed" whenever the exit code is not 0.
NotifyBashCompletion ==
  \E st \in Statuses, exitCode \in {0, 1}, cmd \in Lengths \ {0}, out \in Lengths :
    SendNotification(IF exitCode # 0 THEN "failed" ELSE st, {"bashKw"}, "Bash",
                     BashResultLength(cmd, exitCode, out))

\* notify_file_operation: Write for create and write, Edit for any other.
NotifyFileOperation ==
  \E st \in Statuses, op \in {"create", "delete"}, d \in Lengths :
    SendNotification(st, {}, IF op = "create" THEN "Write" ELSE "Edit", FileResultLength(d))

\* ClaudeFlowHook.send_hook_notification, the POST's outcome aside.
FlowSend(status, words, type, n) ==
  payload' = [status |-> status,
              type |-> IF type = NONE THEN DetectTaskType(words) ELSE type,
              len |-> FlowTruncate(n), cut |-> n > 900]

\* notify_claude_completion: the caller's status, result and task_type.
FlowNotifyCompletion ==
  \E st \in Statuses, type \in TaskTypes \cup {NONE}, m \in Lengths :
  \E words \in Words(type) :
    FlowSend(st, words, type, IF m > 0 THEN m ELSE FlowDefaultLength)

\* notify_bash_task: "failed" whenever the exit code is not 0.
FlowNotifyBash ==
  \E st \in Statuses, exitCode \in {0, 1}, cmd \in Lengths \ {0}, out \in Lengths :
    FlowSend(IF exitCode # 0 THEN "failed" ELSE st, {"bashKw"}, "Bash",
             FlowBashLength(cmd, exitCode, out))

\* notify_write_task and notify_edit_task.
FlowNotifyFile ==
  \E st \in Statuses, op \in {"write", "edit"}, d \in Lengths :
    FlowSend(st, {}, IF op = "write" THEN "Write" ELSE "Edit", FlowFileLength(op, d))

\* A caller of claude_flow_hook's notify functions, after its own
\* start_claude_task() or without one: send_hook_notification's
\* duration_sec is None, so it is _flow_hook's get_duration_seconds().
FlowNotify(t) ==
  /\ \/ t \in FlowTimed /\ pc[t] = "flowRunning"
     \/ t \in Untimed /\ pc[t] = "idle"
  /\ FlowNotifyCompletion \/ FlowNotifyBash \/ FlowNotifyFile
  /\ pc' = [pc EXCEPT ![t] = "done"]
  /\ ended' = [ended EXCEPT ![t] = now]
  /\ reported' = [reported EXCEPT ![t] = FlowDurationSeconds]
  /\ UNCHANGED <<now, start_time, flow_start, began>>

(***************************************************************************)
(* func returned or raised; either branch calls notify_task_completion      *)
(* (Wrapper).  An untimed caller is one of the convenience functions.      *)
(* start_time is left as it is.                                            *)
(***************************************************************************)
Notify(t) ==
  /\ \/ t \in Timed /\ pc[t] = "running" /\ Wrapper
     \/ t \in Untimed /\ pc[t] = "idle"
        /\ (NotifyTaskCompletion \/ NotifyBashCompletion \/ NotifyFileOperation)
  /\ pc' = [pc EXCEPT ![t] = "done"]
  /\ ended' = [ended EXCEPT ![t] = now]
  /\ reported' = [reported EXCEPT ![t] = GetDurationSeconds]
  /\ UNCHANGED <<now, start_time, flow_start, began>>

Next ==
  \/ Tick
  \/ \E t \in Tasks : StartTask(t) \/ StartClaudeTask(t) \/ Notify(t) \/ FlowNotify(t)

Spec == Init /\ [][Next]_vars

-----------------------------------------------------------------------------
(***************************************************************************)
(* Properties                                                              *)
(***************************************************************************)

TypeOK ==
  /\ now \in 1..MaxTime
  /\ start_time \in 1..MaxTime \cup {NONE}
  /\ flow_start \in 1..MaxTime \cup {NONE}
  /\ pc \in [Tasks -> {"idle", "running", "flowRunning", "done"}]
  /\ began \in [Tasks -> 1..MaxTime \cup {NONE}]
  /\ ended \in [Tasks -> 1..MaxTime \cup {NONE}]
  /\ reported \in [Tasks -> Nat \cup {NONE}]
  /\ payload = NONE \/
       payload \in [status : Statuses \cup {"success", "failed"}, type : TaskTypes,
                   len : Nat, cut : BOOLEAN]

\* The seconds timed task t really took, from its own start to its notify.
OwnElapsed(t) == Seconds(began[t], ended[t])

\* Another timed task's start_task() ran while t was between its own
\* start_task() and its notification (at the same instant counts too).
Overlapped(t) ==
  \E u \in Timed \ {t} :
    /\ began[u] # NONE
    /\ began[t] <= began[u]
    /\ began[u] <= ended[t]

(* A decorated call never reports more time than it took: whatever other   *)
(* callers' start_task() did to the shared _hook.start_time between its    *)
(* own start_task() and its notify_task_completion(), the start it reads   *)
(* is no earlier than its own.                                             *)
DurationNeverOverstated ==
  \A t \in Timed : pc[t] = "done" => reported[t] <= OwnElapsed(t)

(* A decorated call that no other timed call overlapped reports exactly    *)
(* int() of its own elapsed time: its start_task() value survives until    *)
(* its notify_task_completion() reads it.                                  *)
SoleTaskExact ==
  \A t \in Timed :
    pc[t] = "done" /\ ~Overlapped(t) => reported[t] = OwnElapsed(t)

\* spec.md section 3: duration_sec is the duration of the notified unit of
\* work, zero when unknown.  A timed call reports its own elapsed time and
\* a call that never started a timer reports 0.
DurationIsOwnElapsed ==
  \A t \in Tasks :
    pc[t] = "done" =>
      reported[t] = IF t \in Timed THEN OwnElapsed(t) ELSE 0

\* spec.md sections 3 and 4.4: the structured payload's status is one of
\* the closed enum.
StatusInEnum == payload # NONE => payload.status \in {"success", "failed", "running"}

(* spec.md section 3: every structured-hook payload of claude_code_hook    *)
(* and claude_flow_hook is a TaskSignal.  Its status is one of the closed  *)
(* enum, though send_notification and send_hook_notification put the      *)
(* caller's status in as given; and its duration_sec is the notified       *)
(* work's own, though both module timers are shared by every caller and   *)
(* never cleared, so a nested or concurrent start, or an earlier caller's *)
(* start, decides what a notification reports.                           *)
IsTaskSignal == StatusInEnum /\ DurationIsOwnElapsed

=============================================================================
