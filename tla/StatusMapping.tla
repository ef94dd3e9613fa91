--------------------------- MODULE StatusMapping ----------------------------
(***************************************************************************)
(* The status classifiers: how each entry point turns a status text into  *)
(* the verdict its notification shows.                                    *)
(*   GetStatusInfo       get_status_info, claude_notify_enhanced.py (same *)
(*                       in claude_notify_smart.py, claude_code_notifier) *)
(*   GetStatusPrefix     get_status_prefix, claude_notify_global.py        *)
(*   MapStatusToStandard map_status_to_standard, claude_hook_notify.py     *)
(*   DetermineStatus     ClaudeInteractionAnalyzer._determine_status       *)
(*   PushIcon            title icon of claude_notify.notify_claude_completion *)
(*   CardIcon            colour of claude_notify_direct's card             *)
(*                                                                         *)
(* A text is the set of its words (Atoms).  `kw in text` holds when kw is  *)
(* one of its words or a substring of one (Embeds: <<kw, word>>); .lower() *)
(* maps each word through Lower.  Each action is one entry point feeding a *)
(* text to its classifier; `last` is the notification it produced.         *)
(*                                                                         *)
(* SANY strings are ASCII, so the Chinese keywords are spelled in pinyin:  *)
(* wancheng, chenggong, shibai, cuowu, jinxing, yunxing, zhixing, jinggao  *)
(* are the success, failure, running and warning words of the mappers;     *)
(* ge_shibai is the "N ge shibai" (N failed) of notify_test_execution;     *)
(* the indicator lists of _determine_status keep their order, each word    *)
(* in pinyin (cross_mark and check_mark are the two emoji).                *)
(***************************************************************************)
EXTENDS Naturals, FiniteSets, Sequences, FiniteSetsExt

CONSTANTS
  Atoms,     \* words a status text may contain
  Embeds,    \* <<kw, w>>: keyword kw is a proper substring of word w
  Lower,     \* Lower[w]: w.lower(), for every word of Atoms and PendingOutput
  MaxTests,  \* bound on tests_run / tests_passed
  MaxLines,  \* bound on the lines of a captured command output
  Durations, \* duration arguments the hook CLI is called with
  TaskStatuses, \* status arguments of the two fine-grained notifiers
  NONE

\* The output analyze_and_notify substitutes for an empty one,
\* "Claude zhengzai chuli ..." (Claude is processing your request).
PendingOutput == {"Claude", "zhengzai"}

ASSUME Lower \in [Atoms \cup PendingOutput -> STRING] /\ MaxTests \in Nat

Texts == SUBSET Atoms \ {{}}

\* kw occurs in word w; in the text; in text.lower().
Occurs(kw, w) == kw = w \/ <<kw, w>> \in Embeds
In(kw, text) == \E w \in text : Occurs(kw, w)
InLower(kw, text) == \E w \in text : Occurs(kw, Lower[w])
AnyIn(kws, text) == \E kw \in kws : In(kw, text)
AnyInLower(kws, text) == \E kw \in kws : InLower(kw, text)

(***************************************************************************)
(* get_status_info (claude_notify_enhanced.py 41-53): success words first. *)
(***************************************************************************)
GetStatusInfo(s) ==
  CASE AnyIn({"wancheng", "chenggong"}, s) \/ InLower("success", s) -> "green"
    [] AnyIn({"shibai", "cuowu"}, s) \/ AnyInLower({"error", "fail"}, s) -> "red"
    [] AnyIn({"jinxing", "yunxing", "zhixing"}, s) \/ InLower("running", s) -> "blue"
    [] In("jinggao", s) \/ InLower("warning", s) -> "orange"
    [] OTHER -> "blue"

\* get_status_prefix (claude_notify_global.py 18-28).
GetStatusPrefix(s) ==
  CASE AnyIn({"wancheng", "chenggong"}, s) \/ InLower("success", s) -> "[OK]"
    [] AnyIn({"shibai", "cuowu"}, s) \/ AnyInLower({"error", "fail"}, s) -> "[FAIL]"
    [] In("jinggao", s) \/ InLower("warning", s) -> "[WARN]"
    [] OTHER -> "[INFO]"

\* Variant: an unmatched status mapped to "unknown" instead of success.
MapStatusToStandardUnknown(s) ==
  CASE AnyIn({"wancheng", "chenggong"}, s) \/ AnyInLower({"success", "ok"}, s) -> "success"
    [] AnyIn({"shibai", "cuowu"}, s) \/ AnyInLower({"error", "fail"}, s) -> "failed"
    [] AnyIn({"yunxing", "jinxing"}, s) \/ AnyInLower({"running", "executing"}, s) -> "running"
    [] OTHER -> "unknown"

\* map_status_to_standard (claude_hook_notify.py 16-26): "ok" is a success
\* word, and anything unmatched is success.
MapStatusToStandard(s) ==
  CASE AnyIn({"wancheng", "chenggong"}, s) \/ AnyInLower({"success", "ok"}, s) -> "success"
    [] AnyIn({"shibai", "cuowu"}, s) \/ AnyInLower({"error", "fail"}, s) -> "failed"
    [] AnyIn({"yunxing", "jinxing"}, s) \/ AnyInLower({"running", "executing"}, s) -> "running"
    [] OTHER -> "success"

\* _determine_status's three indicator lists (claude_interaction_hook.py).
FailureIndicators == {"shibai", "cuowu", "wufa", "buneng", "yichang", "wenti",
                      "failed", "error", "exception", "cannot", "unable",
                      "cross_mark", "chucuo", "shixiao"}
RunningIndicators == {"zhengzai", "kaishi", "zhixingzhong", "chulizhong",
                      "yunxingzhong",
                      "running", "executing", "processing", "starting"}
SuccessIndicators == {"chenggong", "wancheng", "yichuangjian", "yishengcheng",
                      "yixiugai", "yigengxin", "yipeizhi",
                      "success", "complete", "finished", "created", "generated",
                      "updated", "configured", "check_mark", "wanmei", "haode", "yijing"}

\* _determine_status (82-122): failure, then running, then success, on
\* claude_output.lower(); default success.
DetermineStatus(s) ==
  CASE AnyInLower(FailureIndicators, s) -> "failed"
    [] AnyInLower(RunningIndicators, s) -> "running"
    [] AnyInLower(SuccessIndicators, s) -> "success"
    [] OTHER -> "success"

\* Title icon in claude_notify.py send_claude_notification (68-76).
PushIcon(s) ==
  CASE AnyIn({"shibai", "cuowu"}, s) -> "[FAIL]"
    [] AnyIn({"wancheng", "chenggong"}, s) -> "[OK]"
    [] In("jinxing", s) -> "[RUNNING]"
    [] OTHER -> "[CLAUDE]"

\* Variant: the card's failure test without "cuowu".
CardIconFailOnly(s) ==
  CASE In("shibai", s) -> "red"
    [] AnyIn({"wancheng", "chenggong"}, s) -> "green"
    [] OTHER -> "blue"

\* Card colour in claude_notify_direct.send_feishu_card_notification (58-75);
\* its "jinxing" branch and its else branch are both blue.
CardIcon(s) ==
  CASE AnyIn({"shibai", "cuowu"}, s) -> "red"
    [] AnyIn({"wancheng", "chenggong"}, s) -> "green"
    [] OTHER -> "blue"

\* notify_test_execution (claude_notify_enhanced.py 199-210): the status is
\* "wancheng" or "wancheng(N ge_shibai)", whose words are wancheng and
\* ge_shibai.
TestStatus(run, passed) ==
  IF run - passed = 0 THEN {"wancheng"} ELSE {"wancheng", "ge_shibai"}

(***************************************************************************)
(* parse_duration (claude_hook_notify.py 48-73).  A duration string is its *)
(* first number, in tenths (NONE when it has none, or is empty), and the  *)
(* unit words in it.  Each word is known by the substrings the parser     *)
(* tests that it contains: fenzhong (fen zhong, minutes) holds "fen",     *)
(* xiaoshi (xiao shi, hours) holds "shi", miao (seconds) holds "miao";     *)
(* "minutes", "hours" and "seconds" hold their own keys and "s", and      *)
(* "days" holds only "s".                                                  *)
(***************************************************************************)
UnitKeys ==
  [fenzhong |-> {"fen"}, minutes |-> {"min", "s"}, xiaoshi |-> {"shi"},
   hours |-> {"hour", "s"}, hr |-> {"hr"}, miao |-> {"miao"},
   seconds |-> {"sec", "s"}, days |-> {"s"}]
UnitWords == DOMAIN UnitKeys
DurationStrings == [num : {NONE, 5, 10, 15, 20, 50, 450}, units : SUBSET UnitWords]

Has(d, key) == \E u \in d.units : key \in UnitKeys[u]

\* Variant: the seconds test first, which "minutes" and "hours" pass too.
ParseDurationSecondsFirst(d) ==
  IF d.num = NONE THEN 0
  ELSE CASE Has(d, "miao") \/ Has(d, "sec") \/ Has(d, "s") -> d.num \div 10
         [] Has(d, "fen") \/ Has(d, "min") -> (d.num * 60) \div 10
         [] Has(d, "shi") \/ Has(d, "hour") \/ Has(d, "hr") -> (d.num * 3600) \div 10
         [] OTHER -> d.num \div 10

\* Minutes, then hours, then seconds; no unit is taken as seconds; int()
\* truncates value * factor.
ParseDuration(d) ==
  IF d.num = NONE THEN 0
  ELSE CASE Has(d, "fen") \/ Has(d, "min") -> (d.num * 60) \div 10
         [] Has(d, "shi") \/ Has(d, "hour") \/ Has(d, "hr") -> (d.num * 3600) \div 10
         [] Has(d, "miao") \/ Has(d, "sec") \/ Has(d, "s") -> d.num \div 10
         [] OTHER -> d.num \div 10

\* detect_claude_task_type on the task name: the first of the Bash, Write
\* and Edit keyword lists (mingling, zhixing, bash, shell, ...; xieru,
\* write, create, ...; bianji, edit, modify, ...) with a word in it.
NameKeywords == {"bashKw", "writeKw", "editKw"}
DetectClaudeTaskType(words) ==
  CASE "bashKw" \in words -> "Bash"
    [] "writeKw" \in words -> "Write"
    [] "editKw" \in words -> "Edit"
    [] OTHER -> "Custom"

(***************************************************************************)
(* The fine-grained task type: TASK_DETECTION_RULES of                     *)
(* claude_notify_smart.py and TASK_TYPES of claude_code_notifier.py, the  *)
(* same sixteen types with the same keyword lists in the same order.  A   *)
(* description is the set of its words; a word is known by the keywords   *)
(* of the lists it holds (Holds[w]), each keyword in pinyin: fenxi (analyse,*)
(* in daimaFenxi and shujuChuli), shuju and shujuku (data, database),      *)
(* youhua (optimise, in daimaChonggou and xingnengYouhua), ai (the "AI" of *)
(* aiXunlian, which "failed" holds), deploy, test.  The keywords no word   *)
(* of the model holds are left out of the lists.                          *)
(***************************************************************************)
TypeOrder ==
  <<"daimaFenxi", "daimaShengcheng", "daimaChonggou", "bugXiufu", "ceshi", "bushu",
    "wendang", "shujuChuli", "wenjianCaozuo", "wangluo", "shujuku", "aiXunlian",
    "jiaoben", "xitongPeizhi", "anquan", "xingnengYouhua">>
Other == "qita"
TaskKeywords ==
  [t \in {TypeOrder[i] : i \in 1..16} |->
     CASE t = "daimaFenxi"     -> {"fenxi"}
       [] t = "daimaChonggou"  -> {"youhua"}
       [] t = "ceshi"          -> {"test"}
       [] t = "bushu"          -> {"deploy"}
       [] t = "shujuChuli"     -> {"shuju", "fenxi"}
       [] t = "shujuku"        -> {"shujuku"}
       [] t = "aiXunlian"      -> {"ai"}
       [] t = "xingnengYouhua" -> {"youhua"}
       [] OTHER                -> {}]
Holds == [fenxi |-> {"fenxi"}, shujuku |-> {"shuju", "shujuku"}, failed |-> {"ai"},
          deploy |-> {"deploy"}, youhua |-> {"youhua"}, test |-> {"test"}]
Descriptions == SUBSET DOMAIN Holds

\* The keywords of type t found in description.lower(), each counted once.
KeywordHits(t, desc) == Cardinality({k \in TaskKeywords[t] : \E w \in desc : k \in Holds[w]})

\* claude_notify_smart's file_patterns, for the patterns the model's file
\* names hold: ".py" (the three code types), "test_" (ceshi).
FilePatterns ==
  [t \in DOMAIN TaskKeywords |->
     IF t \in {"daimaFenxi", "daimaShengcheng", "daimaChonggou"} THEN {".py"}
     ELSE IF t = "ceshi" THEN {"test_"} ELSE {}]
FileHolds == [f \in {"a.py", "test_a.py"} |-> IF f = "a.py" THEN {".py"} ELSE {".py", "test_"}]
Directories == SUBSET DOMAIN FileHolds

\* max(scores.items(), key=...)[0] over the types whose score is positive,
\* in declaration order: the first type whose score no other one exceeds;
\* "qita" (other) when none scored.
BestType(score) ==
  LET pos == {i \in 1..16 : score[TypeOrder[i]] > 0}
  IN  IF pos = {} THEN Other
      ELSE TypeOrder[CHOOSE i \in pos : \A j \in pos :
                       score[TypeOrder[j]] < score[TypeOrder[i]] \/
                       (score[TypeOrder[j]] = score[TypeOrder[i]] /\ i <= j)]

\* claude_notify_smart.detect_task_type(description, os.getcwd()): 2 per
\* keyword found, plus 1 per pattern of the type in each file name of the
\* directory's first level.
SmartScore(t, desc, dir) ==
  2 * KeywordHits(t, desc) +
  MapThenSumSet(LAMBDA f : Cardinality(FilePatterns[t] \cap FileHolds[f]), dir)
SmartTaskType(desc, dir) == BestType([t \in DOMAIN TaskKeywords |-> SmartScore(t, desc, dir)])

\* claude_code_notifier.detect_task_type(description): 1 per keyword found.
NotifierTaskType(desc) == BestType([t \in DOMAIN TaskKeywords |-> KeywordHits(t, desc)])

\* claude_notify_global.detect_task_type: the first of six shorter lists,
\* in declaration order, with a keyword in the text (no score); "qitaRenwu"
\* (other task) when none has.  Restricted to the model's keywords, each of
\* its lists is the one of TaskKeywords for the same type.
GlobalOrder == <<"daimaFenxi", "daimaShengcheng", "daimaChonggou", "bugXiufu", "ceshi", "bushu">>
GlobalTaskType(desc) ==
  LET hit == {i \in 1..6 : KeywordHits(GlobalOrder[i], desc) > 0}
  IN  IF hit = {} THEN "qitaRenwu" ELSE GlobalOrder[Min(hit)]

(***************************************************************************)
(* ClaudeOutputCapture.extract_task_info (claude_auto_notify.py): a line  *)
(* of the command's output is known by the keywords it holds (a success   *)
(* word of 完成/success/done/finished, an error word of error/failed/      *)
(* 错误/失败, both, or none) and its stripped length: blank, tiny (1-10),   *)
(* mid (11-99), long (100-199) or huge (200 and more).                    *)
(***************************************************************************)
LineKinds == [m : {"succ", "err", "both", "none"}, len : {"tiny", "mid", "long", "huge"}]
          \cup {[m |-> "none", len |-> "blank"]}
OutputLines == UNION {[1..n -> LineKinds] : n \in 0..MaxLines}

NameLength == {"tiny", "mid"}     \* len(line) < 100
DetailLength == {"mid", "long"}   \* 10 < len(line) < 200

\* One line of the loop: a success word (tested first) sets 成功完成, else an
\* error word sets 失败; a matching line under 100 characters becomes the
\* task name (its index); a line of detail length is collected.
LineStepErrorFirst(acc, i, k) ==
  LET named(st) == [acc EXCEPT !.status = st,
                               !.name = IF k.len \in NameLength THEN i ELSE @]
      acc1 == CASE k.m \in {"err", "both"} -> named("shibai")
                [] k.m = "succ"             -> named("chenggong_wancheng")
                [] OTHER                    -> acc
  IN  IF k.len \in DetailLength THEN [acc1 EXCEPT !.details = Append(@, i)] ELSE acc1
LineStep(acc, i, k) ==
  LET named(st) == [acc EXCEPT !.status = st,
                               !.name = IF k.len \in NameLength THEN i ELSE @]
      acc1 == CASE k.m \in {"succ", "both"} -> named("chenggong_wancheng")
                [] k.m = "err"               -> named("shibai")
                [] OTHER                     -> acc
  IN  IF k.len \in DetailLength THEN [acc1 EXCEPT !.details = Append(@, i)] ELSE acc1

RECURSIVE ExtractLoop(_, _, _)
ExtractLoop(lines, i, acc) ==
  IF i > Len(lines) THEN acc
  ELSE ExtractLoop(lines, i + 1,
                   IF lines[i].len = "blank" THEN acc ELSE LineStep(acc, i, lines[i]))

\* Name 0 is the default "Claude Code renwu"; with no name found the first
\* detail line becomes the name; at most three detail lines are kept.
ExtractTaskInfo(lines) ==
  LET r == ExtractLoop(lines, 1, [status |-> "wancheng", name |-> 0, details |-> <<>>])
      s == IF r.name = 0 /\ r.details # <<>>
             THEN [r EXCEPT !.name = Head(r.details), !.details = Tail(@)] ELSE r
  IN  [s EXCEPT !.details = SubSeq(@, 1, Min({3, Len(@)}))]

(***************************************************************************)
(* ClaudeInteractionAnalyzer._extract_task_name (claude_interaction_hook.py)*)
(* on the user's input, known by its length, whether it is only blanks,   *)
(* the stripped capture of the first intent pattern (帮我 / 请 / 我想 /     *)
(* 需要 / 能否 / 可以 ... up to ， 。 or the end) that matches, NONE when    *)
(* none does, and the stripped text after the first action verb (分析,     *)
(* 创建, ... two characters each), NONE when it holds no verb.  The name   *)
(* is known by its length.  ConversationSummarizer (claude_auto_summarizer *)
(* .py) also reads the length of the first key concept it holds (飞书 2,  *)
(* "message pusher" 14, ...), NONE when it holds none.                    *)
(***************************************************************************)
UserInputs ==
  {i \in [len : {0, 3, 49, 50, 80}, blank : BOOLEAN, cap : {NONE, 0, 3, 20, 49, 50},
          obj : {NONE, 0, 40}, concept : {NONE, 2, 14}] :
     /\ i.blank => i.len > 0 /\ i.cap = NONE /\ i.obj = NONE /\ i.concept = NONE
     /\ i.len = 0 => i.cap = NONE /\ i.obj = NONE /\ i.concept = NONE
     /\ i.concept # NONE => i.concept <= i.len
     /\ i.cap # NONE => i.cap + 1 <= i.len
     /\ i.obj # NONE => i.obj + 2 <= i.len}

\* The last fallback: user_input.strip() under 50 characters, else its first
\* 47 and "...".  Variant: the first 48 kept.
ShortenOffByOne(i) == IF i.len < 50 THEN (IF i.blank THEN 0 ELSE i.len) ELSE 48 + 3
Shorten(i) == IF i.len < 50 THEN (IF i.blank THEN 0 ELSE i.len) ELSE 47 + 3

\* A capture of 1 to 49 characters is the name; else the verb and at most
\* 30 characters after it (the verb alone when nothing follows); else the
\* shortened input.
ExtractTaskName(i) ==
  CASE i.cap # NONE /\ i.cap > 0 /\ i.cap < 50 -> i.cap
    [] i.obj # NONE                           -> 2 + Min({30, i.obj})
    [] OTHER                                  -> Shorten(i)

\* _detect_task_type on user_input + " " + claude_output, lower-cased: the
\* Bash list (bash, command, mingling, zhixing, yunxing, ...), then Write,
\* then Edit; the user input's keyword class, or the output's words.
InteractionType(kw, out) ==
  CASE kw = "bashKw" \/ AnyInLower({"zhixing", "yunxing"}, out) -> "Bash"
    [] kw = "writeKw" -> "Write"
    [] kw = "editKw"  -> "Edit"
    [] OTHER          -> "Custom"

(***************************************************************************)
(* claude_monitor's analyze_output, as the Monitor module states it: a    *)
(* program that imports claude_monitor, captures some lines and exits has *)
(* auto_notify_on_exit send their analysis.                               *)
(***************************************************************************)
Mon == INSTANCE Monitor WITH MaxCaptures <- MaxLines, MaxSent <- 1, Statuses <- {},
                             captured <- <<>>, sent <- <<>>, exited <- FALSE, captures <- 0


(***************************************************************************)
(* ConversationSummarizer of claude_auto_summarizer.py, one interaction.  *)
(***************************************************************************)
\* _extract_primary_task: an intent pattern whose capture, 5 to 40
\* characters up to a terminator, is longer than 5 once stripped gives
\* "<category>: <capture>"; else the first key concept gives
\* "<concept>xiangguan renwu"; else the input, shortened as
\* _extract_task_name shortens it (the same four lines).
ExtractPrimaryTask(i) ==
  CASE i.cap # NONE /\ 6 <= i.cap /\ i.cap <= 40 -> 2 + 2 + i.cap
    [] i.concept # NONE                         -> i.concept + 4
    [] OTHER                                    -> Shorten(i)

\* _analyze_execution_status: failure, then running, then the strong and
\* the moderate success words (yunxingzhong among them), default success.
SummaryFailure == {"shibai", "cuowu", "yichang", "wufa", "buneng", "wenti"}
SummaryRunning == {"zhengzai", "kaishi", "chulizhong", "zhixingzhong"}
SummarySuccess == {"wanmei", "chenggong", "taihaole", "wancheng", "yijingpeizhihao",
                   "gongzuozhengchang", "haode", "yichuangjian", "yixiufu",
                   "yigengxin", "yunxingzhong"}
AnalyzeExecutionStatus(s) ==
  CASE AnyInLower(SummaryFailure, s) -> "failed"
    [] AnyInLower(SummaryRunning, s) -> "running"
    [] AnyInLower(SummarySuccess, s) -> "success"
    [] OTHER                         -> "success"

\* _classify_task_type on the user and claude texts: bash / command / shell
\* / minglinghang / zhixingmingling / curl, then write / create / ..., then
\* edit / modify / ...; the model's status words hold none of them.
ClassifyTaskType(kw) ==
  CASE kw = "bashKw" -> "Bash" [] kw = "writeKw" -> "Write"
    [] kw = "editKw" -> "Edit" [] OTHER -> "Custom"

VARIABLE last   \* the latest notification: [via, text, verdict], or NONE;
                \* the hook's also carries its task_type, duration and
                \* duration_sec

Init == last = NONE

Shown(via, s, verdict) == last' = [via |-> via, text |-> s, verdict |-> verdict]

\* claude_notify_enhanced.main, n = len(sys.argv): the arguments after the
\* task name fill task_type, status, execution_details, ... in that order,
\* so the status is the third argument when there is one and the default
\* "wancheng" otherwise; with two arguments the second (task type or
\* status, says the comment) becomes the task type.  `typed` is the
\* argument in the status's place, {} without one.  The header colour is
\* get_status_info of the status.
EnhancedNotify ==
  \E n \in 1..7, arg \in Texts :
    LET s == IF n >= 4 THEN arg ELSE {"wancheng"} IN
    last' = [via |-> "enhanced", text |-> s, verdict |-> GetStatusInfo(s),
             typed |-> IF n >= 3 THEN arg ELSE {}]

\* notify_test_execution builds its status from the counts and sends it.
TestExecution ==
  \E run, passed \in 0..MaxTests :
    Shown("tests", TestStatus(run, passed), GetStatusInfo(TestStatus(run, passed)))

\* send_claude_notification (claude_notify_global.py) prefixes the title and
\* names the type its own detect_task_type gives the task name.
GlobalNotify ==
  \E s \in Texts, desc \in Descriptions :
    last' = [via |-> "global", text |-> s, verdict |-> GetStatusPrefix(s),
             desc |-> desc, type |-> GlobalTaskType(desc)]

\* send_feishu_hook_notification: task_type detected from the name when
\* none is given, the status mapped, the duration parsed.  (The result is
\* cut to 900 by truncate_result, as truncate_text in HookTimer.)
HookNotify ==
  \E s \in Texts, words \in {{}} \cup {{w} : w \in NameKeywords}, d \in Durations :
    last' = [via |-> "hook", text |-> s, verdict |-> MapStatusToStandard(s),
             type |-> DetectClaudeTaskType(words), duration |-> d,
             sec |-> ParseDuration(d)]

\* analyze_and_notify: an empty claude_output is replaced by PendingOutput,
\* then extract_task_info names the task from the input, classifies the
\* output and types the two together.
InteractionNotify ==
  \E out \in Texts \cup {{}}, in \in UserInputs, kw \in {"none"} \cup NameKeywords :
    LET s == IF out = {} THEN PendingOutput ELSE out
    IN  last' = [via |-> "interaction", text |-> s, verdict |-> DetermineStatus(s),
                 input |-> in, nameLen |-> ExtractTaskName(in), type |-> InteractionType(kw, s)]

\* notify_claude_completion's title and send_feishu_card_notification's header.
PushNotify == \E s \in Texts : Shown("push", s, PushIcon(s))
CardNotify == \E s \in Texts : Shown("card", s, CardIcon(s))

\* claude_notify_smart: main passes the description and status to
\* send_smart_notification, which classifies the description in the
\* working directory and colours the card by get_status_info.
SmartNotify ==
  \E desc \in Descriptions, dir \in Directories, s \in TaskStatuses :
    last' = [via |-> "smart", text |-> s, verdict |-> GetStatusInfo(s),
             desc |-> desc, dir |-> dir, type |-> SmartTaskType(desc, dir)]

\* send_notification detects the type in smart mode when it was left "qita".
DetectedType(mode, given, desc) ==
  IF mode = "smart" /\ given = Other THEN NotifierTaskType(desc) ELSE given

\* claude_code_notifier: main calls send_notification in smart mode (task
\* type "qita", or "xitongPeizhi" for its no-argument default), quick mode
\* ("qita") or manual mode (the type given); only smart mode with "qita"
\* detects the type.
NotifierNotify ==
  \E desc \in Descriptions, s \in TaskStatuses, mode \in {"smart", "quick", "manual"},
    given \in {Other, "xitongPeizhi"} :
    /\ mode = "quick" => given = Other
    /\ last' = [via |-> "notifier", text |-> s, verdict |-> GetStatusInfo(s),
                desc |-> desc, mode |-> mode, given |-> given,
                type |-> DetectedType(mode, given, desc)]

\* ClaudeOutputCapture.capture_command_output: the command runs; its output
\* is analysed and a nonzero exit code overrides the status (执行失败) and
\* adds the exit-code line in front of the details.  A run over 300 s
\* (TimeoutExpired) or a failure to start it sends a fixed notification:
\* default name, 执行超时 or 执行异常, one detail line, no output.
CommandNotify ==
  \/ \E lines \in OutputLines, rc \in {0, 1} :
       LET r == ExtractTaskInfo(lines) IN
       last' = [via |-> "command", outcome |-> "ran", lines |-> lines, rc |-> rc,
                verdict |-> IF rc # 0 THEN "zhixing_shibai" ELSE r.status,
                name |-> r.name, ndetails |-> Len(r.details) + (IF rc # 0 THEN 1 ELSE 0)]
  \/ \E outcome \in {"timeout", "exception"} :
       last' = [via |-> "command", outcome |-> outcome, lines |-> <<>>, rc |-> 1,
                verdict |-> IF outcome = "timeout" THEN "zhixing_chaoshi" ELSE "zhixing_yichang",
                name |-> 0, ndetails |-> 1]

\* send_conversation_summary: one interaction is analysed, then the project
\* is detected; when project_detector cannot be imported the except branch
\* calls os.getcwd() with os never imported, and the NameError escapes
\* before the POST.
SummaryNotify ==
  \E s \in Texts, in \in UserInputs, kw \in {"none"} \cup NameKeywords, detected \in BOOLEAN :
    last' = [via |-> "summary", text |-> s, verdict |-> AnalyzeExecutionStatus(s),
             input |-> in, nameLen |-> ExtractPrimaryTask(in), type |-> ClassifyTaskType(kw),
             outcome |-> IF detected THEN "sent" ELSE "raised"]

\* The length of a task name typed on a command line: empty or not.
ArgLengths == {0, 3}

\* claude_notify_final.main: with fewer than two arguments it prints its
\* usage and returns; otherwise argv[1] is the task name and argv[2] the
\* status ("success" without one), both sent as given; the result, type and
\* duration arguments bear on neither.
FinalNotify ==
  \E name \in ArgLengths, typed \in BOOLEAN, arg \in Texts :
    LET s == IF typed THEN arg ELSE {"success"}
    IN  last' = [via |-> "final", text |-> s, verdict |-> s, nameLen |-> name]

\* quick_notify_enhanced's __main__: argv[1], when given, is the task name
\* of quick_notify_with_project, whose status defaults to "success".
QuickNotify ==
  \E name \in ArgLengths :
    last' = [via |-> "quick", text |-> {"success"}, verdict |-> {"success"}, nameLen |-> name]

\* import claude_monitor; capture_output(line) for each line; exit.
MonitorExit ==
  \E lines \in UNION {[1..n -> Mon!LineKinds] : n \in 1..MaxLines} :
    last' = [via |-> "monitor", lines |-> lines,
             verdict |-> Mon!AnalyzeOutput(lines)[1], name |-> Mon!AnalyzeOutput(lines)[2]]

\* Every entry point is a script or CLI that sends one notification and
\* exits: a behaviour is one invocation, and it stops there.
Next ==
  /\ last = NONE
  /\ \/ EnhancedNotify \/ TestExecution \/ GlobalNotify \/ HookNotify
     \/ InteractionNotify \/ PushNotify \/ CardNotify \/ SmartNotify \/ NotifierNotify
     \/ CommandNotify \/ MonitorExit \/ SummaryNotify \/ FinalNotify \/ QuickNotify

Spec == Init /\ [][Next]_last

-----------------------------------------------------------------------------
(***************************************************************************)
(* Properties                                                              *)
(***************************************************************************)

Vias == {"enhanced", "tests", "global", "hook", "interaction", "push", "card",
         "smart", "notifier", "command", "monitor", "summary", "final", "quick"}

\* What each entry point can show; the hook payload's status is spec.md's
\* closed enum.
Verdicts ==
  [enhanced |-> {"green", "red", "blue", "orange"},
   tests |-> {"green", "red", "blue", "orange"},
   global |-> {"[OK]", "[FAIL]", "[WARN]", "[INFO]"},
   hook |-> {"success", "failed", "running"},
   interaction |-> {"success", "failed", "running"},
   push |-> {"[FAIL]", "[OK]", "[RUNNING]", "[CLAUDE]"},
   card |-> {"red", "green", "blue"},
   smart |-> {"green", "red", "blue", "orange"},
   notifier |-> {"green", "red", "blue", "orange"},
   command |-> {"wancheng", "chenggong_wancheng", "shibai", "zhixing_shibai",
                "zhixing_chaoshi", "zhixing_yichang"},
   monitor |-> {Mon!Default, Mon!Succeeded, Mon!Failed},
   summary |-> {"success", "failed", "running"},
   final |-> Texts \cup {{"success"}},
   quick |-> {{"success"}}]

TypeOK ==
  /\ Durations \subseteq DurationStrings /\ TaskStatuses \subseteq Texts
  /\ \/ last = NONE
     \/ /\ last.via \in Vias
        /\ last.via \notin {"command", "monitor"} =>
             last.text \in Texts \cup {PendingOutput, {"success"}}
        /\ last.verdict \in Verdicts[last.via]
        /\ last.via = "enhanced" => last.typed \in Texts \cup {{}}
        /\ last.via = "hook" =>
             last.type \in {"Bash", "Write", "Edit", "Custom"} /\ last.sec \in Nat
        /\ last.via \in {"smart", "notifier", "global"} =>
             last.desc \in Descriptions /\ last.type \in DOMAIN TaskKeywords \cup {Other, "qitaRenwu"}
        /\ last.via \in {"interaction", "summary"} =>
             last.input \in UserInputs /\ last.nameLen \in Nat
             /\ last.type \in {"Bash", "Write", "Edit", "Custom"}
        /\ last.via \in {"final", "quick"} => last.nameLen \in ArgLengths
        /\ last.via = "command" =>
             last.lines \in OutputLines /\ last.name \in 0..MaxLines /\ last.ndetails \in 0..4

(* spec.md section 4.4: the status mapping is consistent across schemas.  *)
(* The generic push title of claude_notify.py and the rich card of        *)
(* claude_notify_direct.py give every status text the same verdict.       *)
PushAndCardAgree ==
  last # NONE /\ last.via \in {"push", "card"} =>
    (PushIcon(last.text) = "[FAIL]") = (CardIcon(last.text) = "red") /\
    (PushIcon(last.text) = "[OK]") = (CardIcon(last.text) = "green")

\* spec.md section 4.2's parser: the first number times the factor of the
\* first unit found among minutes, hours and seconds; 0 without a number
\* or a unit.
Factor == [fenzhong |-> 60, minutes |-> 60, xiaoshi |-> 3600, hours |-> 3600,
           hr |-> 3600, miao |-> 1, seconds |-> 1]
SpecDuration(d) ==
  LET known == d.units \cap DOMAIN Factor
      pick(f) == {u \in known : Factor[u] = f}
      f == CASE pick(60) # {} -> 60 [] pick(3600) # {} -> 3600
             [] pick(1) # {} -> 1 [] OTHER -> 0
  IN  IF d.num = NONE THEN 0 ELSE (d.num * f) \div 10

(* spec.md section 4.2: the seconds a hook notification reports for its  *)
(* duration argument are what the spec's parser gives, whenever the       *)
(* argument's words are all unit words (2fenzhong, "2 minutes", 45miao,    *)
(* "1 xiaoshi 30 fenzhong", ...): parse_duration tests minutes before      *)
(* hours before seconds, so the "s" inside "minutes" and "hours" never     *)
(* decides.                                                               *)
ParseDurationMatchesSpec ==
  LET d == last.duration IN
  last # NONE /\ last.via = "hook" /\ d.units # {} /\ d.units \subseteq DOMAIN Factor
    => last.sec = SpecDuration(d)

\* What extract_task_info computes, stated over the whole output: the last
\* line with a keyword decides the status (success words winning within a
\* line); the name is the last such line under 100 characters, else the
\* first line of detail length, which then leaves the details.
LastOf(S) == Max(S)
CommandReference(lines) ==
  LET nb == {i \in DOMAIN lines : lines[i].len # "blank"}
      hit == {i \in nb : lines[i].m # "none"}
      named == {i \in hit : lines[i].len \in NameLength}
      detail == {i \in nb : lines[i].len \in DetailLength}
      name == CASE named # {} -> LastOf(named) [] detail # {} -> Min(detail) [] OTHER -> 0
      kept == IF named = {} THEN detail \ {name} ELSE detail
  IN  [status |-> CASE hit = {} -> "wancheng"
                    [] lines[LastOf(hit)].m = "err" -> "shibai"
                    [] OTHER -> "chenggong_wancheng",
       name |-> name, ndetails |-> Min({3, Cardinality(kept)})]

(* claude_auto_notify's line loop, with its elif, its two length tests and *)
(* its fallback to the first detail line, computes the reference: every    *)
(* notification of a command that ran reports the status of the last       *)
(* keyword line (执行失败 on a nonzero exit), the name of the last short    *)
(* keyword line or the first detail line, and at most three of the other   *)
(* detail lines, plus the exit-code line.                                  *)
ExtractMatchesReference ==
  last # NONE /\ last.via = "command" /\ last.outcome = "ran" =>
    LET ref == CommandReference(last.lines) IN
    /\ last.verdict = IF last.rc # 0 THEN "zhixing_shibai" ELSE ref.status
    /\ last.name = ref.name
    /\ last.ndetails = ref.ndetails + (IF last.rc # 0 THEN 1 ELSE 0)

(* spec.md section 8: for all input texts the extracted task_name is at  *)
(* most 50 characters.  Whichever rule of _extract_task_name names the     *)
(* task (an intent capture, a verb and its object, the input or its cut),  *)
(* and whichever rule of the summarizer's _extract_primary_task does, the  *)
(* name fits.                                                              *)
TaskNameWithinCap ==
  last # NONE /\ last.via \in {"interaction", "summary"} => last.nameLen <= 50

(* spec.md sections 3 and 8: task_name is never empty.  The interaction  *)
(* hook and the conversation summarizer name every input, a blank or      *)
(* empty one included, and the command lines of claude_notify_final and   *)
(* quick_notify_enhanced, which check only that argv[1] exists, send an   *)
(* empty first argument as the name.                                      *)
TaskNameNonEmpty ==
  last # NONE /\ last.via \in {"interaction", "summary", "final", "quick"} => last.nameLen > 0

(* spec.md sections 4.4 and 7: a status with a failure word is shown as  *)
(* failed.  notify_test_execution's "wancheng(N ge_shibai)" never gets a   *)
(* green header from get_status_info, nor does a failure word typed as   *)
(* the status of claude_notify_enhanced.py's command line (the second    *)
(* argument, which its comment calls the type or the status, or the      *)
(* third), map_status_to_standard maps a                                 *)
(* status containing one of its failure words to "failed", and            *)
(* neither claude_auto_notify nor claude_monitor's exit notification     *)
(* reports 成功完成 for output in which an error line was captured.        *)
FailureNeverShownSuccess ==
  last # NONE =>
    /\ last.via = "tests" /\ In("shibai", last.text) => last.verdict # "green"
    /\ last.via = "enhanced" /\ AnyIn({"shibai", "cuowu"}, last.typed)
       => last.verdict # "green"
    /\ last.via = "hook"
       /\ (AnyIn({"shibai", "cuowu"}, last.text) \/ AnyInLower({"error", "fail"}, last.text))
       => last.verdict = "failed"
    /\ last.via = "command" /\ (\E i \in DOMAIN last.lines : last.lines[i].m \in {"err", "both"})
       => last.verdict # "chenggong_wancheng"
    /\ last.via = "monitor" /\ (\E i \in DOMAIN last.lines : last.lines[i] \in Mon!ErrorKinds)
       => last.verdict # Mon!Succeeded

=============================================================================
