------------------------------ MODULE Monitor -------------------------------
(***************************************************************************)
(* The output monitor of src/claude_monitor.py: the module-level           *)
(* ClaudeMonitor instance _monitor.  Importing the module runs             *)
(* start_claude_monitoring() (captured_output = []) and registers          *)
(* auto_notify_on_exit with atexit.  The importing program then calls      *)
(*   capture_output(text)       append to captured_output                  *)
(*   start_claude_monitoring()  restart: captured_output = []              *)
(*   notify_claude_task(...)    send_notification(message): the caller's   *)
(*                              task and status, captured output untouched *)
(*   _monitor.send_notification()  the analysed captured output            *)
(* and at exit auto_notify_on_exit sends the analysed output when          *)
(* captured_output is not empty.  No path ever clears captured_output      *)
(* except start_monitoring.                                                *)
(*                                                                         *)
(* A captured text is one line, abstracted to what analyze_output tests:   *)
(*   cgShort   contains chenggong (success) and is shorter than 80         *)
(*   cgLong    contains chenggong, 80 characters or more                   *)
(*   done      a success word other than chenggong (done, wancheng, ...)   *)
(*   both      a success word and an error word (e.g. "done, 2 errors")    *)
(*   errShort  an error word and no success word, shorter than 80          *)
(*   errLong   the same, 80 characters or more                             *)
(*   plain     neither                                                     *)
(* Task names are the index of the line chosen, 0 for the default name.    *)
(* The time, the key points and the text layout are display only.          *)
(***************************************************************************)
EXTENDS Naturals, Sequences

CONSTANTS
  MaxCaptures, \* bound on capture_output calls in a run
  MaxSent,    \* bound on notifications
  Statuses    \* statuses callers pass to notify_claude_task

LineKinds == {"cgShort", "cgLong", "done", "both", "errShort", "errLong", "plain"}
SuccessKinds == {"cgShort", "cgLong", "done", "both"}
ErrorKinds == {"errShort", "errLong"}

\* The statuses analyze_output produces (pinyin of 完成, 成功完成, 执行失败,
\* 执行完成).
Default == "wancheng"
Succeeded == "chenggong_wancheng"
Failed == "zhixing_shibai"
NothingCaptured == "zhixing_wancheng"

(***************************************************************************)
(* analyze_output's loop over the lines: a success line sets 成功完成 and  *)
(* a short chenggong line also names the task and ends the loop; an error  *)
(* line (tested only when no success word matched) sets 执行失败 and a      *)
(* short one names the task.  Result: <<status, task line>>.               *)
(***************************************************************************)
RECURSIVE ScanNoBreak(_, _, _, _)
ScanNoBreak(lines, i, st, nm) ==
  IF i > Len(lines) THEN <<st, nm>>
  ELSE LET k == lines[i] IN
       IF k \in SuccessKinds
         THEN ScanNoBreak(lines, i + 1, Succeeded, IF k = "cgShort" THEN i ELSE nm)
       ELSE IF k \in ErrorKinds
         THEN ScanNoBreak(lines, i + 1, Failed, IF k = "errShort" THEN i ELSE nm)
       ELSE ScanNoBreak(lines, i + 1, st, nm)

\* Variant: the task line counted from the line after it (off by one).
RECURSIVE ScanOffByOne(_, _, _, _)
ScanOffByOne(lines, i, st, nm) ==
  IF i > Len(lines) THEN <<st, nm>>
  ELSE LET k == lines[i] IN
       IF k \in SuccessKinds
         THEN IF k = "cgShort" THEN <<Succeeded, i + 1>>
              ELSE ScanOffByOne(lines, i + 1, Succeeded, nm)
       ELSE IF k \in ErrorKinds
         THEN ScanOffByOne(lines, i + 1, Failed, IF k = "errShort" THEN i + 1 ELSE nm)
       ELSE ScanOffByOne(lines, i + 1, st, nm)

RECURSIVE Scan(_, _, _, _)
Scan(lines, i, st, nm) ==
  IF i > Len(lines) THEN <<st, nm>>
  ELSE LET k == lines[i] IN
       IF k \in SuccessKinds
         THEN IF k = "cgShort" THEN <<Succeeded, i>>
              ELSE Scan(lines, i + 1, Succeeded, nm)
       ELSE IF k \in ErrorKinds
         THEN Scan(lines, i + 1, Failed, IF k = "errShort" THEN i ELSE nm)
       ELSE Scan(lines, i + 1, st, nm)

\* ClaudeMonitor.analyze_output: nothing captured gives the default name and
\* 执行完成; otherwise the scan from status 完成 and the default name.
AnalyzeOutput(lines) ==
  IF lines = <<>> THEN <<NothingCaptured, 0>> ELSE Scan(lines, 1, Default, 0)

VARIABLES
  captured,   \* _monitor.captured_output, one line kind per capture
  sent,       \* history: notifications sent, [via, status, name, lines]
  exited,     \* the interpreter has run its atexit hooks
  captures    \* history: capture_output calls so far

vars == <<captured, sent, exited, captures>>

\* Import: _monitor = ClaudeMonitor(); start_claude_monitoring().
Init ==
  /\ captured = <<>>
  /\ sent = <<>>
  /\ exited = FALSE
  /\ captures = 0

Send(via, status, name) ==
  sent' = Append(sent, [via |-> via, status |-> status, name |-> name,
                        lines |-> captured, seen |-> captures])

\* capture_output(text)
Capture ==
  /\ ~exited
  /\ captures < MaxCaptures
  /\ \E k \in LineKinds : captured' = Append(captured, k)
  /\ captures' = captures + 1
  /\ UNCHANGED <<sent, exited>>

\* start_claude_monitoring() called again by the program.
Restart ==
  /\ ~exited
  /\ captured' = <<>>
  /\ UNCHANGED <<sent, exited, captures>>

\* notify_claude_task / notify_claude_completion: the caller's status, the
\* captured output neither reported nor cleared.
NotifyTask ==
  /\ ~exited
  /\ Len(sent) < MaxSent
  /\ \E st \in Statuses : Send("manual", st, 0)
  /\ UNCHANGED <<captured, exited, captures>>

\* _monitor.send_notification() without a message: the analysed output.
Flush ==
  /\ ~exited
  /\ Len(sent) < MaxSent
  /\ Send("flush", AnalyzeOutput(captured)[1], AnalyzeOutput(captured)[2])
  /\ UNCHANGED <<captured, exited, captures>>

\* auto_notify_on_exit: send the analysed output if any was captured.
Exit ==
  /\ ~exited
  /\ exited' = TRUE
  /\ IF captured # <<>>
       THEN Send("exit", AnalyzeOutput(captured)[1], AnalyzeOutput(captured)[2])
       ELSE UNCHANGED sent
  /\ UNCHANGED <<captured, captures>>

Next == Capture \/ Restart \/ NotifyTask \/ Flush \/ Exit

Spec == Init /\ [][Next]_vars

-----------------------------------------------------------------------------
(***************************************************************************)
(* Properties                                                              *)
(***************************************************************************)

TypeOK ==
  /\ captured \in Seq(LineKinds) /\ Len(captured) <= captures
  /\ captures \in 0..MaxCaptures
  /\ exited \in BOOLEAN
  /\ \A i \in DOMAIN sent :
       /\ sent[i].via \in {"manual", "flush", "exit"}
       /\ sent[i].name \in 0..MaxCaptures
       /\ sent[i].lines \in Seq(LineKinds)

\* What the scan computes, stated without the loop: a short chenggong line
\* decides at once (the first one names the task); otherwise the last line
\* that matches decides, and the last short error line names the task.
Matching(lines) == {i \in DOMAIN lines : lines[i] \in SuccessKinds \cup ErrorKinds}
Last(S) == CHOOSE i \in S : \A j \in S : j <= i
First(S) == CHOOSE i \in S : \A j \in S : i <= j

ReferenceAnalysis(lines) ==
  LET short == {i \in DOMAIN lines : lines[i] = "cgShort"}
      errs  == {i \in DOMAIN lines : lines[i] = "errShort"}
  IN  CASE lines = <<>>          -> <<NothingCaptured, 0>>
        [] short # {}            -> <<Succeeded, First(short)>>
        [] Matching(lines) = {}  -> <<Default, 0>>
        [] OTHER ->
             <<IF lines[Last(Matching(lines))] \in SuccessKinds THEN Succeeded ELSE Failed,
               IF errs = {} THEN 0 ELSE Last(errs)>>

(* analyze_output's loop with its break computes what the reference says:  *)
(* every notification of the monitor reports, for the output it analysed, *)
(* the status and task line of the first short chenggong line, or else of *)
(* the last matching line.                                                 *)
AnalysisMatchesReference ==
  \A i \in DOMAIN sent :
    sent[i].via \in {"flush", "exit"} =>
      <<sent[i].status, sent[i].name>> = ReferenceAnalysis(sent[i].lines)

(* auto_notify_on_exit never reports again what the program already sent: *)
(* after _monitor.send_notification() reported the captured output, the   *)
(* exit hook does not send the same non-empty output, captured by the     *)
(* same capture_output calls, a second time.                               *)
OutputReportedOnce ==
  \A i, j \in DOMAIN sent :
    /\ i < j
    /\ sent[i].via = "flush" /\ sent[j].via = "exit"
    /\ sent[i].seen = sent[j].seen
    => sent[i].lines # sent[j].lines \/ sent[i].lines = <<>>

=============================================================================
