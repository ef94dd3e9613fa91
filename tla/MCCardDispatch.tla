--------------------------- MODULE MCCardDispatch ---------------------------
(***************************************************************************)
(* Model-checking instance of CardDispatch, and its refinement mapping to  *)
(* the abstract DispatchSpec.                                              *)
(***************************************************************************)
EXTENDS CardDispatch, TLC

CONSTANTS c1, c2, c3, c4

MCCallers == {c1, c2, c3, c4}

\* The card sender with its fallback beside single-POST senders that read
\* the body, one of each success test: code 0 after 200 (the smart card),
\* the success field on any status, the success field after 200.
MCProgram ==
  (c1 :> "enhanced") @@ (c2 :> "smart") @@ (c3 :> "push") @@ (c4 :> "notifier")

\* Every sender that departs from spec.md 4.5: the card sender, the card
\* sender without a fallback, the sender that reads the status alone; and
\* the structured-hook sender, which follows it.
MCProgramSpec ==
  (c1 :> "enhanced") @@ (c2 :> "smart") @@ (c3 :> "quick") @@ (c4 :> "final")

\* Every reply kind the webhook (real Feishu flow or the mock) can produce.
MCReplies == ReplyKinds

\* The failure class spec.md section 4.5 assigns to each reply kind.
Class(k) ==
  CASE k = "ok"                              -> "ok"
    [] k \in {"apiErr", "noCode"}            -> "api"
    [] k = "httpErr"                         -> "http"
    [] k \in {"notJson", "timeout", "connErr"} -> "transport"

AbsState(c) ==
  CASE pc[c] = "idle" -> "Idle"
    [] pc[c] \in {"card", "post"} -> "Primary"
    [] pc[c] = "text" -> "Fallback"
    [] pc[c] = "done" -> IF outcome[c] = TRUE THEN "Success" ELSE "Failed"

AbsAnswers(c) == [i \in DOMAIN replies[c] |-> Class(replies[c][i])]

\* The code falls back on transport failures only, and only in
\* send_enhanced_feishu_notification: send_smart_notification's card has no
\* fallback.
CodeDispatch == INSTANCE DispatchSpec
  WITH FallbackOn <- {"transport"},
       RichCard <- {c \in Callers : Program[c] = "enhanced"},
       state <- [c \in Callers |-> AbsState(c)],
       result <- outcome,
       answers <- [c \in Callers |-> AbsAnswers(c)]

\* spec.md section 4.5: fall back on any failure of a rich-card attempt.
SpecDispatch == INSTANCE DispatchSpec
  WITH FallbackOn <- {"transport", "http", "api"},
       RichCard <- {c \in Callers : Program[c] \in {"enhanced", "smart"}},
       state <- [c \in Callers |-> AbsState(c)],
       result <- outcome,
       answers <- [c \in Callers |-> AbsAnswers(c)]

(* The dispatcher of send_enhanced_feishu_notification is a one-fallback    *)
(* dispatcher in the sense of spec.md section 4.5, with the fallback        *)
(* triggered by transport failures (exceptions, unparsable bodies) only;   *)
(* the single-POST senders that read the body (smart card, push, notifier) *)
(* are dispatchers without fallback that report success exactly on a 200   *)
(* with the success marker.                                                 *)
DispatchRefinement == CodeDispatch!Spec

(* spec.md section 4.5: success is HTTP 200 and the application success    *)
(* marker, and on any failure of a rich-card attempt (non-200,             *)
(* application-level failure or transport exception) the dispatcher falls  *)
(* back once to the plain-text schema.                                      *)
SpecFallbackRefinement == SpecDispatch!Spec

=============================================================================
