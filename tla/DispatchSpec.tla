---------------------------- MODULE DispatchSpec ----------------------------
(***************************************************************************)
(* What the dispatcher promises (spec.md section 4.5 and 7): per call,     *)
(*   Idle -> Sending(primary) -> { Success | Sending(fallback) ->          *)
(*                                 { Success | Failed } }                  *)
(* with at most two network attempts.  A failed primary attempt of a      *)
(* RichCard caller goes to the fallback when its failure class is in      *)
(* FallbackOn, and every other attempt ends the call: Success exactly when *)
(* its class is ok.  The spec asks for FallbackOn = every failure class    *)
(* (non-200, application-level failure, transport exception), and for     *)
(* RichCard = every caller whose primary schema is the rich card.         *)
(* The observable answers record the class of each attempt's outcome.      *)
(***************************************************************************)
EXTENDS Sequences

CONSTANTS
  Callers,
  FallbackOn,   \* failure classes that trigger the single fallback
  RichCard,     \* callers whose primary attempt is the rich-card schema
  NONE

\* ok: HTTP 200 and the application success marker; transport includes
\* exceptions and unparsable bodies (spec.md section 4.5).
Classes == {"ok", "transport", "http", "api"}
Failures == Classes \ {"ok"}

ASSUME FallbackOn \subseteq Failures
ASSUME RichCard \subseteq Callers

VARIABLES state, result, answers

vars == <<state, result, answers>>

Init ==
  /\ state = [c \in Callers |-> "Idle"]
  /\ result = [c \in Callers |-> NONE]
  /\ answers = [c \in Callers |-> <<>>]

Begin(c) ==
  /\ state[c] = "Idle"
  /\ state' = [state EXCEPT ![c] = "Primary"]
  /\ UNCHANGED <<result, answers>>

Finish(c, ok) ==
  /\ state' = [state EXCEPT ![c] = IF ok THEN "Success" ELSE "Failed"]
  /\ result' = [result EXCEPT ![c] = ok]

PrimaryDone(c) ==
  /\ state[c] = "Primary"
  /\ \E r \in Classes :
       /\ answers' = [answers EXCEPT ![c] = Append(@, r)]
       /\ IF c \in RichCard /\ r \in FallbackOn
            THEN /\ state' = [state EXCEPT ![c] = "Fallback"]
                 /\ UNCHANGED result
            ELSE Finish(c, r = "ok")

FallbackDone(c) ==
  /\ state[c] = "Fallback"
  /\ \E r \in Classes :
       /\ answers' = [answers EXCEPT ![c] = Append(@, r)]
       /\ Finish(c, r = "ok")

Next == \E c \in Callers : Begin(c) \/ PrimaryDone(c) \/ FallbackDone(c)

Spec == Init /\ [][Next]_vars

=============================================================================
