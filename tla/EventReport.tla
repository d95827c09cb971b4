---------------------------- MODULE EventReport ----------------------------
(***************************************************************************)
(* What a context promises about the events it reports, whatever filters,  *)
(* caches and timeouts do (collection.hpp, the comments that introduce the *)
(* collections): a rule is reported at most once; once something of a type *)
(* was reported, only its rules with actions may still be, as long as an   *)
(* action of the type has not been reported yet.                           *)
(***************************************************************************)
EXTENDS Naturals, Sequences

CONSTANTS Rule, RuleType, RuleActions

VARIABLES
    delivered,  \* the rules reported so far
    report      \* the rules reported by the last call, in order

vars == <<delivered, report>>

Init == delivered = {} /\ report = <<>>

OfType(r, R) == {q \in R : RuleType[q] = RuleType[r]}
ActionsOf(R) == UNION {RuleActions[q] : q \in R}

\* Rule r may be reported when the rules R have been.
MayReport(r, R) ==
    /\ r \notin R
    /\ \/ OfType(r, R) = {}
       \/ RuleActions[r] # {} /\ ~(ActionsOf(OfType(r, Rule)) \subseteq ActionsOf(R))

\* A call reports the events of some rules, none of them or several.
Report ==
    /\ report' \in Seq(Rule)
    /\ \A i \in DOMAIN report' :
         MayReport(report'[i], delivered \cup {report'[j] : j \in 1..(i - 1)})
    /\ delivered' = delivered \cup {report'[i] : i \in DOMAIN report'}

Spec == Init /\ [][Report]_vars
=============================================================================
