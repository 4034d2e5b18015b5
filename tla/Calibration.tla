---------------------------- MODULE Calibration ----------------------------
(***************************************************************************)
(* The advice on the confidence threshold that a vendor's row of the       *)
(* calibration report gives, from what reviewers have decided.  The report *)
(* is one aggregate query, so it sees one state of the table.              *)
(*                                                                         *)
(* A model's confidence is any number; the report rounds to thousandths    *)
(* and the gate does not.  Confidences are therefore kept in parts of a    *)
(* thousandth, an odd number of them, as what becomes of a number halfway  *)
(* between two thousandths is up to the floating-point representation.     *)
(***************************************************************************)
EXTENDS FiniteSetsExt, Functions, Integers

CONSTANTS
  Grain,                      \* parts of a thousandth
  MIN_DECISIONS_FOR_ADVICE

ASSUME CalibrationAssumption ==
  /\ Grain \in Nat /\ Grain % 2 = 1
  /\ MIN_DECISIONS_FOR_ADVICE \in Nat \ {0}

Round(c) == (2 * c + Grain) \div (2 * Grain)

(* The decided events of a vendor: how many have which decision and which  *)
(* confidence.                                                             *)
Confidences(decided, decision) ==
  {c \in DOMAIN decided[decision] : decided[decision][c] > 0}

(* Fault variant: a rejection may be as confident as an approval.          *)
SeparatedOrEqual(lowest_approved, highest_rejected) ==
  highest_rejected = {} \/ \A a \in lowest_approved : \A r \in highest_rejected :
                             a >= r

(* The condition for advice.  Either side is the extreme of the query, or  *)
(* the empty set where the query has no row and answers NULL.              *)
Separated(lowest_approved, highest_rejected) ==
  highest_rejected = {} \/ \A a \in lowest_approved : \A r \in highest_rejected :
                             a > r

(* _assess, on the rounded extremes as calibration_report passes them.     *)
Assess(decided, threshold, none) ==
  LET approved == Confidences(decided, "APPROVE")
      rejected == Confidences(decided, "REJECT")
      reviewed == SumFunction(decided["APPROVE"]) + SumFunction(decided["REJECT"])
      lowest_approved == IF approved = {} THEN {} ELSE {Round(Min(approved))}
      highest_rejected == IF rejected = {} THEN {} ELSE {Round(Max(rejected))}
      suggested == CHOOSE a \in lowest_approved : TRUE
      Row(verdict, advice) == [verdict |-> verdict, suggested_threshold |-> advice]
  IN IF reviewed < MIN_DECISIONS_FOR_ADVICE THEN Row("insufficient_decisions", none)
     ELSE IF approved = {} THEN Row("all_rejected", none)
     ELSE IF ~Separated(lowest_approved, highest_rejected)
       THEN Row("overlapping", none)
     ELSE Row("separated", IF suggested < threshold THEN suggested ELSE none)
============================================================================
