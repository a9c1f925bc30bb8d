------------------------------- MODULE Oracle -------------------------------
(***************************************************************************)
(* The oracle interface, oracles/__init__.py: what a gate says, and how an *)
(* outcome follows from the gates of a judgement.                          *)
(***************************************************************************)
EXTENDS FiniteSets

Results == {"pass", "fail", "not-run"}

Outcomes == {"TRUE_DONE", "FALSE_DONE", "UNKNOWN"}

(* A gate that did not run is available where it reached the checkout and  *)
(* found nothing of its kind, and is not where it never reached it.        *)
Gate == [result : Results, available : BOOLEAN]

Passed      == [result |-> "pass", available |-> TRUE]
Failed      == [result |-> "fail", available |-> TRUE]
NotApplied  == [result |-> "not-run", available |-> TRUE]
Unavailable == [result |-> "not-run", available |-> FALSE]

(* A defect to check against: a gate that could not run is overlooked.     *)
OutcomeOfThoseThatRan(gates) ==
  IF \E c \in DOMAIN gates : gates[c].result = "fail" THEN "FALSE_DONE"
  ELSE IF \E c \in DOMAIN gates : gates[c].result = "pass" THEN "TRUE_DONE"
  ELSE "UNKNOWN"

(* A failure is the answer; then a gate that could not reach what it       *)
(* judges; and only then a pass.                                           *)
OutcomeOf(gates) ==
  IF \E c \in DOMAIN gates : gates[c].result = "fail" THEN "FALSE_DONE"
  ELSE IF \E c \in DOMAIN gates : ~gates[c].available THEN "UNKNOWN"
  ELSE IF \E c \in DOMAIN gates : gates[c].result = "pass" THEN "TRUE_DONE"
  ELSE "UNKNOWN"

=============================================================================
