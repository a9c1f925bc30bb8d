--------------------------- MODULE MCInboxWorkflow ---------------------------
(***************************************************************************)
(* Instances for TLC: two batches of derived rows, some of which their     *)
(* gate must refuse, and pull requests that are fine one by one.           *)
(***************************************************************************)
EXTENDS InboxWorkflow, TLC

Agent == [provider |-> [letters |-> "anthropic", spelled |-> "anthropic"],
          model_id |-> [letters |-> "opus", spelled |-> "opus"],
          client   |-> [letters |-> "claude-code", spelled |-> "claude-code"],
          snapshot |-> [of |-> [letters |-> "opus", spelled |-> "opus"], marked |-> TRUE]]

Tree(t) == [visibility |-> "public", tree |-> t]

Body0(id) ==
  [id |-> id, rest |-> TRUE, shaped |-> TRUE, repository_state |-> Tree("t1"), human_baseline |-> Absent,
   agent |-> Agent, adhoc |-> FALSE, group_id |-> Absent, arm |-> Absent, planned |-> Absent]

RunFile(id, body) == [kind |-> "runs", day |-> "mon", stem |-> id, body |-> body]
Arm(id, arm, tree, baseline) ==
  RunFile(id, [Body0(id) EXCEPT !.group_id = "g", !.arm = arm, !.repository_state = Tree(tree),
                               !.planned = "human", !.human_baseline = baseline])
JudgementFile(id, run) ==
  [kind |-> "judgements", day |-> "mon", stem |-> id,
   body |-> [id |-> id, rest |-> TRUE, shaped |-> TRUE, run_id |-> run]]

Clean(id) == RunFile(id, Body0(id))
Bot == [letters |-> "exeris-bot", spelled |-> "Exeris-Bot[bot]"]

MCHolds ==
  [clean     |-> Clean("r1"),
   publisher |-> RunFile("r2", [Body0("r2") EXCEPT !.agent.client = Bot]),
   private   |-> RunFile("r3", [Body0("r3") EXCEPT !.repository_state.visibility = "private"]),
   arm       |-> Arm("a1", "a", "t1", "b1"),
   sameArm   |-> [Arm("a2", "a", "t2", "b2") EXCEPT !.day = "tue"],
   unplanned |-> [Arm("a3", "c", "t1", Absent) EXCEPT !.body.planned = "none"],
   judgement |-> JudgementFile("j1", "r1")]

MCFiles == DOMAIN MCHolds

MCBatches == {{"clean", "publisher", "private"}}

(* One slot filled twice, from two trees and beside two people, with an    *)
(* arm whose plan has no human in it; a judgement that needs r1.           *)
MainPulls == {{"arm", "unplanned"}, {"sameArm", "judgement"}}

(* One arm with a human's run and one without.                             *)
BaselinePulls == {{"arm"}, {"unplanned"}}
NoBatches == {}
=============================================================================
