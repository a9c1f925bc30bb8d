--------------------------- MODULE MCDeriveCiRows ---------------------------
(***************************************************************************)
(* Instances of the producer for TLC: the index entries, the host's        *)
(* answers about them, and how those answers may move.                     *)
(***************************************************************************)
EXTENDS DeriveCiRows, TLC

CONSTANTS e1, e2, e3, e4, e5, c1, c2

(* The paths of an entry whose workflow run is `run`; everything about the *)
(* pull request and the reviewed tree is shared.                           *)
PathsOf(run, jobs) ==
  [k \in Kinds |-> IF k = "run" THEN run ELSE IF k = "jobs" THEN jobs ELSE k]

Plain(run, jobs) ==
  [stream |-> "settles", named |-> "both", pull |-> "pr", part |-> TRUE,
   publisher |-> FALSE, admitted |-> TRUE, path |-> PathsOf(run, jobs)]

MCPaths == Kinds \cup {"run2", "jobs2"}
MCHeads == {"h1", "h2"}
MCDays == {"mon", "tue"}
MCPulls == {"pr", "pr2"}
MCBranches == {"topic", "other"}

Run == [head |-> "h1", filed |-> TRUE, day |-> "mon", branch |-> "topic",
        review |-> "at-commit", wrapper |-> "none"]

(* A host with everything a row needs.                                     *)
Whole ==
  [p \in MCPaths |->
    CASE p \in {"run", "run2"}     -> Run
      [] p = "pull"                -> [branch |-> "topic", scoped |-> TRUE]
      [] p = "commits"             -> [commits |-> {"h1"}]
      [] p = "wrapper"             -> Absent
      [] p = "template"            -> Text("renders")
      [] p = "caller"              -> Text("calls")
      [] p \in {"jobs", "jobs2"}   -> [step |-> "mon", concluded |-> TRUE]
      [] p = "repo"                -> [public |-> TRUE]
      [] p = "manifest"            -> Text("pinned")
      [] p = "vendor"              -> [named |-> FALSE]
      [] p = "comments"            -> [marker |-> "h1"]
      [] OTHER                     -> Text("plain")]

Still == [p \in MCPaths |-> {}]

AsMeant == [v \in Visibilities |-> v]

-----------------------------------------------------------------------------
(* Two workflow runs on one head, rescued at different commits of the      *)
(* streams.  The first one is re-run on the host, which from then on dates *)
(* it by its latest attempt, and the repository is closed.                 *)
RerunEntry == e1 :> Plain("run", "jobs") @@ e2 :> Plain("run2", "jobs2")
RerunIndex == c1 :> <<e1>> @@ c2 :> <<e1, e2>>
RerunHeads == {"h1"}
RerunPulls == {"pr"}
RerunBranches == {"topic"}
RerunHosts == {Whole}
RerunMoves ==
  [Still EXCEPT !["jobs"] = {[step |-> "tue", concluded |-> TRUE]},
                !["repo"] = {[public |-> FALSE]}]
RerunDeclarations == {AsMeant}

-----------------------------------------------------------------------------
(* Every way one piece of evidence can fail: the host is Whole but for one *)
(* fact, for the shapes of review workflow, or for a branch rewritten      *)
(* after the review.  Beside the entry under derivation, one entry refused *)
(* by each test that is not the host's: at its stream, at its name, at     *)
(* assembly, at the inbox validator.                                       *)
EvidenceEntry ==
  e1 :> [Plain("run", "jobs") EXCEPT !.part = FALSE]
  @@ e2 :> [Plain("run", "jobs") EXCEPT !.pull = "pr2", !.publisher = TRUE]
  @@ e3 :> [Plain("run", "jobs") EXCEPT !.pull = "pr2", !.admitted = FALSE]
  @@ e4 :> [Plain("run", "jobs") EXCEPT !.stream = "digest-mismatch"]
  @@ e5 :> [Plain("run", "jobs") EXCEPT !.named = "pr-unresolved"]
EvidenceIndex == c1 :> <<e4, e5, e1, e2, e3>>

Files == {"template", "routine", "caller", "agents", "settings", "manifest"}

OneFactFails ==
       {[Whole EXCEPT ![k] = Absent] : k \in Kinds}
  \cup {[Whole EXCEPT ![k] = Unreadable] : k \in Files}
  \cup {[Whole EXCEPT !["template"] = Text(t)] :
          t \in {"names-part", "prompt-unsupported", "args-unsupported"}}
  \cup {[Whole EXCEPT !["caller"] = Text(t), !["jobs"] = j] :
          t \in {"calls-nothing", "calls-gated"},
          j \in {Absent, Whole["jobs"], [step |-> NoDay, concluded |-> FALSE]}}
  \cup {[Whole EXCEPT !["run"].day = NoDay, !["jobs"] = j] :
          j \in {Absent, Whole["jobs"], [step |-> NoDay, concluded |-> TRUE]}}
  \cup {[Whole EXCEPT !["run"] = r] :
          r \in {[Run EXCEPT !.filed = FALSE], [Run EXCEPT !.head = NoHead]}}
  \cup {[Whole EXCEPT !["pull"] = p, !["commits"].commits = {"h2"}] :
          p \in {Absent, [branch |-> "topic", scoped |-> TRUE],
                 [branch |-> "topic", scoped |-> FALSE],
                 [branch |-> "other", scoped |-> TRUE]}}
  \cup {[Whole EXCEPT !["manifest"] = Text("plain"), !["vendor"] = v] :
          v \in {Absent, [named |-> TRUE], [named |-> FALSE]}}
  \cup {[Whole EXCEPT !["repo"].public = FALSE], [Whole EXCEPT !["comments"].marker = "h2"]}

ReviewShapes ==
  {[Whole EXCEPT !["run"].review = review, !["run"].wrapper = wrapper, !["wrapper"] = text] :
     review \in Referenced, wrapper \in Referenced,
     text \in {Absent, Unreadable, Text("holds-prompt"), Text("calls-commit"),
               Text("calls-branch")}}

EvidenceHosts == {Whole} \cup OneFactFails \cup ReviewShapes
EvidenceDeclarations ==
  {AsMeant, [AsMeant EXCEPT !["public"] = "none"],
   [AsMeant EXCEPT !["enterprise-private"] = "public"]}
=============================================================================
