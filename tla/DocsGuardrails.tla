--------------------------- MODULE DocsGuardrails ---------------------------
(***************************************************************************)
(* The docs-guardrails oracle, oracles/docs_guardrails.py: what one        *)
(* judgement of one checkout says.                                         *)
(*                                                                         *)
(* A judgement goes through its gates in the order of judge.  What it      *)
(* reads - the checkout, the checkers and the tools on disk, the index,    *)
(* the base commit, what the task preserves and the bridge - is a record   *)
(* of facts that stand still while it reads.  A checker is external: it    *)
(* exits clean (0), with findings (1) or otherwise, or is not on disk.     *)
(***************************************************************************)
EXTENDS Oracle

CONSTANT Checkouts   \* the facts a judgement may meet

AgentGates == {"agents_file_check", "agents_render_check", "agents_bundle_verify"}

CheckerGates == {"frontmatter_check", "registry_check"} \cup AgentGates

SemanticGates == {"content_preserved", "adr_links_resolve"}

Facts ==
  [there    : BOOLEAN,                            \* the checkout is a directory
   taxonomy : {"resolves", "missing", "fails"},   \* lint_globs.py
   docs     : BOOLEAN,   \* it holds files the taxonomy admits and CI does not exclude
   exit     : [CheckerGates -> {"clean", "findings", "other", "absent"}],
   registry : BOOLEAN,   \* adr-index.md is in the checkout
   records  : BOOLEAN,   \* so is docs/adr or adr
   index    : BOOLEAN,   \* a central index on disk, and one index_within admits
   agents   : BOOLEAN,   \* an .agents tree is in the checkout
   tools    : BOOLEAN,   \* the agent tooling is on disk
   preserve : {"nothing", "malformed", "patterns"},
   base     : BOOLEAN,   \* the base commit is named and readable
   kept     : {"none", "intact", "changed"},      \* the files at base the patterns match
   bridge   : {"none", "unusable", "usable"},
   stubs    : {"none", "right", "wrong", "untitled"}]

ASSUME CheckoutAssumption == Checkouts \subseteq Facts

VARIABLES
  checkout,  \* the facts of this judgement
  step,      \* the gate it is about to ask
  gates      \* what the gates asked so far said

vars == <<checkout, step, gates>>

(* Naming a bridge or something to preserve asks the second generation's   *)
(* question.                                                               *)
Second == checkout.bridge # "none" \/ checkout.preserve # "nothing"

Names == IF Second THEN CheckerGates \cup SemanticGates ELSE CheckerGates

Outcome == OutcomeOf(gates)

TypeOK ==
  /\ checkout \in Facts
  /\ step \in {"begin", "preservation", "corpus", "frontmatter", "registry", "agents", "done",
               "traceback"}
  /\ DOMAIN gates \subseteq Names
  /\ \A c \in DOMAIN gates : gates[c] \in Gate

Init ==
  /\ checkout \in Checkouts
  /\ step = "begin"
  /\ gates = << >>

-----------------------------------------------------------------------------
(* The gates of a list are added to those said before it.                  *)
Say(said) ==
  gates' = [c \in DOMAIN said \cup DOMAIN gates |->
              IF c \in DOMAIN said THEN said[c] ELSE gates[c]]

One(check, gate) == [c \in {check} |-> gate]

(* _all_not_run                                                            *)
AllNotRun(names, how) == [c \in names |-> how]

(* A defect to check against: any exit but 0 is taken for a finding.       *)
VerdictOfNonZero(check) ==
  CASE checkout.exit[check] = "clean"  -> Passed
    [] checkout.exit[check] = "absent" -> Unavailable
    [] OTHER                           -> Failed

(* _verdict, of a checker that is on disk                                  *)
Verdict(check) ==
  CASE checkout.exit[check] = "clean"    -> Passed
    [] checkout.exit[check] = "findings" -> Failed
    [] OTHER                             -> Unavailable

(* A defect to check against: the gates of the second generation are named *)
(* for both.                                                               *)
NoCheckoutOfSecond ==
  /\ step = "begin" /\ ~checkout.there
  /\ Say(AllNotRun(CheckerGates \cup SemanticGates, Unavailable))
  /\ step' = "done"
  /\ UNCHANGED checkout

NoCheckout ==
  /\ step = "begin" /\ ~checkout.there
  /\ Say(AllNotRun(Names, Unavailable))
  /\ step' = "done"
  /\ UNCHANGED checkout

FirstGeneration ==
  /\ step = "begin" /\ checkout.there /\ ~Second
  /\ step' = "corpus"
  /\ UNCHANGED <<checkout, gates>>

(* A bridge this oracle starts, and a registry for it to read (docs_root). *)
CanAskRegistry == checkout.bridge = "usable" /\ (checkout.registry \/ checkout.index)

(* adr_links.gate, whose verdict over a bridge that can be asked is the    *)
(* one LinkVerdict promises.                                               *)
LinkVerdicts ==
  IF checkout.stubs = "none" THEN {NotApplied}
  ELSE IF ~CanAskRegistry \/ checkout.stubs = "untitled" THEN {Unavailable}
  ELSE IF checkout.stubs = "right" THEN {Passed, Unavailable}
  ELSE {Failed, Unavailable}

Links ==
  /\ step = "begin" /\ checkout.there /\ Second
  /\ \E v \in LinkVerdicts : Say(One("adr_links_resolve", v))
  /\ step' = "preservation"
  /\ UNCHANGED checkout

(* An answer without content raises what no gate catches (AdrLinks), and   *)
(* the judgement ends with no outcome.                                     *)
LinksRaise ==
  /\ step = "begin" /\ checkout.there /\ Second
  /\ checkout.stubs # "none" /\ CanAskRegistry
  /\ step' = "traceback"
  /\ UNCHANGED <<checkout, gates>>

(* preservation.gate                                                       *)
Preserved ==
  IF checkout.preserve = "malformed" THEN Unavailable
  ELSE IF checkout.preserve = "nothing" THEN NotApplied
  ELSE IF ~checkout.base THEN Unavailable
  ELSE IF checkout.kept = "none" THEN NotApplied
  ELSE IF checkout.kept = "changed" THEN Failed
  ELSE Passed

Preservation ==
  /\ step = "preservation"
  /\ Say(One("content_preserved", Preserved))
  /\ step' = "corpus"
  /\ UNCHANGED checkout

NoCorpus ==
  /\ step = "corpus" /\ ~(checkout.taxonomy = "resolves" /\ checkout.docs)
  /\ Say(AllNotRun(CheckerGates,
                   IF checkout.taxonomy = "resolves" THEN NotApplied ELSE Unavailable))
  /\ step' = "done"
  /\ UNCHANGED checkout

Corpus ==
  /\ step = "corpus" /\ checkout.taxonomy = "resolves" /\ checkout.docs
  /\ step' = "frontmatter"
  /\ UNCHANGED <<checkout, gates>>

Frontmatter ==
  /\ step = "frontmatter"
  /\ Say(One("frontmatter_check", Verdict("frontmatter_check")))
  /\ step' = "registry"
  /\ UNCHANGED checkout

(* _registry_gate: the checkout is the registry, or a consumer of one.     *)
RegistryVerdict ==
  IF checkout.exit["registry_check"] = "absent" THEN Unavailable
  ELSE IF checkout.registry THEN Verdict("registry_check")
  ELSE IF ~checkout.records THEN NotApplied
  ELSE IF ~checkout.index THEN Unavailable
  ELSE Verdict("registry_check")

Registry ==
  /\ step = "registry"
  /\ Say(One("registry_check", RegistryVerdict))
  /\ step' = "agents"
  /\ UNCHANGED checkout

(* _agent_gates                                                            *)
AgentVerdicts ==
  IF ~checkout.agents THEN AllNotRun(AgentGates, NotApplied)
  ELSE IF ~checkout.tools THEN AllNotRun(AgentGates, Unavailable)
  ELSE [c \in AgentGates |-> Verdict(c)]

(* A defect to check against: the gates of an absent layer are left out.   *)
AgentsWhereThereAreSome ==
  /\ step = "agents"
  /\ IF checkout.agents THEN Say(AgentVerdicts) ELSE UNCHANGED gates
  /\ step' = "done"
  /\ UNCHANGED checkout

Agents ==
  /\ step = "agents"
  /\ Say(AgentVerdicts)
  /\ step' = "done"
  /\ UNCHANGED checkout

Next ==
  \/ NoCheckout \/ FirstGeneration \/ Links \/ LinksRaise \/ Preservation
  \/ NoCorpus \/ Corpus \/ Frontmatter \/ Registry \/ Agents

Spec == Init /\ [][Next]_vars

-----------------------------------------------------------------------------
(* Properties.                                                             *)

(* TRUE_DONE over a checkout that holds documentation is backed by         *)
(* everything the checkout holds: each part that one of the gates is built *)
(* for was reached, read to the end and found clean, and nothing was       *)
(* skipped because a checker, a tool, an index, a base or a bridge was not *)
(* there.  "TRUE_DONE needs every applicable gate to have passed and at    *)
(* least one of them to have run."                                         *)
AgentLayerClean ==
  checkout.agents =>
    checkout.tools /\ \A c \in AgentGates : checkout.exit[c] = "clean"

RecordsClean ==
  checkout.registry \/ checkout.records =>
    /\ checkout.exit["registry_check"] = "clean"
    /\ checkout.registry \/ checkout.index

SemanticsClean ==
  Second =>
    /\ checkout.stubs \in {"none", "right"}
    /\ checkout.stubs = "right" => checkout.bridge = "usable"
    /\ checkout.preserve # "malformed"
    /\ checkout.preserve = "patterns" => checkout.base /\ checkout.kept # "changed"

TrueDoneIsBacked ==
  step = "done" /\ Outcome = "TRUE_DONE" /\ checkout.docs =>
    /\ checkout.there /\ checkout.taxonomy = "resolves"
    /\ checkout.exit["frontmatter_check"] = "clean"
    /\ AgentLayerClean /\ RecordsClean /\ SemanticsClean

(* FALSE_DONE rests on a finding about the checkout, and never on a        *)
(* checker, a tool or a bridge that failed.                                *)
FalseDoneIsGrounded ==
  step = "done" /\ Outcome = "FALSE_DONE" =>
    \/ \E c \in CheckerGates : checkout.docs /\ checkout.exit[c] = "findings"
    \/ checkout.preserve = "patterns" /\ checkout.kept = "changed"
    \/ checkout.stubs = "wrong"

(* "A judgement always carries the same gates whether or not any of them   *)
(* could run": a gate that disappears reads as one that did not apply.     *)
SameGates == step = "done" => DOMAIN gates = Names

(* "An empty or absent corpus never reaches a gate ... a checkout holding  *)
(* nothing would otherwise be judged clean.  That is the one verdict an    *)
(* instrument must never return about nothing."                            *)
EmptyIsNeverClean ==
  step = "done" /\ checkout.taxonomy = "resolves" /\ ~checkout.docs => Outcome # "TRUE_DONE"

=============================================================================
