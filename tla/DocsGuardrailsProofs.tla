------------------------ MODULE DocsGuardrailsProofs ------------------------
(***************************************************************************)
(* For every set of checkouts: a judgement always carries its gates, its   *)
(* TRUE_DONE is backed by everything the checkout holds, and its           *)
(* FALSE_DONE by a finding.                                                *)
(*                                                                         *)
(* The invariant says which gates have been asked at each step, and what   *)
(* each of them can have said, given the facts.  The two theorems about    *)
(* the outcome follow from it and from OutcomeOf alone.                    *)
(***************************************************************************)
EXTENDS DocsGuardrails, TLAPS

CorpusFound == checkout.taxonomy = "resolves" /\ checkout.docs

SemanticAsked == IF Second THEN SemanticGates ELSE {}

Asked ==
  CASE step = "begin"        -> {}
    [] step = "traceback"    -> {}
    [] step = "preservation" -> {"adr_links_resolve"}
    [] step = "corpus"       -> SemanticAsked
    [] step = "frontmatter"  -> SemanticAsked
    [] step = "registry"     -> SemanticAsked \cup {"frontmatter_check"}
    [] step = "agents"       -> SemanticAsked \cup {"frontmatter_check", "registry_check"}
    [] OTHER                 -> Names

SaidWithoutCorpus == IF checkout.taxonomy = "resolves" THEN NotApplied ELSE Unavailable

LinksSaid ==
  "adr_links_resolve" \in DOMAIN gates => gates["adr_links_resolve"] \in LinkVerdicts

PreservationSaid ==
  "content_preserved" \in DOMAIN gates => gates["content_preserved"] = Preserved

CheckersSaid ==
  IF CorpusFound
  THEN /\ "frontmatter_check" \in DOMAIN gates =>
            gates["frontmatter_check"] = Verdict("frontmatter_check")
       /\ "registry_check" \in DOMAIN gates => gates["registry_check"] = RegistryVerdict
       /\ \A c \in AgentGates : c \in DOMAIN gates => gates[c] = AgentVerdicts[c]
  ELSE \A c \in CheckerGates : c \in DOMAIN gates => gates[c] = SaidWithoutCorpus

Reached ==
  /\ step = "preservation" => Second
  /\ step \in {"frontmatter", "registry", "agents"} => CorpusFound
  /\ LinksSaid /\ PreservationSaid /\ CheckersSaid

Inv ==
  /\ checkout \in Facts
  /\ step \in {"begin", "preservation", "corpus", "frontmatter", "registry", "agents", "done",
               "traceback"}
  /\ DOMAIN gates = Asked
  /\ IF checkout.there THEN Reached
     ELSE step \in {"begin", "done"} /\ \A c \in DOMAIN gates : gates[c] = Unavailable

(* What a gate adds to what was said before it.                            *)
LEMMA Adding ==
  ASSUME NEW said, Say(said)
  PROVE  /\ DOMAIN gates' = DOMAIN said \cup DOMAIN gates
         /\ \A c \in DOMAIN said : gates'[c] = said[c]
         /\ \A c \in DOMAIN gates \ DOMAIN said : gates'[c] = gates[c]
BY DEF Say

(* The same, of one gate.                                                  *)
LEMMA AddingOne ==
  ASSUME NEW c, NEW v, Say(One(c, v))
  PROVE  /\ DOMAIN gates' = {c} \cup DOMAIN gates
         /\ gates'[c] = v
         /\ \A d \in DOMAIN gates \ {c} : gates'[d] = gates[d]
BY DEF Say, One

(* The invariant holds before a gate is asked.                             *)
LEMMA InvInit == Init => Inv
BY CheckoutAssumption DEF Init, Inv, Asked, Reached, LinksSaid, PreservationSaid, CheckersSaid

(* The facts a step leaves alone leave alone what depends on them only.    *)
LEMMA FactsStand ==
  ASSUME UNCHANGED checkout
  PROVE  /\ CorpusFound' = CorpusFound /\ Second' = Second /\ Names' = Names
         /\ LinkVerdicts' = LinkVerdicts /\ Preserved' = Preserved
         /\ RegistryVerdict' = RegistryVerdict /\ AgentVerdicts' = AgentVerdicts
         /\ SaidWithoutCorpus' = SaidWithoutCorpus /\ SemanticAsked' = SemanticAsked
         /\ \A c : Verdict(c)' = Verdict(c)
BY DEF CorpusFound, Second, Names, LinkVerdicts, CanAskRegistry, Preserved, RegistryVerdict,
       AgentVerdicts, SaidWithoutCorpus, SemanticAsked, Verdict, AllNotRun

(* Every step keeps the invariant.                                         *)
LEMMA InvStep == Inv /\ [Next]_vars => Inv'
<1> SUFFICES ASSUME Inv, [Next]_vars PROVE Inv'
  OBVIOUS
<1> USE DEF Inv
<1>1. CASE NoCheckout
  <2> DEFINE said == AllNotRun(Names, Unavailable)
  <2>1. DOMAIN said = Names /\ \A c \in Names : said[c] = Unavailable
    BY DEF AllNotRun
  <2>2. DOMAIN gates = {}
    BY <1>1 DEF NoCheckout, Asked
  <2>3. DOMAIN gates' = Names /\ \A c \in DOMAIN gates' : gates'[c] = Unavailable
    <3> HIDE DEF said
    <3>1. Say(said)
      BY <1>1 DEF NoCheckout, said
    <3> QED BY <2>1, <2>2, <3>1, Adding
  <2>4. UNCHANGED checkout /\ step' = "done"
    BY <1>1 DEF NoCheckout
  <2> QED BY <1>1, <2>3, <2>4, FactsStand DEF NoCheckout, Asked
<1>2. CASE FirstGeneration
  <2>1. UNCHANGED <<checkout, gates>> /\ step' = "corpus" /\ step = "begin"
    BY <1>2 DEF FirstGeneration
  <2>2. checkout.there /\ ~Second
    BY <1>2 DEF FirstGeneration
  <2>3. DOMAIN gates' = {} /\ Asked' = {}
    BY <2>1, <2>2, FactsStand DEF Asked, SemanticAsked
  <2> QED BY <2>1, <2>2, <2>3 DEF Reached, LinksSaid, PreservationSaid, CheckersSaid
<1>3. CASE Links
  <2>1. checkout.there /\ Second /\ step = "begin" /\ step' = "preservation"
        /\ UNCHANGED checkout
    BY <1>3 DEF Links
  <2>2. PICK v \in LinkVerdicts : Say(One("adr_links_resolve", v))
    BY <1>3 DEF Links
  <2>3. DOMAIN gates' = {"adr_links_resolve"} /\ gates'["adr_links_resolve"] = v
    BY <2>1, <2>2, AddingOne DEF Asked
  <2>4. Asked' = {"adr_links_resolve"}
    BY <2>1 DEF Asked
  <2>5. LinksSaid' /\ PreservationSaid' /\ CheckersSaid'
    BY <2>1, <2>2, <2>3, FactsStand
       DEF LinksSaid, PreservationSaid, CheckersSaid, AgentGates, CheckerGates
  <2> QED BY <2>1, <2>3, <2>4, <2>5, FactsStand DEF Reached
<1>4. CASE Preservation
  <2>1. step = "preservation" /\ step' = "corpus" /\ UNCHANGED checkout
        /\ Say(One("content_preserved", Preserved))
    BY <1>4 DEF Preservation
  <2>2. checkout.there /\ Second /\ Reached
    BY <2>1 DEF Reached
  <2>3. DOMAIN gates = {"adr_links_resolve"}
    BY <2>1 DEF Asked
  <2>4. /\ DOMAIN gates' = SemanticGates
        /\ gates'["content_preserved"] = Preserved
        /\ gates'["adr_links_resolve"] = gates["adr_links_resolve"]
    BY <2>1, <2>3, AddingOne, ZenonT(30) DEF SemanticGates
  <2>5. Asked' = SemanticGates
    BY <2>1, <2>2, FactsStand DEF Asked, SemanticAsked
  <2>6. LinksSaid' /\ PreservationSaid' /\ CheckersSaid'
    BY <2>1, <2>2, <2>3, <2>4, FactsStand
       DEF Reached, LinksSaid, PreservationSaid, CheckersSaid, AgentGates, CheckerGates,
           SemanticGates
  <2> QED BY <2>1, <2>2, <2>4, <2>5, <2>6 DEF Reached
<1>5. CASE NoCorpus
  <2> DEFINE said == AllNotRun(CheckerGates, SaidWithoutCorpus)
  <2>1. step = "corpus" /\ step' = "done" /\ UNCHANGED checkout /\ ~CorpusFound
    BY <1>5 DEF NoCorpus, CorpusFound
  <2>2. checkout.there /\ Reached
    BY <2>1 DEF Reached
  <2>3. DOMAIN gates = SemanticAsked
    BY <2>1 DEF Asked
  <2>4. DOMAIN said = CheckerGates /\ \A c \in CheckerGates : said[c] = SaidWithoutCorpus
    BY DEF AllNotRun
  <2>5. /\ DOMAIN gates' = CheckerGates \cup SemanticAsked
        /\ \A c \in CheckerGates : gates'[c] = SaidWithoutCorpus
        /\ \A c \in SemanticAsked \ CheckerGates : gates'[c] = gates[c]
    <3>1. Say(said)
      BY <1>5 DEF NoCorpus, SaidWithoutCorpus
    <3> HIDE DEF said
    <3> QED BY <2>3, <2>4, <3>1, Adding
  <2>6. Asked' = DOMAIN gates'
    BY <2>1, <2>5, FactsStand DEF Asked, Names, SemanticAsked
  <2>7. LinksSaid' /\ PreservationSaid'
    BY <2>1, <2>2, <2>3, <2>5, FactsStand
       DEF Reached, LinksSaid, PreservationSaid, AgentGates, CheckerGates, SemanticAsked,
           SemanticGates
  <2>8. CheckersSaid'
    BY <2>1, <2>5, FactsStand DEF CheckersSaid
  <2> QED BY <2>1, <2>2, <2>6, <2>7, <2>8 DEF Reached
<1>6. CASE Corpus
  <2>1. step = "corpus" /\ step' = "frontmatter" /\ UNCHANGED <<checkout, gates>> /\ CorpusFound
    BY <1>6 DEF Corpus, CorpusFound
  <2>2. checkout.there /\ Reached
    BY <2>1 DEF Reached
  <2>3. Asked' = Asked
    BY <2>1, FactsStand DEF Asked
  <2>4. LinksSaid' /\ PreservationSaid' /\ CheckersSaid'
    BY <2>1, <2>2, FactsStand DEF Reached, LinksSaid, PreservationSaid, CheckersSaid
  <2> QED BY <2>1, <2>2, <2>3, <2>4, FactsStand DEF Reached
<1>7. CASE Frontmatter
  <2>1. step = "frontmatter" /\ step' = "registry" /\ UNCHANGED checkout
        /\ Say(One("frontmatter_check", Verdict("frontmatter_check")))
    BY <1>7 DEF Frontmatter
  <2>2. checkout.there /\ Reached /\ CorpusFound
    BY <2>1 DEF Reached
  <2>3. DOMAIN gates = SemanticAsked
    BY <2>1 DEF Asked
  <2>4. /\ DOMAIN gates' = SemanticAsked \cup {"frontmatter_check"}
        /\ gates'["frontmatter_check"] = Verdict("frontmatter_check")
        /\ \A c \in SemanticAsked : gates'[c] = gates[c]
    BY <2>1, <2>3, AddingOne DEF SemanticAsked, SemanticGates
  <2>5. Asked' = DOMAIN gates'
    BY <2>1, <2>4, FactsStand DEF Asked
  <2>6. LinksSaid' /\ PreservationSaid' /\ CheckersSaid'
    BY <2>1, <2>2, <2>3, <2>4, FactsStand
       DEF Reached, LinksSaid, PreservationSaid, CheckersSaid, AgentGates, SemanticAsked,
           SemanticGates
  <2> QED BY <2>1, <2>2, <2>5, <2>6, FactsStand DEF Reached
<1>8. CASE Registry
  <2>1. step = "registry" /\ step' = "agents" /\ UNCHANGED checkout
        /\ Say(One("registry_check", RegistryVerdict))
    BY <1>8 DEF Registry
  <2>2. checkout.there /\ Reached /\ CorpusFound
    BY <2>1 DEF Reached
  <2>3. DOMAIN gates = SemanticAsked \cup {"frontmatter_check"}
    BY <2>1 DEF Asked
  <2>4. /\ DOMAIN gates' = SemanticAsked \cup {"frontmatter_check", "registry_check"}
        /\ gates'["registry_check"] = RegistryVerdict
        /\ \A c \in SemanticAsked \cup {"frontmatter_check"} : gates'[c] = gates[c]
    BY <2>1, <2>3, AddingOne, ZenonT(30) DEF SemanticAsked, SemanticGates
  <2>5. Asked' = DOMAIN gates'
    BY <2>1, <2>4, FactsStand DEF Asked
  <2>6. LinksSaid' /\ PreservationSaid' /\ CheckersSaid'
    BY <2>1, <2>2, <2>3, <2>4, FactsStand
       DEF Reached, LinksSaid, PreservationSaid, CheckersSaid, AgentGates, SemanticAsked,
           SemanticGates
  <2> QED BY <2>1, <2>2, <2>5, <2>6, FactsStand DEF Reached
<1>9. CASE Agents
  <2>1. step = "agents" /\ step' = "done" /\ UNCHANGED checkout /\ Say(AgentVerdicts)
    BY <1>9 DEF Agents
  <2>2. checkout.there /\ Reached /\ CorpusFound
    BY <2>1 DEF Reached
  <2>3. DOMAIN gates = SemanticAsked \cup {"frontmatter_check", "registry_check"}
    BY <2>1 DEF Asked
  <2>4. DOMAIN AgentVerdicts = AgentGates
    BY DEF AgentVerdicts, AllNotRun
  <2>5. /\ DOMAIN gates' = CheckerGates \cup SemanticAsked
        /\ \A c \in AgentGates : gates'[c] = AgentVerdicts[c]
        /\ \A c \in DOMAIN gates \ AgentGates : gates'[c] = gates[c]
    BY <2>1, <2>3, <2>4, Adding DEF CheckerGates
  <2>6. Asked' = DOMAIN gates'
    BY <2>1, <2>5, FactsStand DEF Asked, Names, SemanticAsked
  <2>7. LinksSaid' /\ PreservationSaid' /\ CheckersSaid'
    BY <2>1, <2>2, <2>3, <2>5, FactsStand
       DEF Reached, LinksSaid, PreservationSaid, CheckersSaid, AgentGates, SemanticAsked,
           SemanticGates, CheckerGates
  <2> QED BY <2>1, <2>2, <2>6, <2>7, FactsStand DEF Reached
<1>10. CASE LinksRaise
  <2>1. UNCHANGED <<checkout, gates>> /\ step' = "traceback" /\ step = "begin" /\ checkout.there
    BY <1>10 DEF LinksRaise
  <2>2. Asked' = {} /\ DOMAIN gates' = {}
    BY <2>1 DEF Asked
  <2> QED BY <2>1, <2>2 DEF Reached, LinksSaid, PreservationSaid, CheckersSaid
<1>11. CASE UNCHANGED vars
  BY <1>11, FactsStand
     DEF vars, Asked, Reached, LinksSaid, PreservationSaid, CheckersSaid
<1> QED BY <1>1, <1>2, <1>3, <1>4, <1>5, <1>6, <1>7, <1>8, <1>9, <1>10, <1>11 DEF Next

(* The invariant holds throughout every judgement.                         *)
THEOREM Invariance == Spec => []Inv
<1>1. Init => Inv
  BY InvInit
<1>2. Inv /\ [Next]_vars => Inv'
  BY InvStep
<1> QED BY <1>1, <1>2, PTL DEF Spec

-----------------------------------------------------------------------------
(* What an outcome says of the gates it was composed from.                 *)
LEMMA TrueDone ==
  Outcome = "TRUE_DONE" =>
    /\ \A c \in DOMAIN gates : gates[c].result # "fail" /\ gates[c].available
    /\ \E c \in DOMAIN gates : gates[c].result = "pass"
BY DEF Outcome, OutcomeOf

(* FALSE_DONE has a gate that failed.                                      *)
LEMMA FalseDone ==
  Outcome = "FALSE_DONE" => \E c \in DOMAIN gates : gates[c].result = "fail"
BY DEF Outcome, OutcomeOf

(* The four things a gate can say, apart.                                  *)
LEMMA Said ==
  /\ Passed \in Gate /\ Failed \in Gate /\ NotApplied \in Gate /\ Unavailable \in Gate
  /\ Passed.result = "pass" /\ Failed.result = "fail"
  /\ NotApplied.result = "not-run" /\ Unavailable.result = "not-run"
  /\ ~Unavailable.available
BY DEF Gate, Results, Passed, Failed, NotApplied, Unavailable

(* What the facts of a judgement range over.                               *)
LEMMA FactFields ==
  ASSUME checkout \in Facts
  PROVE  /\ checkout.registry \in BOOLEAN /\ checkout.records \in BOOLEAN
         /\ checkout.index \in BOOLEAN /\ checkout.base \in BOOLEAN
         /\ checkout.preserve \in {"nothing", "malformed", "patterns"}
         /\ checkout.kept \in {"none", "intact", "changed"}
         /\ checkout.bridge \in {"none", "unusable", "usable"}
         /\ checkout.stubs \in {"none", "right", "wrong", "untitled"}
BY DEF Facts

(* What the gates of their own say, one reading of the facts at a time.    *)
LEMMA LinksSay ==
  ASSUME checkout \in Facts, NEW v \in LinkVerdicts
  PROVE  /\ v \in Gate
         /\ v.result = "fail" => checkout.stubs = "wrong"
         /\ v.result # "fail" /\ v.available =>
              /\ checkout.stubs \in {"none", "right"}
              /\ checkout.stubs = "right" => checkout.bridge = "usable"
BY Said, FactFields DEF LinkVerdicts, CanAskRegistry

(* preservation.gate fails only over a changed file and hides nothing it   *)
(* could not read.                                                         *)
LEMMA PreservationSays ==
  ASSUME checkout \in Facts
  PROVE  /\ Preserved \in Gate
         /\ Preserved.result = "fail" =>
              checkout.preserve = "patterns" /\ checkout.kept = "changed"
         /\ Preserved.result # "fail" /\ Preserved.available =>
              /\ checkout.preserve # "malformed"
              /\ checkout.preserve = "patterns" => checkout.base /\ checkout.kept # "changed"
BY Said, FactFields DEF Preserved

(* registry_check is out of reach, not applied where there are no records, *)
(* or the word of its checker over a registry or an index.                 *)
LEMMA RegistrySays ==
  ASSUME checkout \in Facts
  PROVE  \/ RegistryVerdict = Unavailable
         \/ RegistryVerdict = NotApplied /\ ~checkout.registry /\ ~checkout.records
         \/ /\ RegistryVerdict = Verdict("registry_check")
            /\ checkout.registry \/ checkout.index
BY FactFields DEF RegistryVerdict

(* A checker that says neither a failure nor that it was out of reach      *)
(* exited clean.                                                           *)
LEMMA CleanVerdict ==
  ASSUME NEW c, Verdict(c).result # "fail", Verdict(c).available
  PROVE  checkout.exit[c] = "clean"
BY DEF Verdict, Passed, Failed, Unavailable

(* Type correctness.                                                       *)
THEOREM TypeCorrect == Spec => []TypeOK
<1>1. Inv => TypeOK
  <2> SUFFICES ASSUME Inv PROVE TypeOK
    OBVIOUS
  <2>1. DOMAIN gates \subseteq Names
    BY DEF Inv, Reached, Asked, Names, SemanticAsked, SemanticGates, CheckerGates
  <2>2. \A c \in DOMAIN gates : gates[c] \in Gate
    <3>1. CASE ~checkout.there
      BY <3>1, Said DEF Inv
    <3>2. CASE checkout.there
      <4>1. Reached
        BY <3>2 DEF Inv
      <4>2. "adr_links_resolve" \in DOMAIN gates => gates["adr_links_resolve"] \in Gate
        BY <4>1, LinksSay DEF Inv, Reached, LinksSaid
      <4>3. "content_preserved" \in DOMAIN gates => gates["content_preserved"] \in Gate
        BY <4>1, PreservationSays DEF Inv, Reached, PreservationSaid
      <4>4. \A c \in CheckerGates : c \in DOMAIN gates => gates[c] \in Gate
        <5>1. \A c : Verdict(c) \in Gate
          BY Said DEF Verdict
        <5>2. RegistryVerdict \in Gate
          BY <5>1, Said, RegistrySays DEF Inv
        <5>3. \A c \in AgentGates : AgentVerdicts[c] \in Gate
          BY <5>1, Said DEF AgentVerdicts, AllNotRun
        <5>4. SaidWithoutCorpus \in Gate
          BY Said DEF SaidWithoutCorpus
        <5> QED BY <4>1, <5>1, <5>2, <5>3, <5>4 DEF Reached, CheckersSaid, CheckerGates
      <4> QED BY <2>1, <4>2, <4>3, <4>4 DEF Names, SemanticGates
    <3> QED BY <3>1, <3>2
  <2> QED BY <2>1, <2>2 DEF Inv, TypeOK
<1> QED BY <1>1, Invariance, PTL

(* A judgement carries the same gates whether or not any of them could     *)
(* run.                                                                    *)
THEOREM CarriesItsGates == Spec => []SameGates
<1>1. Inv => SameGates
  BY DEF Inv, Asked, SameGates
<1> QED BY <1>1, Invariance, PTL

(* TRUE_DONE over a checkout with documentation is backed by everything    *)
(* the checkout holds.                                                     *)
THEOREM TrueIsBacked == Spec => []TrueDoneIsBacked
<1>1. Inv => TrueDoneIsBacked
  <2> SUFFICES ASSUME Inv, step = "done", Outcome = "TRUE_DONE", checkout.docs
               PROVE  /\ checkout.there /\ checkout.taxonomy = "resolves"
                      /\ checkout.exit["frontmatter_check"] = "clean"
                      /\ AgentLayerClean /\ RecordsClean /\ SemanticsClean
    BY DEF TrueDoneIsBacked
  <2>1. DOMAIN gates = Names
    BY DEF Inv, Asked
  <2>2. \A c \in Names : gates[c].result # "fail" /\ gates[c].available
    BY <2>1, TrueDone
  <2>3. CheckerGates \subseteq Names /\ (Second => SemanticGates \subseteq Names)
    BY DEF Names
  <2>4. "frontmatter_check" \in CheckerGates /\ "registry_check" \in CheckerGates
        /\ AgentGates \subseteq CheckerGates
    BY DEF CheckerGates
  <2>5. checkout.there
    BY <2>1, <2>2, <2>3, <2>4 DEF Inv, Unavailable
  <2>6. LinksSaid /\ PreservationSaid /\ CheckersSaid
    BY <2>5 DEF Inv, Reached
  <2>7. CorpusFound
    <3> SUFFICES ASSUME ~CorpusFound PROVE FALSE
      OBVIOUS
    <3>1. checkout.taxonomy # "resolves"
      BY DEF CorpusFound
    <3>2. gates["frontmatter_check"] = Unavailable
      BY <2>1, <2>3, <2>4, <2>6, <3>1 DEF CheckersSaid, SaidWithoutCorpus
    <3> QED BY <2>2, <2>3, <2>4, <3>2 DEF Unavailable
  <2>8. checkout.exit["frontmatter_check"] = "clean"
    BY <2>1, <2>2, <2>3, <2>4, <2>6, <2>7, CleanVerdict DEF CheckersSaid
  <2>9. AgentLayerClean
    <3> SUFFICES ASSUME checkout.agents, NEW c \in AgentGates
                 PROVE  checkout.tools /\ checkout.exit[c] = "clean"
      BY DEF AgentLayerClean, AgentGates
    <3>1. gates[c] = AgentVerdicts[c]
      BY <2>1, <2>3, <2>4, <2>6, <2>7 DEF CheckersSaid
    <3>2. checkout.tools
      BY <2>2, <2>3, <2>4, <3>1 DEF AgentVerdicts, AllNotRun, Unavailable
    <3>3. gates[c] = Verdict(c)
      BY <3>1, <3>2 DEF AgentVerdicts
    <3> QED BY <2>2, <2>3, <2>4, <3>2, <3>3, CleanVerdict
  <2>10. RecordsClean
    <3> SUFFICES ASSUME checkout.registry \/ checkout.records
                 PROVE  /\ checkout.exit["registry_check"] = "clean"
                        /\ checkout.registry \/ checkout.index
      BY DEF RecordsClean
    <3>1. gates["registry_check"] = RegistryVerdict
      BY <2>1, <2>3, <2>4, <2>6, <2>7 DEF CheckersSaid
    <3>2. RegistryVerdict.available
      BY <2>2, <2>3, <2>4, <3>1
    <3>3. RegistryVerdict = Verdict("registry_check") /\ (checkout.registry \/ checkout.index)
      BY <3>2, Said, RegistrySays DEF Inv
    <3> QED BY <2>2, <2>3, <2>4, <3>1, <3>3, CleanVerdict
  <2>11. SemanticsClean
    <3> SUFFICES ASSUME Second PROVE SemanticsClean
      BY DEF SemanticsClean
    <3>1. gates["adr_links_resolve"] \in LinkVerdicts /\ gates["content_preserved"] = Preserved
      BY <2>1, <2>3, <2>6 DEF LinksSaid, PreservationSaid, SemanticGates
    <3>2. \A c \in SemanticGates : gates[c].result # "fail" /\ gates[c].available
      BY <2>2, <2>3
    <3>3. /\ checkout.stubs \in {"none", "right"}
          /\ checkout.stubs = "right" => checkout.bridge = "usable"
      BY <3>1, <3>2, LinksSay DEF Inv, SemanticGates
    <3>4. /\ checkout.preserve # "malformed"
          /\ checkout.preserve = "patterns" => checkout.base /\ checkout.kept # "changed"
      BY <3>1, <3>2, PreservationSays DEF Inv, SemanticGates
    <3> QED BY <3>3, <3>4 DEF SemanticsClean
  <2> QED BY <2>5, <2>7, <2>8, <2>9, <2>10, <2>11 DEF CorpusFound
<1> QED BY <1>1, Invariance, PTL

(* FALSE_DONE rests on a finding, and never on an instrument that failed.  *)
THEOREM FalseIsGrounded == Spec => []FalseDoneIsGrounded
<1>1. Inv => FalseDoneIsGrounded
  <2> SUFFICES ASSUME Inv, step = "done", Outcome = "FALSE_DONE"
               PROVE  \/ \E c \in CheckerGates : checkout.docs /\ checkout.exit[c] = "findings"
                      \/ checkout.preserve = "patterns" /\ checkout.kept = "changed"
                      \/ checkout.stubs = "wrong"
    BY DEF FalseDoneIsGrounded
  <2>1. PICK c \in DOMAIN gates : gates[c].result = "fail"
    BY FalseDone
  <2>2. c \in CheckerGates \cup SemanticGates
    BY DEF Inv, Asked, Names
  <2>3. checkout.there
    BY <2>1 DEF Inv, Unavailable
  <2>4. LinksSaid /\ PreservationSaid /\ CheckersSaid
    BY <2>3 DEF Inv, Reached
  <2>5. CASE c \in SemanticGates
    <3>1. CASE c = "adr_links_resolve"
      BY <2>1, <2>4, <3>1, LinksSay DEF Inv, LinksSaid
    <3>2. CASE c = "content_preserved"
      BY <2>1, <2>4, <3>2, PreservationSays DEF Inv, PreservationSaid
    <3> QED BY <2>5, <3>1, <3>2 DEF SemanticGates
  <2>6. CASE c \in CheckerGates
    <3>1. CorpusFound
      BY <2>1, <2>4, <2>6 DEF CheckersSaid, SaidWithoutCorpus, NotApplied, Unavailable
    <3>2. gates[c] = Verdict(c)
      <4>1. CASE c = "frontmatter_check"
        BY <2>4, <3>1, <4>1 DEF CheckersSaid
      <4>2. CASE c = "registry_check"
        BY <2>1, <2>4, <3>1, <4>2, Said, RegistrySays DEF Inv, CheckersSaid
      <4>3. CASE c \in AgentGates
        <5>1. gates[c] = AgentVerdicts[c]
          BY <2>4, <3>1, <4>3 DEF CheckersSaid
        <5> QED BY <2>1, <4>3, <5>1 DEF AgentVerdicts, AllNotRun, NotApplied, Unavailable
      <4> QED BY <2>6, <4>1, <4>2, <4>3 DEF CheckerGates
    <3>3. checkout.exit[c] = "findings"
      BY <2>1, <3>2 DEF Verdict, Passed, Unavailable
    <3> QED BY <2>6, <3>1, <3>3 DEF CorpusFound
  <2> QED BY <2>2, <2>5, <2>6
<1> QED BY <1>1, Invariance, PTL
=============================================================================
