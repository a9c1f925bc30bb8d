---------------------------- MODULE Calibration ----------------------------
(***************************************************************************)
(* The calibration suites of the docs-guardrails oracle,                   *)
(* oracles/docs_mutation_v1.py and docs_mutation_v2.py, and the CI jobs    *)
(* that re-run them against the published file.                            *)
(*                                                                         *)
(* A suite breaks a corpus in ways the oracle must catch, judges each copy *)
(* and the unmutated one, and publishes what came of it.  The oracle under *)
(* calibration is any instrument: each of its gates catches some of the    *)
(* defects aimed at it and says one thing about everything else.           *)
(***************************************************************************)
EXTENDS Oracle, Mutations, SequencesExt

CONSTANTS
  Worlds,    \* what a run may meet: the tools, the bridge and the corpus
  Bridges,   \* what the stub gate does through each bridge
  MaxRuns,   \* bound: runs of a suite
  NoFile, Torn

Suites == {"v1", "v2"}

StructuralGates ==
  {"registry_check", "agents_render_check", "agents_bundle_verify", "frontmatter_check",
   "agents_file_check"}

(* MUTANTS: the gate each is aimed at, and the outcome it must have.       *)
Mutant(gate, expected) == [gate |-> gate, expected |-> expected]

FirstMutants ==
  <<Mutant("registry_check", "FALSE_DONE"),        Mutant("registry_check", "FALSE_DONE"),
    Mutant("agents_render_check", "FALSE_DONE"),   Mutant("agents_bundle_verify", "FALSE_DONE"),
    Mutant("frontmatter_check", "FALSE_DONE"),     Mutant("frontmatter_check", "FALSE_DONE"),
    Mutant("agents_file_check", "FALSE_DONE"),     Mutant("every gate", "UNKNOWN")>>

Mutants ==
  [v1 |-> FirstMutants,
   v2 |-> FirstMutants \o <<Mutant("content_preserved", "FALSE_DONE"),
                            Mutant("adr_links_resolve", "FALSE_DONE"),
                            Mutant("adr_links_resolve", "UNKNOWN")>>]

Names == [v1 |-> StructuralGates,
          v2 |-> StructuralGates \cup {"content_preserved", "adr_links_resolve"}]

(* The mutants aimed at a gate.                                            *)
AimedAt == [g \in Names.v2 |-> {i \in DOMAIN Mutants.v2 : Mutants.v2[i].gate = g}]

Behaviours == [catches : SUBSET DOMAIN Mutants.v2, otherwise : Gate]

(* What is judged: the copy of a mutant by the mutant's number, the         *)
(* unmutated copy, and the two probes of the eighth.                       *)
Clean == 0
Emptied == 8
Absent == 12
Applied == DOMAIN Mutants.v2 \ {8}

ASSUME WorldsAssumption ==
  \A w \in Worlds :
    /\ w.gates \in [Names.v2 \ {"adr_links_resolve"} -> Behaviours]
    /\ w.refuses \subseteq {Emptied, Absent}   \* it says nothing was judged there
    /\ w.bridge \in DOMAIN Bridges
    /\ w.resolves \in BOOLEAN     \* the ref, or HEAD, names a commit of the corpus
    /\ w.corpus \in Corpora
    /\ BrokenRules(w.corpus) = {}  \* of a corpus that is not clean a gate always fails
    /\ w.corpus.stub = NoStub      \* the registry's own corpus holds none
    /\ w.corpus.index # NoIndex => \* and has one row for a number
         \A i, j \in IndexRows(w.corpus) :
           w.corpus.index[i].number = w.corpus.index[j].number => i = j

ASSUME BridgesAssumption == \A b \in DOMAIN Bridges : Bridges[b] \in Behaviours

ASSUME MaxRunsAssumption == MaxRuns \in Nat

VARIABLES
  world,
  runs,      \* how many runs were started
  run,       \* the run: its suite, whether it checks, who runs it, and the bridge
  phase,
  next,      \* the mutant it is about to build
  clean,     \* whether the unmutated copy was judged as it must be
  rows,      \* the published table
  result,
  published, \* the published file of each suite
  exit

vars == <<world, runs, run, phase, next, clean, rows, result, published, exit>>

-----------------------------------------------------------------------------
(* The copies, and what is said of one.                                    *)

Copies == [c \in {w.corpus : w \in Worlds} |-> [i \in Applied |-> Mutated(i, c)]]

Copy(i) == Copies[world.corpus][i]

(* The gates whose rule each copy breaks.  One that is left as the corpus   *)
(* was breaks none and cannot be caught; the eleventh takes the bridge away. *)
Breaks == [c \in DOMAIN Copies |->
  [i \in Applied |-> IF Copies[c][i] = NotBuilt THEN {} ELSE BrokenRules(Copies[c][i])]]

Defects == [c \in DOMAIN Copies |->
  {i \in Applied : Copies[c][i] # NotBuilt /\ (i = 11 \/ Breaks[c][i] # {})}]

BehaviourOf(g) == IF g = "adr_links_resolve" THEN Bridges[run.bridge] ELSE world.gates[g]

(* The semantic gates have something to read where the suite put it.       *)
Applies(g, copy) ==
  \/ g \in StructuralGates
  \/ g = "content_preserved" /\ copy \in {Clean, 9}
  \/ g = "adr_links_resolve" /\ copy \in {Clean, 10, 11}

Says(g, copy) ==
  IF ~Applies(g, copy) THEN NotApplied
  ELSE IF copy \notin BehaviourOf(g).catches \cap Defects[world.corpus] THEN BehaviourOf(g).otherwise
  ELSE IF Mutants.v2[copy].expected = "FALSE_DONE" THEN Failed
  ELSE Unavailable

Judgement(copy) ==
  [g \in Names[run.suite] |->
     IF copy \in world.refuses
     THEN IF copy = Emptied THEN NotApplied ELSE Unavailable
     ELSE Says(g, copy)]

-----------------------------------------------------------------------------
(* Scoring.                                                                *)

FailedGates(gates) == {g \in DOMAIN gates : gates[g].result = "fail"}

(* A defect to check against: any failure counts as the one expected.      *)
EntryByOutcome(i, gates) == OutcomeOf(gates) = Mutants.v2[i].expected

(* entry: caught by the outcome, and by the gate it is aimed at.           *)
Entry(i, gates) ==
  /\ OutcomeOf(gates) = Mutants.v2[i].expected
  /\ Mutants.v2[i].expected = "FALSE_DONE" => Mutants.v2[i].gate \in FailedGates(gates)

IsBuilt(i) == Copy(i) # NotBuilt

Row(i, ok) == [id |-> i, ok |-> ok]

(* _eighth: both probes, and none where there is nothing to remove.        *)
Eighth == Row(8, world.corpus.docs /\ \A copy \in {Emptied, Absent} : Entry(8, Judgement(copy)))

(* _instrument_unavailable: the gate itself says that it could not run.    *)
SaysUnavailable(gates, g) == ~gates[g].available

RowOf(i) ==
  IF i = 8 THEN Eighth
  ELSE Row(i, /\ IsBuilt(i)
              /\ Entry(i, Judgement(i))
              /\ i = 11 => SaysUnavailable(Judgement(i), Mutants.v2[i].gate))

CleanOk ==
  /\ OutcomeOf(Judgement(Clean)) = "TRUE_DONE"
  /\ run.suite = "v2" =>
       /\ OffersStubs(world.corpus)
       /\ \A g \in {"content_preserved", "adr_links_resolve"} :
            Judgement(Clean)[g].result = "pass"

(* tally                                                                   *)
Tally ==
  LET caught == Cardinality({i \in DOMAIN rows : rows[i].ok})
  IN [status |-> IF clean /\ caught = Len(Mutants[run.suite]) THEN "pass" ELSE "fail",
      score  |-> caught]

-----------------------------------------------------------------------------
NoRun == [suite |-> "v1", check |-> FALSE, by |-> "hand", bridge |-> CHOOSE b \in DOMAIN Bridges : TRUE]

TypeOK ==
  /\ world \in Worlds
  /\ run.suite \in Suites /\ run.check \in BOOLEAN /\ run.bridge \in DOMAIN Bridges
  /\ run.by \in {"hand", "ci"}
  /\ phase \in {"idle", "export", "clean", "mutants", "publish", "write", "compare"}
  /\ clean \in BOOLEAN
  /\ \A i \in DOMAIN rows : rows[i].id = i /\ rows[i].ok \in BOOLEAN
  /\ phase \in {"publish", "write", "compare"} =>
       result.status \in {"pass", "fail"} /\ Len(rows) = Len(Mutants[run.suite])
  /\ exit \in {"none", "0", "1", "2", "unverified", "killed"}

Init ==
  /\ world \in Worlds
  /\ runs = 0
  /\ run = NoRun
  /\ phase = "idle"
  /\ next = 1
  /\ clean = FALSE
  /\ rows = << >>
  /\ result = NoFile
  /\ published = [s \in Suites |-> NoFile]
  /\ exit = "none"

Exits(code) == phase' = "idle" /\ exit' = code

Idle == phase = "idle" /\ runs < MaxRuns

(* Between two runs a checkout, a tool or the bridge may move.             *)
Move ==
  /\ Idle /\ exit # "none"
  /\ world' \in Worlds \ {world}
  /\ exit' = "none"
  /\ UNCHANGED <<runs, run, phase, next, clean, rows, result, published>>

Begin(suite, check, by, bridge) ==
  /\ runs' = runs + 1
  /\ run' = [suite |-> suite, check |-> check, by |-> by, bridge |-> bridge]
  /\ phase' = "export"
  /\ next' = 1
  /\ clean' = FALSE
  /\ rows' = << >>
  /\ result' = NoFile
  /\ exit' = "none"
  /\ UNCHANGED <<world, published>>

(* main, run by hand: a ref or an --out it does not admit ends it.         *)
Publish(suite) == Idle /\ Begin(suite, FALSE, "hand", world.bridge)

(* With --check the second suite is run through the bridge at hand too,    *)
(* whichever the published file names, and finds out at the end whether    *)
(* there is a file; of the first this is what the job runs.                *)
CheckByHand == Idle /\ Begin("v2", TRUE, "hand", world.bridge)

Refuse(suite) ==
  /\ Idle
  /\ runs' = runs + 1
  /\ Exits("2")
  /\ UNCHANGED <<world, run, next, clean, rows, result, published>>

(* The jobs `oracle calibration` and `oracle v2 calibration`: without the  *)
(* corpus they verify nothing and say so; the second one builds the bridge *)
(* its published file names, and stops where it names none.                *)
CheckFirst == Idle /\ Begin("v1", TRUE, "ci", world.bridge)

CheckSecond ==
  /\ Idle /\ published["v2"] \notin {NoFile, Torn}
  /\ Begin("v2", TRUE, "ci", published["v2"].bridge)

CheckUnpinned ==
  /\ Idle /\ published["v2"] \in {NoFile, Torn}
  /\ runs' = runs + 1
  /\ Exits("1")
  /\ UNCHANGED <<world, run, next, clean, rows, result, published>>

CheckWithoutCorpus ==
  /\ Idle
  /\ runs' = runs + 1
  /\ Exits("unverified")
  /\ UNCHANGED <<world, run, next, clean, rows, result, published>>

(* _export, and the base commit of the second suite.                       *)
Export ==
  /\ phase = "export"
  /\ IF world.resolves THEN phase' = "clean" /\ UNCHANGED exit ELSE Exits("2")
  /\ UNCHANGED <<world, runs, run, next, clean, rows, result, published>>

JudgeClean ==
  /\ phase = "clean"
  /\ clean' = CleanOk
  /\ phase' = "mutants"
  /\ UNCHANGED <<world, runs, run, next, rows, result, published, exit>>

(* A defect to check against: a mutant that was not built leaves no row.   *)
JudgeMutantIfBuilt ==
  /\ phase = "mutants" /\ next <= Len(Mutants[run.suite])
  /\ rows' = IF next = 8 \/ IsBuilt(next) THEN Append(rows, RowOf(next)) ELSE rows
  /\ next' = next + 1
  /\ UNCHANGED <<world, runs, run, phase, clean, result, published, exit>>

JudgeMutant ==
  /\ phase = "mutants" /\ next <= Len(Mutants[run.suite])
  /\ rows' = Append(rows, RowOf(next))
  /\ next' = next + 1
  /\ UNCHANGED <<world, runs, run, phase, clean, result, published, exit>>

Score ==
  /\ phase = "mutants" /\ next > Len(Mutants[run.suite])
  /\ result' = [status |-> Tally.status, score |-> Tally.score,
                world |-> world, bridge |-> run.bridge]
  /\ phase' = IF run.check THEN "compare" ELSE "publish"
  /\ UNCHANGED <<world, runs, run, next, clean, rows, published, exit>>

(* The file is opened to be written over, and then written.                *)
Open ==
  /\ phase = "publish"
  /\ published' = [published EXCEPT ![run.suite] = Torn]
  /\ phase' = "write"
  /\ UNCHANGED <<world, runs, run, next, clean, rows, result, exit>>

Write ==
  /\ phase = "write"
  /\ published' = [published EXCEPT ![run.suite] = result]
  /\ Exits(IF result.status = "pass" THEN "0" ELSE "1")
  /\ UNCHANGED <<world, runs, run, next, clean, rows, result>>

Recomputed ==
  LET file == published[run.suite]
  IN /\ file \notin {NoFile, Torn}
     /\ file.status = result.status /\ file.score = result.score

(* A defect to check against: agreeing is enough.                          *)
CompareOnly ==
  /\ phase = "compare"
  /\ Exits(IF Recomputed THEN "0" ELSE "1")
  /\ UNCHANGED <<world, runs, run, next, clean, rows, result, published>>

(* --check                                                                 *)
Compare ==
  /\ phase = "compare"
  /\ Exits(IF Recomputed /\ result.status = "pass" THEN "0" ELSE "1")
  /\ UNCHANGED <<world, runs, run, next, clean, rows, result, published>>

Killed ==
  /\ phase # "idle"
  /\ Exits("killed")
  /\ UNCHANGED <<world, runs, run, next, clean, rows, result, published>>

Next ==
  \/ Move
  \/ \E suite \in Suites : Publish(suite) \/ Refuse(suite)
  \/ CheckByHand \/ CheckFirst \/ CheckSecond \/ CheckUnpinned \/ CheckWithoutCorpus
  \/ Export \/ JudgeClean \/ JudgeMutant \/ Score \/ Open \/ Write \/ Compare \/ Killed

Spec == Init /\ [][Next]_vars

-----------------------------------------------------------------------------
(* An instrument is calibrated by what its gates are, not by what the      *)
(* suite made of them: each gate the suite aims at catches everything      *)
(* aimed at it and says no more than that nothing is wrong of anything     *)
(* else, something passes on a corpus without defects - in the second      *)
(* suite both of its gates do - and nothing is said over an empty corpus.  *)
BehavesAt(w, b, g) == IF g = "adr_links_resolve" THEN Bridges[b] ELSE w.gates[g]

Calibrated(suite, w, b) ==
  LET gates == Names[suite]
      can(g) == BehavesAt(w, b, g).otherwise = Passed
  IN /\ \A g \in gates : /\ AimedAt[g] \subseteq BehavesAt(w, b, g).catches
                         /\ BehavesAt(w, b, g).otherwise \in {Passed, NotApplied}
     /\ \E g \in gates : can(g)
     /\ suite = "v2" => can("content_preserved") /\ can("adr_links_resolve")
     /\ (\E g \in StructuralGates : can(g)) => w.refuses = {Emptied, Absent}

Offers(suite, w) ==
  /\ w.corpus.docs
  /\ DOMAIN Mutants[suite] \ {8} \subseteq Defects[w.corpus]
  /\ suite = "v2" => OffersStubs(w.corpus)

(* A published pass is never the suite's own doing: it is there exactly    *)
(* when the instrument it names is calibrated and the corpus offered every *)
(* mutant to break, so no gate that is blind, always fails, or is caught   *)
(* by its neighbour hides in it (entry, tally, clean_ok).                  *)
ScoreIsCalibration ==
  \A s \in Suites :
    published[s] \notin {NoFile, Torn} =>
      LET file == published[s]
      IN file.status = "pass" <=>
           Calibrated(s, file.world, file.bridge) /\ Offers(s, file.world)

(* "A mutant must break one gate's rule so that the suite measures the     *)
(* gate it names rather than whichever one happened to notice": whatever a *)
(* corpus is made of, a copy that was built breaks the rule of its gate    *)
(* and no other.  It breaks none in four cases only: the target that was    *)
(* rewritten has an anchor, the line that was found is padded, the two     *)
(* records have one title, or the page is a record whose type is in quotes *)
(* (_documents, the mutations).                                            *)
LeftAsItWas(i, c) ==
  \/ i = 2 /\ \E row \in IndexRows(c) : \E k \in DOMAIN c.index[row].links :
               c.index[row].links[k].anchored
  \/ i = 5 /\ \E page \in Documents(c) : c.pages[page].visibility = "padded"
  \/ i = 6 /\ \E page \in Documents(c) : c.pages[page].type = "quoted"
  \/ i = 10 /\ \E one, other \in OwnedRecords(c) :
               one # other /\ TitleOf(c, one) = TitleOf(c, other)

MutantsBreakTheirGate ==
  \A i \in Applied \ {11} :
    LET breaks == Breaks[world.corpus][i]
    IN IsBuilt(i) => \/ breaks = {Mutants.v2[i].gate}
                     \/ breaks = {} /\ LeftAsItWas(i, world.corpus)

(* A check that is green says of today's tools and corpus, through the     *)
(* bridge it judged them by, that the pass that is published is still      *)
(* true.  CI's is that of the bridge the published file names; one run by  *)
(* hand is of the bridge it was given, which nothing compares with the     *)
(* file's (main with --check, _compare, oracle-v2.yml).                    *)
GreenIsStillTrue ==
  exit = "0" /\ run.check =>
    /\ published[run.suite] \notin {NoFile, Torn}
    /\ published[run.suite].status = "pass"
    /\ Calibrated(run.suite, world, run.bridge) /\ Offers(run.suite, world)
    /\ run.by = "ci" /\ run.suite = "v2" => run.bridge = published["v2"].bridge
=============================================================================
