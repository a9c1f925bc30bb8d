----------------------------- MODULE Mutations -----------------------------
(***************************************************************************)
(* What the suites break: the mutations of oracles/docs_mutation_v1.py and *)
(* docs_mutation_v2.py, as functions from a corpus to the copy that is     *)
(* judged.  A corpus is cut down to what a mutation or a gate's rule       *)
(* reads of it (Corpora).                                                  *)
(***************************************************************************)
EXTENDS Naturals, Sequences, FiniteSets, FiniteSetsExt

CONSTANTS
  RecordNumbers,   \* the numbers there are for records
  Titles,          \* the titles records have
  NoIndex, NoDir, NoStub, NoTitle,
  NotBuilt         \* the corpus does not offer what a mutant needs

ASSUME RecordNumbersAssumption == RecordNumbers \subseteq 0..999

-----------------------------------------------------------------------------
(* A corpus: the records in each directory of them, the numbered rows of   *)
(* the registry, the rendered and the vendored file, what each agent       *)
(* profile says of its output, whether the name a dangling one gets is on  *)
(* disk, the Markdown files in order, the link stub, and whether the       *)
(* taxonomy admits any file.  A type is that of a record or not, and one   *)
(* of a record may be in quotes.                                           *)

Links ==
  [http : BOOLEAN, there : BOOLEAN, anchored : BOOLEAN, adr : BOOLEAN,
   title : Titles \cup {NoTitle}]

RegistryRows ==
  [number : RecordNumbers, indexed : BOOLEAN, accepted : BOOLEAN, pending : BOOLEAN,
   owned : BOOLEAN, links : Seq(Links)]

Pages ==
  [kind : {"page", "entry", "registry", "hidden"}, front : BOOLEAN,
   visibility : {"public", "padded", "public-staged", "none"},
   type : {"narrative", "record", "quoted", "none"}, verified : BOOLEAN, long : BOOLEAN, cut : BOOLEAN]

RecordsDirs == {"adr", "docs/adr"}

Corpora ==
  [records  : UNION {[dirs -> SUBSET RecordNumbers] : dirs \in SUBSET RecordsDirs},
   index    : Seq(RegistryRows) \cup {NoIndex},
   adapter  : {"none", "generated", "edited"},
   policy   : {"none", "generated", "edited"},
   profiles : Seq({"none", "schema", "dangling"}),
   taken    : BOOLEAN,
   pages    : Seq(Pages),
   stub     : [number : RecordNumbers, title : Titles] \cup {NoStub},
   docs     : BOOLEAN]

ASSUME SentinelAssumption ==
  NoIndex \notin Seq(RegistryRows) /\ NoStub \notin [number : RecordNumbers, title : Titles]

-----------------------------------------------------------------------------
(* What is read of a corpus.                                               *)

(* A defect to check against: every Markdown file is an ordinary page.     *)
DocumentsOfAnyKind(c) == DOMAIN c.pages

(* Provider entry files and the registry are read by another gate too, and *)
(* hidden trees by none.                                                   *)
Documents(c) == {i \in DOMAIN c.pages : c.pages[i].kind = "page"}

RecordsDir(c) ==
  IF "adr" \in DOMAIN c.records THEN "adr"
  ELSE IF "docs/adr" \in DOMAIN c.records THEN "docs/adr" ELSE NoDir

(* The rows of the registry's own section.                                 *)
IndexRows(c) == {i \in DOMAIN c.index : c.index[i].indexed}

-----------------------------------------------------------------------------
(* The mutations.  Each takes the first place that fits.                   *)

NoRegistryRow(c) ==
  LET dir  == RecordsDir(c)
      free == {n \in RecordNumbers : n >= 100} \ {c.index[i].number : i \in IndexRows(c)}
  IN IF dir = NoDir \/ c.index = NoIndex THEN NotBuilt
     ELSE IF free = {} \/ c.records[dir] = {} THEN NotBuilt
     ELSE [c EXCEPT !.records[dir] = @ \cup {Max(free)}]

(* A target is rewritten after its anchor, so the file it names stays.     *)
Rewritable(row) == {k \in DOMAIN row.links : ~row.links[k].http /\ row.links[k].there}
Broken(link) == [link EXCEPT !.there = link.anchored]

Strict(row) == row.accepted /\ ~row.pending

UnresolvableLink(c) ==
  IF c.index = NoIndex THEN NotBuilt
  ELSE LET fit == {i \in IndexRows(c) : Strict(c.index[i]) /\ Rewritable(c.index[i]) # {}}
       IN IF fit = {} THEN NotBuilt
          ELSE LET i == Min(fit)
               IN [c EXCEPT !.index[i].links[Min(Rewritable(c.index[i]))] = Broken(@)]

HandEditedAdapter(c) ==
  IF c.adapter = "none" THEN NotBuilt ELSE [c EXCEPT !.adapter = "edited"]

HandEditedVendoredPolicy(c) ==
  IF c.policy = "none" THEN NotBuilt ELSE [c EXCEPT !.policy = "edited"]

(* A line is found without the blanks around it and replaced with them, so *)
(* one that is padded stays as it is.                                      *)
DeprecatedVisibility(c) ==
  LET fit == {i \in Documents(c) :
                c.pages[i].front /\ c.pages[i].visibility \in {"public", "padded"}}
  IN IF fit = {} THEN NotBuilt
     ELSE [c EXCEPT !.pages[Min(fit)].visibility = IF @ = "public" THEN "public-staged" ELSE @]

(* The type is read off its line, so that of a record in quotes is none of *)
(* the types a record has, and is taken for a narrative page's.            *)
MissingLastVerified(c) ==
  LET fit == {i \in Documents(c) : /\ c.pages[i].front /\ c.pages[i].verified
                                   /\ c.pages[i].type \in {"narrative", "quoted"}}
  IN IF fit = {} THEN NotBuilt ELSE [c EXCEPT !.pages[Min(fit)].verified = FALSE]

MissingOutputSchema(c) ==
  LET fit == {i \in DOMAIN c.profiles : c.profiles[i] = "schema"}
  IN IF fit = {} \/ c.taken THEN NotBuilt ELSE [c EXCEPT !.profiles[Min(fit)] = "dangling"]

-----------------------------------------------------------------------------
(* The three of the second suite.                                          *)

AdrLinks(row) == {k \in DOMAIN row.links : row.links[k].adr}

(* The accepted rows whose record the corpus owns, holds and has a title   *)
(* for; a suite that finds fewer than two builds no stub.                  *)
OwnedRecords(c) ==
  {i \in IndexRows(c) :
     LET row == c.index[i]
     IN /\ row.owned /\ row.accepted /\ AdrLinks(row) # {}
        /\ row.links[Min(AdrLinks(row))].there
        /\ row.links[Min(AdrLinks(row))].title # NoTitle}

TitleOf(c, i) == c.index[i].links[Min(AdrLinks(c.index[i]))].title

OffersStubs(c) == c.index # NoIndex /\ Cardinality(OwnedRecords(c)) >= 2

FirstRecord(c) == Min(OwnedRecords(c))
SecondRecord(c) == Min(OwnedRecords(c) \ {FirstRecord(c)})

WriteStub(c, number, title) == [c EXCEPT !.stub = [number |-> number, title |-> title]]

CorrectStub(c) ==
  IF ~OffersStubs(c) THEN NotBuilt
  ELSE WriteStub(c, c.index[FirstRecord(c)].number, TitleOf(c, FirstRecord(c)))

StubWithWrongTitle(c) ==
  IF ~OffersStubs(c) THEN NotBuilt
  ELSE WriteStub(c, c.index[FirstRecord(c)].number, TitleOf(c, SecondRecord(c)))

(* A page loses its last lines; the registry would lose rows with them.    *)
BodyLinesLost(c) ==
  LET fit == {i \in Documents(c) : c.pages[i].front /\ c.pages[i].long}
  IN IF fit = {} THEN NotBuilt
     ELSE [c EXCEPT !.pages[Min(fit)].cut = TRUE,
                    !.index = IF c.pages[Min(fit)].kind = "registry" THEN << >> ELSE @]

Mutated(i, c) ==
  CASE i = 1  -> NoRegistryRow(c)        [] i = 2 -> UnresolvableLink(c)
    [] i = 3  -> HandEditedAdapter(c)    [] i = 4 -> HandEditedVendoredPolicy(c)
    [] i = 5  -> DeprecatedVisibility(c) [] i = 6 -> MissingLastVerified(c)
    [] i = 7  -> MissingOutputSchema(c)  [] i = 9 -> BodyLinesLost(c)
    [] i = 10 -> StubWithWrongTitle(c)   [] i = 11 -> CorrectStub(c)

-----------------------------------------------------------------------------
(* The rules the gates enforce, as the suites describe them.               *)

Unlisted(c) == (UNION {c.records[d] : d \in DOMAIN c.records})
                 \ {c.index[i].number : i \in IndexRows(c)}

Dangling(c) ==
  \E i \in IndexRows(c) : /\ Strict(c.index[i])
                          /\ \E k \in DOMAIN c.index[i].links :
                               ~c.index[i].links[k].http /\ ~c.index[i].links[k].there

Malformed(page) ==
  /\ page.front
  /\ page.visibility = "public-staged" \/ (page.type = "narrative" /\ ~page.verified)

RegistryBroken(c) == c.index # NoIndex /\ (Unlisted(c) # {} \/ Dangling(c))

FrontmatterBroken(c) == \E i \in DOMAIN c.pages : Malformed(c.pages[i])

AgentFilesBroken(c) ==
  \/ \E i \in DOMAIN c.profiles : c.profiles[i] = "dangling"
  \/ \E i \in DOMAIN c.pages : c.pages[i].kind = "entry" /\ c.pages[i].cut

ContentLost(c) == \E i \in DOMAIN c.pages : c.pages[i].cut

StubNamesItsRecord(c) ==
  \E i \in OwnedRecords(c) :
    c.index[i].number = c.stub.number /\ TitleOf(c, i) = c.stub.title

(* The gates whose rule a corpus breaks.                                   *)
BrokenRules(c) ==
  {g \in {"registry_check"} : RegistryBroken(c)}
  \cup {g \in {"agents_render_check"} : c.adapter = "edited"}
  \cup {g \in {"agents_bundle_verify"} : c.policy = "edited"}
  \cup {g \in {"frontmatter_check"} : FrontmatterBroken(c)}
  \cup {g \in {"agents_file_check"} : AgentFilesBroken(c)}
  \cup {g \in {"content_preserved"} : ContentLost(c)}
  \cup {g \in {"adr_links_resolve"} : c.stub # NoStub /\ ~StubNamesItsRecord(c)}
=============================================================================
