-------------------------- MODULE CalibrationProofs --------------------------
(***************************************************************************)
(* For every corpus, oracle and bridge: a mutant that was built breaks the *)
(* rule of the gate it is aimed at and no other's, or it left the corpus   *)
(* as it was; and what a suite publishes, or ends green on, is true of the *)
(* instrument and not of how the suite came by it.                         *)
(*                                                                         *)
(* A mutation changes one part of a corpus, and each rule reads a part:    *)
(* what a mutation does not touch stays unbroken, so that leaves, mutant   *)
(* by mutant, the rule of its own gate.  The scores are taken apart the    *)
(* same way: where nothing is said against the unmutated copy, each row is *)
(* caught by its own gate or not at all, so a full table means that every  *)
(* gate sees everything aimed at it.                                       *)
(***************************************************************************)
EXTENDS Calibration, FiniteSetTheorems, WellFoundedInduction, TLAPS

-----------------------------------------------------------------------------
(* The least and the greatest of some numbers.                             *)

Less == {p \in Nat \X Nat : p[1] < p[2]}

LEMMA Smallest ==
  ASSUME NEW T \in SUBSET Nat, T # {}
  PROVE  \E x \in T : \A y \in T : x <= y
<1>1. OpToRel(<, Nat) = Less
  BY DEF OpToRel, Less
<1>2. IsWellFoundedOn(Less, Nat)
  BY NatLessThanWellFounded, <1>1
<1>3. PICK x \in T : \A y \in T : <<y, x>> \notin Less
  BY <1>2, WFMin, Zenon
<1>4. ASSUME NEW y \in T, ~(x <= y) PROVE FALSE
  <2>1. <<y, x>> \in Nat \X Nat /\ y < x
    BY <1>4
  <2>2. <<y, x>> \in Less
    BY <2>1 DEF Less
  <2> QED
    BY <1>3, <2>2
<1> QED
  BY <1>4

(* What Min and Max choose.                                                *)
LEMMA MinIsLeast ==
  ASSUME NEW T \in SUBSET Nat, T # {}
  PROVE  Min(T) \in T /\ \A y \in T : Min(T) <= y
BY Smallest DEF Min

LEMMA MaxIsGreatest ==
  ASSUME NEW T \in SUBSET Nat, T # {}, \E bound \in Nat : \A y \in T : y <= bound
  PROVE  Max(T) \in T /\ \A y \in T : Max(T) >= y
<1> PICK bound \in Nat : \A y \in T : y <= bound
  OBVIOUS
<1> DEFINE below == {bound - y : y \in T}
<1>1. below \in SUBSET Nat /\ below # {}
  <2>1. \A y \in T : y \in Nat /\ y <= bound /\ bound - y \in Nat
    OBVIOUS
  <2>2. PICK y \in T : TRUE
    OBVIOUS
  <2>3. bound - y \in below
    OBVIOUS
  <2>4. \A d \in below : d \in Nat
    BY <2>1
  <2> QED
    BY <2>3, <2>4
<1>2. PICK d \in below : \A e \in below : d <= e
  BY <1>1, Smallest
<1>3. PICK x \in T : d = bound - x
  BY <1>2
<1>4. ASSUME NEW y \in T PROVE x >= y
  <2>1. bound - y \in below
    OBVIOUS
  <2> HIDE DEF below
  <2>2. bound - x <= bound - y
    BY <1>2, <1>3, <2>1
  <2> QED
    BY <2>2
<1> QED
  BY <1>4 DEF Max

-----------------------------------------------------------------------------
(* The rules, each over the part that it reads.                            *)

StubBroken(c) == c.stub # NoStub /\ ~StubNamesItsRecord(c)

(* No rule of a corpus is broken.                                          *)
LEMMA CleanIs ==
  ASSUME NEW c, BrokenRules(c) = {}
  PROVE  /\ ~RegistryBroken(c) /\ c.adapter # "edited" /\ c.policy # "edited"
         /\ ~FrontmatterBroken(c) /\ ~AgentFilesBroken(c) /\ ~ContentLost(c) /\ ~StubBroken(c)
BY DEF BrokenRules, StubBroken

LEMMA RulesAre ==
  ASSUME NEW c
  PROVE  /\ "registry_check" \in BrokenRules(c) <=> RegistryBroken(c)
         /\ "agents_render_check" \in BrokenRules(c) <=> c.adapter = "edited"
         /\ "agents_bundle_verify" \in BrokenRules(c) <=> c.policy = "edited"
         /\ "frontmatter_check" \in BrokenRules(c) <=> FrontmatterBroken(c)
         /\ "agents_file_check" \in BrokenRules(c) <=> AgentFilesBroken(c)
         /\ "content_preserved" \in BrokenRules(c) <=> ContentLost(c)
         /\ "adr_links_resolve" \in BrokenRules(c) <=> StubBroken(c)
         /\ BrokenRules(c) \subseteq
              {"registry_check", "agents_render_check", "agents_bundle_verify",
               "frontmatter_check", "agents_file_check", "content_preserved",
               "adr_links_resolve"}
BY DEF BrokenRules, StubBroken

LEMMA SameRegistry ==
  ASSUME NEW c, NEW d, d.index = c.index, d.records = c.records
  PROVE  RegistryBroken(d) <=> RegistryBroken(c)
BY DEF RegistryBroken, Unlisted, Dangling, IndexRows

LEMMA SamePages ==
  ASSUME NEW c, NEW d, d.pages = c.pages
  PROVE  /\ FrontmatterBroken(d) <=> FrontmatterBroken(c)
         /\ ContentLost(d) <=> ContentLost(c)
         /\ d.profiles = c.profiles => (AgentFilesBroken(d) <=> AgentFilesBroken(c))
BY DEF FrontmatterBroken, ContentLost, AgentFilesBroken

(* A corpus to mutate, as the suites find one (WorldsAssumption).          *)
Offered(c) ==
  /\ c \in Corpora /\ BrokenRules(c) = {} /\ c.stub = NoStub
  /\ c.index # NoIndex =>
       \A i, j \in IndexRows(c) : c.index[i].number = c.index[j].number => i = j

Only(gate, d) == BrokenRules(d) = {gate}

-----------------------------------------------------------------------------
(* Mutant by mutant.                                                       *)

LEMMA FirstBreaks ==
  ASSUME NEW c, Offered(c), NoRegistryRow(c) # NotBuilt
  PROVE  Only("registry_check", NoRegistryRow(c))
<1> DEFINE dir  == RecordsDir(c)
           free == {n \in RecordNumbers : n >= 100} \ {c.index[i].number : i \in IndexRows(c)}
           d    == [c EXCEPT !.records[dir] = @ \cup {Max(free)}]
<1>1. /\ NoRegistryRow(c) = d /\ dir # NoDir /\ c.index # NoIndex /\ free # {}
  BY DEF NoRegistryRow
<1>2. dir \in DOMAIN c.records
  BY <1>1 DEF RecordsDir
<1>3. Max(free) \in free
  <2>1. free \in SUBSET Nat /\ free # {} /\ \A n \in free : n <= 999
    <3>1. \A n \in free : n \in RecordNumbers
      OBVIOUS
    <3>2. \A n \in RecordNumbers : n \in Nat /\ n <= 999
      BY RecordNumbersAssumption
    <3>3. free # {}
      BY <1>1
    <3> HIDE DEF free
    <3> QED
      BY <3>1, <3>2, <3>3
  <2> HIDE DEF free
  <2>2. \E bound \in Nat : \A n \in free : n <= bound
    <3> WITNESS 999 \in Nat
    <3> QED
      BY <2>1
  <2> QED
    BY <2>1, <2>2, MaxIsGreatest
<1>4. c \in Corpora
  BY DEF Offered
<1>5. /\ d.index = c.index /\ d.adapter = c.adapter /\ d.policy = c.policy
      /\ d.profiles = c.profiles /\ d.pages = c.pages /\ d.stub = c.stub
      /\ d.records = [c.records EXCEPT ![dir] = @ \cup {Max(free)}]
  BY <1>4 DEF Corpora
<1> HIDE DEF d, free, dir
<1>6. Max(free) \in Unlisted(d)
  <2>1. dir \in DOMAIN d.records /\ Max(free) \in d.records[dir]
    BY <1>2, <1>5
  <2>2. IndexRows(d) = IndexRows(c)
    BY <1>5 DEF IndexRows
  <2> QED
    BY <1>3, <1>5, <2>1, <2>2, ZenonT(30) DEF Unlisted, free
<1>7. RegistryBroken(d)
  BY <1>1, <1>5, <1>6 DEF RegistryBroken
<1> QED
  BY <1>1, <1>5, <1>7, CleanIs, SamePages, RulesAre DEF Offered, Only, StubBroken

LEMMA ThirdBreaks ==
  ASSUME NEW c, Offered(c), HandEditedAdapter(c) # NotBuilt
  PROVE  Only("agents_render_check", HandEditedAdapter(c))
<1> DEFINE d == [c EXCEPT !.adapter = "edited"]
<1>1. HandEditedAdapter(c) = d
  BY DEF HandEditedAdapter
<1>2. /\ d.index = c.index /\ d.records = c.records /\ d.adapter = "edited"
      /\ d.policy = c.policy /\ d.profiles = c.profiles /\ d.pages = c.pages
      /\ d.stub = c.stub
  BY DEF Offered, Corpora
<1> HIDE DEF d
<1> QED
  BY <1>1, <1>2, CleanIs, SameRegistry, SamePages, RulesAre DEF Offered, Only, StubBroken

LEMMA FourthBreaks ==
  ASSUME NEW c, Offered(c), HandEditedVendoredPolicy(c) # NotBuilt
  PROVE  Only("agents_bundle_verify", HandEditedVendoredPolicy(c))
<1> DEFINE d == [c EXCEPT !.policy = "edited"]
<1>1. HandEditedVendoredPolicy(c) = d
  BY DEF HandEditedVendoredPolicy
<1>2. /\ d.index = c.index /\ d.records = c.records /\ d.adapter = c.adapter
      /\ d.policy = "edited" /\ d.profiles = c.profiles /\ d.pages = c.pages
      /\ d.stub = c.stub
  BY DEF Offered, Corpora
<1> HIDE DEF d
<1> QED
  BY <1>1, <1>2, CleanIs, SameRegistry, SamePages, RulesAre DEF Offered, Only, StubBroken

LEMMA SeventhBreaks ==
  ASSUME NEW c, Offered(c), MissingOutputSchema(c) # NotBuilt
  PROVE  Only("agents_file_check", MissingOutputSchema(c))
<1> DEFINE fit == {i \in DOMAIN c.profiles : c.profiles[i] = "schema"}
           d   == [c EXCEPT !.profiles[Min(fit)] = "dangling"]
<1>1. MissingOutputSchema(c) = d /\ fit # {}
  BY DEF MissingOutputSchema
<1>2. c.profiles \in Seq({"none", "schema", "dangling"})
  BY DEF Offered, Corpora
<1>3. Min(fit) \in DOMAIN c.profiles
  BY <1>1, <1>2, MinIsLeast
<1>4. /\ d.index = c.index /\ d.records = c.records /\ d.adapter = c.adapter
      /\ d.policy = c.policy /\ d.pages = c.pages /\ d.stub = c.stub
      /\ d.profiles = [c.profiles EXCEPT ![Min(fit)] = "dangling"]
  BY DEF Offered, Corpora
<1> HIDE DEF d, fit
<1>5. AgentFilesBroken(d)
  BY <1>2, <1>3, <1>4 DEF AgentFilesBroken
<1> QED
  BY <1>1, <1>4, <1>5, CleanIs, SameRegistry, SamePages, RulesAre DEF Offered, Only, StubBroken

(* Pages that differ in one place only.                                    *)
LEMMA PageChanged ==
  ASSUME NEW c, c \in Corpora, NEW p \in DOMAIN c.pages, NEW page
  PROVE  LET d == [c EXCEPT !.pages = [c.pages EXCEPT ![p] = page]]
         IN /\ d.index = c.index /\ d.records = c.records /\ d.adapter = c.adapter
            /\ d.policy = c.policy /\ d.profiles = c.profiles /\ d.stub = c.stub
            /\ DOMAIN d.pages = DOMAIN c.pages
            /\ d.pages[p] = page
            /\ \A i \in DOMAIN c.pages \ {p} : d.pages[i] = c.pages[i]
<1>1. c.pages \in Seq(Pages)
  BY DEF Corpora
<1> QED
  BY <1>1 DEF Corpora

LEMMA FifthBreaks ==
  ASSUME NEW c, Offered(c), DeprecatedVisibility(c) # NotBuilt
  PROVE  \/ Only("frontmatter_check", DeprecatedVisibility(c))
         \/ BrokenRules(DeprecatedVisibility(c)) = {} /\ LeftAsItWas(5, c)
<1> DEFINE fit  == {i \in Documents(c) :
                      c.pages[i].front /\ c.pages[i].visibility \in {"public", "padded"}}
           p    == Min(fit)
           told == IF c.pages[p].visibility = "public" THEN "public-staged"
                   ELSE c.pages[p].visibility
           page == [c.pages[p] EXCEPT !.visibility = told]
           d    == [c EXCEPT !.pages = [c.pages EXCEPT ![p] = page]]
<1>1. DeprecatedVisibility(c) = d /\ fit # {}
  BY DEF DeprecatedVisibility
<1>2. c \in Corpora /\ c.pages \in Seq(Pages)
  BY DEF Offered, Corpora
<1>3. fit \in SUBSET Nat
  BY <1>2 DEF Documents
<1>4. p \in fit
  <2> HIDE DEF fit
  <2> QED
    BY <1>1, <1>3, MinIsLeast
<1> HIDE DEF p
<1>5. /\ p \in DOMAIN c.pages /\ c.pages[p] \in Pages /\ c.pages[p].front
      /\ c.pages[p].visibility \in {"public", "padded"} /\ p \in Documents(c)
  BY <1>2, <1>4 DEF Documents
<1> HIDE DEF fit
<1>6. /\ page.visibility = told /\ page.front = c.pages[p].front
      /\ page.type = c.pages[p].type /\ page.verified = c.pages[p].verified
      /\ page.cut = c.pages[p].cut /\ page.kind = c.pages[p].kind
  BY <1>5 DEF Pages
<1> HIDE DEF page
<1>7. /\ d.index = c.index /\ d.records = c.records /\ d.adapter = c.adapter
      /\ d.policy = c.policy /\ d.profiles = c.profiles /\ d.stub = c.stub
      /\ DOMAIN d.pages = DOMAIN c.pages
      /\ d.pages[p] = page
      /\ \A i \in DOMAIN c.pages \ {p} : d.pages[i] = c.pages[i]
  BY <1>2, <1>5, PageChanged
<1> HIDE DEF d
<1>8. /\ ContentLost(d) <=> ContentLost(c)
      /\ AgentFilesBroken(d) <=> AgentFilesBroken(c)
  BY <1>5, <1>6, <1>7 DEF ContentLost, AgentFilesBroken
<1>9. CASE c.pages[p].visibility = "public"
  <2>1. FrontmatterBroken(d)
    BY <1>5, <1>6, <1>7, <1>9 DEF FrontmatterBroken, Malformed
  <2> QED
    BY <1>1, <1>7, <1>8, <2>1, CleanIs, SameRegistry, RulesAre DEF Offered, Only, StubBroken
<1>10. CASE c.pages[p].visibility = "padded"
  <2>1. FrontmatterBroken(d) <=> FrontmatterBroken(c)
    BY <1>5, <1>6, <1>7, <1>10, ZenonT(30) DEF FrontmatterBroken, Malformed
  <2>2. BrokenRules(d) = {}
    BY <1>7, <1>8, <2>1, CleanIs, SameRegistry, RulesAre DEF Offered, StubBroken
  <2> QED
    BY <1>1, <1>5, <1>10, <2>2 DEF LeftAsItWas
<1> QED
  BY <1>5, <1>9, <1>10

LEMMA SixthBreaks ==
  ASSUME NEW c, Offered(c), MissingLastVerified(c) # NotBuilt
  PROVE  \/ Only("frontmatter_check", MissingLastVerified(c))
         \/ BrokenRules(MissingLastVerified(c)) = {} /\ LeftAsItWas(6, c)
<1> DEFINE fit  == {i \in Documents(c) : /\ c.pages[i].front /\ c.pages[i].verified
                                         /\ c.pages[i].type \in {"narrative", "quoted"}}
           p    == Min(fit)
           page == [c.pages[p] EXCEPT !.verified = FALSE]
           d    == [c EXCEPT !.pages = [c.pages EXCEPT ![p] = page]]
<1>1. MissingLastVerified(c) = d /\ fit # {}
  BY DEF MissingLastVerified
<1>2. c \in Corpora /\ c.pages \in Seq(Pages)
  BY DEF Offered, Corpora
<1>3. fit \in SUBSET Nat
  BY <1>2 DEF Documents
<1>4. p \in fit
  <2> HIDE DEF fit
  <2> QED
    BY <1>1, <1>3, MinIsLeast
<1> HIDE DEF p
<1>5. /\ p \in DOMAIN c.pages /\ c.pages[p] \in Pages /\ c.pages[p].front
      /\ c.pages[p].type \in {"narrative", "quoted"} /\ p \in Documents(c)
  BY <1>2, <1>4 DEF Documents
<1> HIDE DEF fit
<1>6. /\ page.verified = FALSE /\ page.front = c.pages[p].front
      /\ page.type = c.pages[p].type /\ page.visibility = c.pages[p].visibility
      /\ page.cut = c.pages[p].cut /\ page.kind = c.pages[p].kind
  BY <1>5 DEF Pages
<1> HIDE DEF page
<1>7. /\ d.index = c.index /\ d.records = c.records /\ d.adapter = c.adapter
      /\ d.policy = c.policy /\ d.profiles = c.profiles /\ d.stub = c.stub
      /\ DOMAIN d.pages = DOMAIN c.pages
      /\ d.pages[p] = page
      /\ \A i \in DOMAIN c.pages \ {p} : d.pages[i] = c.pages[i]
  BY <1>2, <1>5, PageChanged
<1> HIDE DEF d
<1>8. /\ ContentLost(d) <=> ContentLost(c)
      /\ AgentFilesBroken(d) <=> AgentFilesBroken(c)
  BY <1>5, <1>6, <1>7 DEF ContentLost, AgentFilesBroken
<1>9. CASE c.pages[p].type = "narrative"
  <2>1. FrontmatterBroken(d)
    BY <1>5, <1>6, <1>7, <1>9 DEF FrontmatterBroken, Malformed
  <2> QED
    BY <1>1, <1>7, <1>8, <2>1, CleanIs, SameRegistry, RulesAre DEF Offered, Only, StubBroken
<1>10. CASE c.pages[p].type = "quoted"
  <2>1. ~Malformed(d.pages[p])
    <3>1. ~Malformed(c.pages[p])
      BY <1>5, CleanIs DEF Offered, FrontmatterBroken
    <3> QED
      BY <1>5, <1>6, <1>7, <1>10, <3>1 DEF Malformed
  <2>2. ~FrontmatterBroken(d)
    BY <1>7, <2>1, CleanIs DEF Offered, FrontmatterBroken
  <2>3. LeftAsItWas(6, c)
    BY <1>5, <1>10 DEF LeftAsItWas
  <2> QED
    BY <1>1, <1>7, <1>8, <2>2, <2>3, CleanIs, SameRegistry, RulesAre DEF Offered, Only, StubBroken
<1> QED
  BY <1>5, <1>9, <1>10

LEMMA NinthBreaks ==
  ASSUME NEW c, Offered(c), BodyLinesLost(c) # NotBuilt
  PROVE  Only("content_preserved", BodyLinesLost(c))
<1> DEFINE fit  == {i \in Documents(c) : c.pages[i].front /\ c.pages[i].long}
           p    == Min(fit)
           page == [c.pages[p] EXCEPT !.cut = TRUE]
           d    == [c EXCEPT !.pages = [c.pages EXCEPT ![p] = page]]
<1>1. c \in Corpora /\ c.pages \in Seq(Pages)
  BY DEF Offered, Corpora
<1>2. fit \in SUBSET Nat /\ fit # {}
  BY <1>1 DEF Documents, BodyLinesLost
<1>3. p \in fit
  <2> HIDE DEF fit
  <2> QED
    BY <1>2, MinIsLeast
<1> HIDE DEF p
<1>4. p \in DOMAIN c.pages /\ c.pages[p] \in Pages /\ c.pages[p].kind = "page"
  BY <1>1, <1>3 DEF Documents
<1>5. BodyLinesLost(c) = [d EXCEPT !.index = c.index]
  BY <1>2, <1>4 DEF BodyLinesLost, p
<1> HIDE DEF fit
<1>6. /\ page.cut = TRUE /\ page.front = c.pages[p].front
      /\ page.type = c.pages[p].type /\ page.verified = c.pages[p].verified
      /\ page.visibility = c.pages[p].visibility /\ page.kind = c.pages[p].kind
  BY <1>4 DEF Pages
<1> HIDE DEF page
<1>7. /\ d.index = c.index /\ d.records = c.records /\ d.adapter = c.adapter
      /\ d.policy = c.policy /\ d.profiles = c.profiles /\ d.stub = c.stub
      /\ DOMAIN d.pages = DOMAIN c.pages
      /\ d.pages[p] = page
      /\ \A i \in DOMAIN c.pages \ {p} : d.pages[i] = c.pages[i]
  BY <1>1, <1>4, PageChanged
<1>8. [d EXCEPT !.index = c.index] = d
  BY <1>1 DEF Corpora
<1> HIDE DEF d
<1>9. ContentLost(d)
  BY <1>4, <1>6, <1>7 DEF ContentLost
<1>10. /\ FrontmatterBroken(d) <=> FrontmatterBroken(c)
       /\ AgentFilesBroken(d) <=> AgentFilesBroken(c)
  BY <1>4, <1>6, <1>7 DEF FrontmatterBroken, Malformed, AgentFilesBroken
<1> QED
  BY <1>5, <1>7, <1>8, <1>9, <1>10, CleanIs, SameRegistry, RulesAre
  DEF Offered, Only, StubBroken

(* What the third and the second suite read of the registry is a sequence. *)
LEMMA IndexIs ==
  ASSUME NEW c, c \in Corpora, c.index # NoIndex
  PROVE  /\ c.index \in Seq(RegistryRows)
         /\ IndexRows(c) \in SUBSET Nat
         /\ \A i \in IndexRows(c) :
              /\ i \in DOMAIN c.index /\ c.index[i] \in RegistryRows
              /\ c.index[i].links \in Seq(Links)
              /\ Rewritable(c.index[i]) \in SUBSET Nat
              /\ AdrLinks(c.index[i]) \in SUBSET Nat
<1>1. c.index \in Seq(RegistryRows)
  BY DEF Corpora
<1>2. \A i \in DOMAIN c.index : i \in Nat /\ c.index[i] \in RegistryRows
  BY <1>1
<1>3. ASSUME NEW i \in IndexRows(c)
      PROVE  /\ i \in DOMAIN c.index /\ c.index[i] \in RegistryRows
             /\ c.index[i].links \in Seq(Links)
             /\ Rewritable(c.index[i]) \in SUBSET Nat
             /\ AdrLinks(c.index[i]) \in SUBSET Nat
  <2>1. i \in DOMAIN c.index /\ c.index[i] \in RegistryRows
    BY <1>2 DEF IndexRows
  <2>2. c.index[i].links \in Seq(Links)
    BY <2>1 DEF RegistryRows
  <2> QED
    BY <2>1, <2>2 DEF Rewritable, AdrLinks
<1> QED
  BY <1>1, <1>2, <1>3 DEF IndexRows

LEMMA SecondBreaks ==
  ASSUME NEW c, Offered(c), UnresolvableLink(c) # NotBuilt
  PROVE  \/ Only("registry_check", UnresolvableLink(c))
         \/ BrokenRules(UnresolvableLink(c)) = {} /\ LeftAsItWas(2, c)
<1> DEFINE fit   == {i \in IndexRows(c) : Strict(c.index[i]) /\ Rewritable(c.index[i]) # {}}
           r     == Min(fit)
           k     == Min(Rewritable(c.index[r]))
           link  == Broken(c.index[r].links[k])
           links == [c.index[r].links EXCEPT ![k] = link]
           row   == [c.index[r] EXCEPT !.links = links]
           index == [c.index EXCEPT ![r] = row]
           d     == [c EXCEPT !.index = index]
<1>1. c.index # NoIndex /\ fit # {} /\ UnresolvableLink(c) = d
  BY DEF UnresolvableLink
<1>2. c \in Corpora
  BY DEF Offered
<1>3. fit \in SUBSET Nat
  BY <1>1, <1>2, IndexIs
<1>4. r \in fit
  <2> HIDE DEF fit
  <2> QED
    BY <1>1, <1>3, MinIsLeast
<1> HIDE DEF r
<1>5. /\ r \in DOMAIN c.index /\ r \in IndexRows(c) /\ c.index \in Seq(RegistryRows)
      /\ c.index[r] \in RegistryRows /\ c.index[r].links \in Seq(Links)
      /\ Strict(c.index[r]) /\ Rewritable(c.index[r]) # {}
      /\ Rewritable(c.index[r]) \in SUBSET Nat
  BY <1>1, <1>2, <1>4, IndexIs
<1> HIDE DEF fit
<1>6. k \in Rewritable(c.index[r])
  BY <1>5, MinIsLeast
<1> HIDE DEF k
<1>7. /\ k \in DOMAIN c.index[r].links /\ c.index[r].links[k] \in Links
      /\ ~c.index[r].links[k].http /\ c.index[r].links[k].there
  BY <1>5, <1>6 DEF Rewritable
<1>8. /\ link = [c.index[r].links[k] EXCEPT !.there = c.index[r].links[k].anchored]
      /\ link.http = FALSE /\ link.there = c.index[r].links[k].anchored
      /\ c.index[r].links[k].anchored \in BOOLEAN
  BY <1>7 DEF Broken, Links
<1> HIDE DEF link
<1>9. links[k] = link /\ DOMAIN links = DOMAIN c.index[r].links
  BY <1>5, <1>7
<1> HIDE DEF links
<1>10. /\ row.links = links /\ row.number = c.index[r].number
       /\ row.indexed = c.index[r].indexed
       /\ row.accepted = c.index[r].accepted /\ row.pending = c.index[r].pending
  BY <1>5 DEF RegistryRows
<1> HIDE DEF row
<1>11. /\ DOMAIN index = DOMAIN c.index /\ index[r] = row
       /\ \A i \in DOMAIN c.index \ {r} : index[i] = c.index[i]
  BY <1>5
<1> HIDE DEF index
<1>12. /\ d.index = index /\ d.records = c.records /\ d.adapter = c.adapter
       /\ d.policy = c.policy /\ d.profiles = c.profiles /\ d.pages = c.pages
       /\ d.stub = c.stub
  BY <1>2 DEF Corpora
<1> HIDE DEF d
<1>13. CASE ~c.index[r].links[k].anchored
  <2>1. r \in IndexRows(d) /\ Strict(d.index[r])
    BY <1>5, <1>10, <1>11, <1>12 DEF IndexRows, Strict
  <2>2. k \in DOMAIN d.index[r].links /\ ~d.index[r].links[k].http
        /\ ~d.index[r].links[k].there
    BY <1>7, <1>8, <1>9, <1>10, <1>11, <1>12, <1>13
  <2>3. Dangling(d)
    BY <2>1, <2>2 DEF Dangling
  <2>4. index # NoIndex
    <3>1. row \in RegistryRows
      <4>1. link \in Links
        BY <1>7, <1>8 DEF Links
      <4>2. links \in Seq(Links)
        BY <1>5, <1>7, <4>1 DEF links
      <4> QED
        BY <1>5, <4>2 DEF row, RegistryRows
    <3>2. index \in Seq(RegistryRows)
      BY <1>5, <3>1 DEF index
    <3> QED
      BY <3>2, SentinelAssumption
  <2> QED
    BY <1>1, <1>12, <2>3, <2>4, CleanIs, SamePages, RulesAre
    DEF Offered, Only, StubBroken, RegistryBroken
<1>14. CASE c.index[r].links[k].anchored
  <2>1. link = c.index[r].links[k]
    BY <1>7, <1>8, <1>14 DEF Links
  <2>2. links = c.index[r].links
    BY <1>5, <2>1 DEF links
  <2>3. row = c.index[r]
    BY <1>5, <2>2 DEF row, RegistryRows
  <2>4. index = c.index
    BY <1>5, <2>3 DEF index
  <2>5. BrokenRules(d) = {}
    BY <1>12, <2>4, CleanIs, SameRegistry, SamePages, RulesAre DEF Offered, StubBroken
  <2> QED
    BY <1>1, <1>5, <1>7, <1>14, <2>5 DEF LeftAsItWas
<1> QED
  BY <1>8, <1>13, <1>14

LEMMA TenthBreaks ==
  ASSUME NEW c, Offered(c), StubWithWrongTitle(c) # NotBuilt
  PROVE  \/ Only("adr_links_resolve", StubWithWrongTitle(c))
         \/ BrokenRules(StubWithWrongTitle(c)) = {} /\ LeftAsItWas(10, c)
<1> DEFINE a    == FirstRecord(c)
           b    == SecondRecord(c)
           stub == [number |-> c.index[a].number, title |-> TitleOf(c, b)]
           d    == [c EXCEPT !.stub = stub]
<1>1. OffersStubs(c) /\ c.index # NoIndex /\ StubWithWrongTitle(c) = d
  BY DEF StubWithWrongTitle, WriteStub, OffersStubs
<1>2. c \in Corpora
  BY DEF Offered
<1>3. OwnedRecords(c) \in SUBSET Nat /\ OwnedRecords(c) \subseteq IndexRows(c)
  BY <1>1, <1>2, IndexIs DEF OwnedRecords
<1>4. \E x, y \in OwnedRecords(c) : x # y
  <2> SUFFICES ASSUME ~\E x, y \in OwnedRecords(c) : x # y PROVE FALSE
    OBVIOUS
  <2>1. CASE OwnedRecords(c) = {}
    BY <1>1, <2>1, FS_EmptySet DEF OffersStubs
  <2>2. CASE OwnedRecords(c) # {}
    <3>1. PICK x \in OwnedRecords(c) : TRUE
      BY <2>2
    <3>2. OwnedRecords(c) = {x}
      BY <3>1
    <3>3. Cardinality({x}) = 1
      BY FS_Singleton
    <3> QED
      BY <1>1, <3>2, <3>3 DEF OffersStubs
  <2> QED
    BY <2>1, <2>2
<1>5. a \in OwnedRecords(c)
  BY <1>3, <1>4, MinIsLeast DEF FirstRecord
<1>6. b \in OwnedRecords(c) /\ b # a
  <2>1. OwnedRecords(c) \ {a} # {} /\ OwnedRecords(c) \ {a} \in SUBSET Nat
    BY <1>3, <1>4
  <2>2. b = Min(OwnedRecords(c) \ {a})
    BY DEF SecondRecord
  <2> HIDE DEF a, b
  <2> QED
    BY <2>1, <2>2, MinIsLeast
<1> HIDE DEF a, b
<1>7. /\ d.index = c.index /\ d.records = c.records /\ d.adapter = c.adapter
      /\ d.policy = c.policy /\ d.profiles = c.profiles /\ d.pages = c.pages
      /\ d.stub.number = c.index[a].number /\ d.stub.title = TitleOf(c, b)
  BY <1>2 DEF Corpora
<1>8. d.stub # NoStub
  <2>1. /\ c.index[a] \in RegistryRows /\ c.index[b] \in RegistryRows
        /\ c.index[b].links \in Seq(Links)
        /\ AdrLinks(c.index[b]) \in SUBSET Nat /\ AdrLinks(c.index[b]) # {}
    BY <1>1, <1>2, <1>3, <1>5, <1>6, IndexIs DEF OwnedRecords
  <2>2. Min(AdrLinks(c.index[b])) \in DOMAIN c.index[b].links
    BY <2>1, MinIsLeast DEF AdrLinks
  <2>3. TitleOf(c, b) \in Titles
    <3> DEFINE m == Min(AdrLinks(c.index[b]))
    <3>1. c.index[b].links[m] \in Links
      BY <2>1, <2>2
    <3>2. c.index[b].links[m].title # NoTitle
      BY <1>6 DEF OwnedRecords
    <3> QED
      BY <3>1, <3>2 DEF TitleOf, Links
  <2>4. d.stub \in [number : RecordNumbers, title : Titles]
    BY <1>2, <2>1, <2>3 DEF Corpora, RegistryRows
  <2> QED
    BY <2>4, SentinelAssumption
<1> HIDE DEF d, stub
<1>9. OwnedRecords(d) = OwnedRecords(c) /\ \A i : TitleOf(d, i) = TitleOf(c, i)
  BY <1>7 DEF OwnedRecords, IndexRows, TitleOf
<1>10. CASE TitleOf(c, a) = TitleOf(c, b)
  <2>1. StubNamesItsRecord(d)
    BY <1>5, <1>7, <1>9, <1>10 DEF StubNamesItsRecord
  <2>2. BrokenRules(d) = {}
    BY <1>7, <2>1, CleanIs, SameRegistry, SamePages, RulesAre DEF Offered, StubBroken
  <2> QED
    BY <1>1, <1>5, <1>6, <1>10, <2>2 DEF LeftAsItWas
<1>11. CASE TitleOf(c, a) # TitleOf(c, b)
  <2>1. ~StubNamesItsRecord(d)
    <3> SUFFICES ASSUME NEW i \in OwnedRecords(c), c.index[i].number = c.index[a].number,
                        TitleOf(c, i) = TitleOf(c, b)
                 PROVE  FALSE
      BY <1>7, <1>9 DEF StubNamesItsRecord
    <3>1. i = a
      BY <1>1, <1>3, <1>5 DEF Offered
    <3> QED
      BY <1>11, <3>1
  <2> QED
    BY <1>1, <1>7, <1>8, <2>1, CleanIs, SameRegistry, SamePages, RulesAre
    DEF Offered, Only, StubBroken
<1> QED
  BY <1>10, <1>11

-----------------------------------------------------------------------------
(* The run of a suite.                                                     *)

Lengths == [v1 |-> 8, v2 |-> 11]

LEMMA TheLengths ==
  /\ Len(Mutants["v1"]) = 8 /\ Len(Mutants["v2"]) = 11 /\ Suites = {"v1", "v2"}
  /\ \A suite \in Suites : Len(Mutants[suite]) = Lengths[suite] /\ Lengths[suite] \in Nat
BY DEF Mutants, FirstMutants, Mutant, Suites, Lengths

RunTyped ==
  /\ run.suite \in Suites /\ run.check \in BOOLEAN /\ run.bridge \in DOMAIN Bridges
  /\ run.by \in {"hand", "ci"}

(* A row for each mutant that was passed, whatever came of it.             *)
RowsFollow ==
  /\ rows \in Seq([id : Nat, ok : BOOLEAN])
  /\ \A i \in DOMAIN rows : rows[i].id = i
  /\ next = Len(rows) + 1
  /\ Len(rows) <= Lengths[run.suite]
  /\ phase \in {"export", "clean"} => rows = << >>
  /\ phase \in {"publish", "write", "compare"} => Len(rows) = Lengths[run.suite]

(* A published file names a bridge there is.                               *)
FilesTyped ==
  /\ phase \in {"publish", "write", "compare"} =>
       result.status \in {"pass", "fail"} /\ result.bridge \in DOMAIN Bridges
  /\ \A s \in Suites : published[s] \notin {NoFile, Torn} => published[s].bridge \in DOMAIN Bridges
  /\ published = [s \in Suites |-> published[s]]

Inv ==
  /\ world \in Worlds
  /\ RunTyped
  /\ phase \in {"idle", "export", "clean", "mutants", "publish", "write", "compare"}
  /\ clean \in BOOLEAN
  /\ exit \in {"none", "0", "1", "2", "unverified", "killed"}
  /\ RowsFollow
  /\ FilesTyped

LEMMA Initially == Init => Inv
<1> SUFFICES ASSUME Init PROVE Inv
  OBVIOUS
<1>1. RunTyped
  <2>1. \E b \in DOMAIN Bridges : TRUE
    BY WorldsAssumption DEF Init
  <2>2. (CHOOSE b \in DOMAIN Bridges : TRUE) \in DOMAIN Bridges
    BY <2>1
  <2> QED
    BY <2>2 DEF Init, NoRun, RunTyped, Suites
<1>2. RowsFollow
  BY TheLengths DEF Init, RowsFollow, NoRun
<1> QED
  BY <1>1, <1>2 DEF Init, Inv, FilesTyped

LEMMA Beginning ==
  ASSUME Inv, NEW suite \in Suites, NEW check \in BOOLEAN, NEW by \in {"hand", "ci"},
         NEW bridge \in DOMAIN Bridges, Begin(suite, check, by, bridge)
  PROVE  Inv'
<1>1. RunTyped' /\ RowsFollow'
  BY TheLengths DEF Begin, RunTyped, RowsFollow
<1> QED
  BY <1>1 DEF Inv, Begin, FilesTyped

(* A step that ends a run, or starts none, leaves its table.               *)
LEMMA Ending ==
  ASSUME Inv, phase' = "idle", exit' \in {"none", "0", "1", "2", "unverified", "killed"},
         world' \in Worlds, UNCHANGED <<run, next, clean, rows, published>>
  PROVE  Inv'
BY DEF Inv, RunTyped, RowsFollow, FilesTyped

(* A mutant that was judged leaves its row under the ones before it.       *)
LEMMA RowAdded == ASSUME Inv, JudgeMutant PROVE Inv'
<1>1. /\ phase = "mutants" /\ phase' = "mutants" /\ next <= Lengths[run.suite]
      /\ rows' = Append(rows, RowOf(next)) /\ next' = next + 1
      /\ UNCHANGED <<world, run, clean, result, published, exit>>
  BY TheLengths DEF JudgeMutant, Inv, RunTyped
<1>2. RowOf(next).id = next /\ RowOf(next) \in [id : Nat, ok : BOOLEAN]
  <2>1. next \in Nat
    BY DEF Inv, RowsFollow
  <2> QED
    BY <2>1 DEF RowOf, Row, Eighth
<1> DEFINE row == RowOf(next)
<1> HIDE DEF row
<1>3. RowsFollow'
  <2>1. rows \in Seq([id : Nat, ok : BOOLEAN]) /\ row \in [id : Nat, ok : BOOLEAN]
        /\ rows' = Append(rows, row) /\ row.id = next
    BY <1>1, <1>2 DEF Inv, RowsFollow, row
  <2>2. /\ rows' \in Seq([id : Nat, ok : BOOLEAN]) /\ Len(rows') = Len(rows) + 1
        /\ \A i \in DOMAIN rows : rows'[i] = rows[i]
        /\ rows'[Len(rows) + 1] = row /\ DOMAIN rows' = DOMAIN rows \cup {Len(rows) + 1}
    BY <2>1
  <2>3. Lengths[run.suite] \in Nat
    BY TheLengths DEF Inv, RunTyped
  <2> QED
    BY <1>1, <2>1, <2>2, <2>3 DEF Inv, RowsFollow
<1> QED
  BY <1>1, <1>3 DEF Inv, RunTyped, FilesTyped

LEMMA Inductive == Inv /\ [Next]_vars => Inv'
<1> SUFFICES ASSUME Inv, [Next]_vars PROVE Inv'
  OBVIOUS
<1>1. CASE Move
  BY <1>1, Ending DEF Move, Idle
<1>2. ASSUME NEW suite \in Suites, Publish(suite) PROVE Inv'
  BY <1>2, Beginning, WorldsAssumption DEF Publish, Inv
<1>16. CASE CheckByHand
  BY <1>16, Beginning, WorldsAssumption DEF CheckByHand, Inv, Suites
<1>3. ASSUME NEW suite \in Suites, Refuse(suite) PROVE Inv'
  BY <1>3, Ending DEF Refuse, Exits, Inv
<1>4. CASE CheckFirst
  BY <1>4, Beginning, WorldsAssumption DEF CheckFirst, Inv, Suites
<1>5. CASE CheckSecond
  BY <1>5, Beginning DEF CheckSecond, Inv, FilesTyped, Suites
<1>6. CASE CheckUnpinned \/ CheckWithoutCorpus
  BY <1>6, Ending DEF CheckUnpinned, CheckWithoutCorpus, Exits, Inv
<1>7. CASE Export
  <2>1. CASE ~world.resolves
    BY <1>7, <2>1, Ending DEF Export, Exits, Inv
  <2>2. CASE world.resolves
    BY <1>7, <2>2 DEF Export, Inv, RunTyped, RowsFollow, FilesTyped
  <2> QED
    BY <2>1, <2>2
<1>8. CASE JudgeClean
  <2>1. CleanOk \in BOOLEAN
    BY DEF CleanOk
  <2> QED
    BY <1>8, <2>1 DEF JudgeClean, Inv, RunTyped, RowsFollow, FilesTyped
<1>9. CASE JudgeMutant
  BY <1>9, RowAdded
<1>10. CASE Score
  <2>1. Len(rows) = Lengths[run.suite]
    BY <1>10, TheLengths DEF Score, Inv, RunTyped, RowsFollow
  <2>2. result'.status \in {"pass", "fail"} /\ result'.bridge \in DOMAIN Bridges
    BY <1>10 DEF Score, Tally, Inv, RunTyped
  <2> QED
    BY <1>10, <2>1, <2>2 DEF Score, Inv, RunTyped, RowsFollow, FilesTyped
<1>11. CASE Open
  BY <1>11 DEF Open, Inv, RunTyped, RowsFollow, FilesTyped
<1>12. CASE Write
  BY <1>12 DEF Write, Exits, Inv, RunTyped, RowsFollow, FilesTyped
<1>13. CASE Compare
  BY <1>13, Ending DEF Compare, Exits, Inv
<1>14. CASE Killed
  BY <1>14, Ending DEF Killed, Exits, Inv
<1>15. CASE UNCHANGED vars
  BY <1>15 DEF vars, Inv, RunTyped, RowsFollow, FilesTyped
<1> QED
  BY <1>1, <1>2, <1>3, <1>4, <1>5, <1>6, <1>7, <1>8, <1>9, <1>10, <1>11, <1>12, <1>13,
     <1>14, <1>15, <1>16 DEF Next

LEMMA Invariance == Spec => []Inv
BY Initially, Inductive, PTL DEF Spec

(* A run leaves a row for each mutant of its suite, in their order, built  *)
(* or not, before it scores (_v1_rows, _v2_rows, run).                     *)
THEOREM TypeCorrect == Spec => []TypeOK
<1>1. Inv => TypeOK
  <2> SUFFICES ASSUME Inv PROVE TypeOK
    OBVIOUS
  <2>1. \A i \in DOMAIN rows : rows[i].id = i /\ rows[i].ok \in BOOLEAN
    <3>1. rows \in Seq([id : Nat, ok : BOOLEAN]) /\ \A i \in DOMAIN rows : rows[i].id = i
      BY DEF Inv, RowsFollow
    <3>2. \A i \in DOMAIN rows : rows[i] \in [id : Nat, ok : BOOLEAN]
      <4> DEFINE Rows == [id : Nat, ok : BOOLEAN]
      <4>1. rows \in Seq(Rows)
        BY <3>1
      <4> HIDE DEF Rows
      <4>2. \A i \in DOMAIN rows : rows[i] \in Rows
        BY <4>1
      <4> QED
        BY <4>2 DEF Rows
    <3> QED
      BY <3>1, <3>2
  <2>2. phase \in {"publish", "write", "compare"} =>
          result.status \in {"pass", "fail"} /\ Len(rows) = Len(Mutants[run.suite])
    BY TheLengths DEF Inv, RunTyped, RowsFollow, FilesTyped
  <2>3. /\ world \in Worlds /\ RunTyped /\ clean \in BOOLEAN
        /\ phase \in {"idle", "export", "clean", "mutants", "publish", "write", "compare"}
        /\ exit \in {"none", "0", "1", "2", "unverified", "killed"}
    BY DEF Inv
  <2> HIDE DEF Inv
  <2> QED
    BY <2>1, <2>2, <2>3 DEF RunTyped, TypeOK
<1> QED
  BY <1>1, Invariance, PTL

LEMMA TheTable ==
  /\ Applied \ {11} = {1, 2, 3, 4, 5, 6, 7, 9, 10}
  /\ Mutants.v2[1].gate = "registry_check" /\ Mutants.v2[2].gate = "registry_check"
  /\ Mutants.v2[3].gate = "agents_render_check"
  /\ Mutants.v2[4].gate = "agents_bundle_verify"
  /\ Mutants.v2[5].gate = "frontmatter_check" /\ Mutants.v2[6].gate = "frontmatter_check"
  /\ Mutants.v2[7].gate = "agents_file_check"
  /\ Mutants.v2[9].gate = "content_preserved" /\ Mutants.v2[10].gate = "adr_links_resolve"
BY DEF Applied, Mutants, FirstMutants, Mutant

(* "A mutant must break one gate's rule": whatever corpus the suites are   *)
(* run over, each copy breaks the rule of its gate alone, or none because  *)
(* nothing was changed (_documents, the mutations).                        *)
THEOREM OneRulePerMutant == Spec => []MutantsBreakTheirGate
<1>1. Inv => MutantsBreakTheirGate
  <2> SUFFICES ASSUME Inv, NEW i \in Applied \ {11}, IsBuilt(i)
               PROVE  LET breaks == Breaks[world.corpus][i]
                      IN \/ breaks = {Mutants.v2[i].gate}
                         \/ breaks = {} /\ LeftAsItWas(i, world.corpus)
    BY DEF MutantsBreakTheirGate
  <2> DEFINE c == world.corpus
  <2>1. Offered(c)
    BY WorldsAssumption DEF Inv, Offered
  <2>2. c \in {w.corpus : w \in Worlds} /\ i \in Applied
    BY DEF Inv
  <2>3. Copies[c][i] = Mutated(i, c)
    BY <2>2 DEF Copies
  <2>4. Mutated(i, c) # NotBuilt
    BY <2>3 DEF IsBuilt, Copy
  <2>5. Breaks[c][i] = BrokenRules(Mutated(i, c))
    <3>1. DOMAIN Copies = {w.corpus : w \in Worlds}
      BY DEF Copies
    <3> QED
      BY <2>2, <2>3, <2>4, <3>1 DEF Breaks
  <2> HIDE DEF c
  <2> SUFFICES \/ BrokenRules(Mutated(i, c)) = {Mutants.v2[i].gate}
               \/ BrokenRules(Mutated(i, c)) = {} /\ LeftAsItWas(i, c)
    BY <2>5 DEF c
  <2>6. CASE i = 1
    BY <2>1, <2>4, <2>6, FirstBreaks, TheTable DEF Mutated, Only
  <2>7. CASE i = 2
    BY <2>1, <2>4, <2>7, SecondBreaks, TheTable DEF Mutated, Only
  <2>8. CASE i = 3
    BY <2>1, <2>4, <2>8, ThirdBreaks, TheTable DEF Mutated, Only
  <2>9. CASE i = 4
    BY <2>1, <2>4, <2>9, FourthBreaks, TheTable DEF Mutated, Only
  <2>10. CASE i = 5
    BY <2>1, <2>4, <2>10, FifthBreaks, TheTable DEF Mutated, Only
  <2>11. CASE i = 6
    BY <2>1, <2>4, <2>11, SixthBreaks, TheTable DEF Mutated, Only
  <2>12. CASE i = 7
    BY <2>1, <2>4, <2>12, SeventhBreaks, TheTable DEF Mutated, Only
  <2>13. CASE i = 9
    BY <2>1, <2>4, <2>13, NinthBreaks, TheTable DEF Mutated, Only
  <2>14. CASE i = 10
    BY <2>1, <2>4, <2>14, TenthBreaks, TheTable DEF Mutated, Only
  <2> QED
    BY <2>6, <2>7, <2>8, <2>9, <2>10, <2>11, <2>12, <2>13, <2>14, TheTable
<1> QED
  BY <1>1, Invariance, PTL

-----------------------------------------------------------------------------
(* What a suite scores: the unmutated copy, each mutant and the eighth, as *)
(* what they say of the gates.                                             *)

Otherwise(g) == BehaviourOf(g).otherwise

(* Nothing is said of a corpus but that nothing is wrong with it.          *)
Content == \A g \in Names[run.suite] : Otherwise(g) \in {Passed, NotApplied}

(* The gates of a suite, and what is aimed at them.                        *)
LEMMA TheGates ==
  /\ Names["v1"] = StructuralGates
  /\ Names["v2"] = StructuralGates \cup {"content_preserved", "adr_links_resolve"}
  /\ "content_preserved" \notin StructuralGates /\ "adr_links_resolve" \notin StructuralGates
  /\ \A suite \in Suites : Names[suite] \subseteq Names["v2"] /\ "registry_check" \in Names[suite]
BY DEF Names, StructuralGates, Suites

(* The mutants' numbers: all but the eighth are applied to a copy.         *)
LEMMA TheNumbers ==
  /\ DOMAIN Mutants["v2"] = 1..11 /\ DOMAIN Mutants["v1"] = 1..8
  /\ Applied = (1..11) \ {8}
  /\ 0 \notin Applied /\ 8 \notin Applied /\ 12 \notin Applied
<1>1. DOMAIN Mutants["v2"] = 1..11 /\ DOMAIN Mutants["v1"] = 1..8
  BY DEF Mutants, FirstMutants
<1> QED
  BY <1>1 DEF Applied

(* The gate of each mutant, and the outcome it must have.                  *)
LEMMA TheAims ==
  /\ \A i \in 1..7 : /\ Mutants["v2"][i].gate \in StructuralGates
                     /\ Mutants["v2"][i].expected = "FALSE_DONE"
  /\ Mutants["v2"][8].gate \notin Names["v2"] /\ Mutants["v2"][8].expected = "UNKNOWN"
  /\ Mutants["v2"][9].gate = "content_preserved" /\ Mutants["v2"][9].expected = "FALSE_DONE"
  /\ Mutants["v2"][10].gate = "adr_links_resolve" /\ Mutants["v2"][10].expected = "FALSE_DONE"
  /\ Mutants["v2"][11].gate = "adr_links_resolve" /\ Mutants["v2"][11].expected = "UNKNOWN"
<1>1. /\ Mutants["v2"][1].expected = "FALSE_DONE" /\ Mutants["v2"][2].expected = "FALSE_DONE"
      /\ Mutants["v2"][3].expected = "FALSE_DONE" /\ Mutants["v2"][4].expected = "FALSE_DONE"
      /\ Mutants["v2"][5].expected = "FALSE_DONE" /\ Mutants["v2"][6].expected = "FALSE_DONE"
      /\ Mutants["v2"][7].expected = "FALSE_DONE"
  BY DEF Mutants, FirstMutants, Mutant
<1>2. Mutants["v2"][8].gate \notin Names["v2"] /\ Mutants["v2"][8].expected = "UNKNOWN"
  <2>1. \A x, a, b : x = Mutant(a, b) => x.gate = a /\ x.expected = b
    BY DEF Mutant
  <2>2. FirstMutants[8] = Mutant("every gate", "UNKNOWN")
    BY DEF FirstMutants
  <2>3. ASSUME NEW a, NEW b, NEW c PROVE (FirstMutants \o <<a, b, c>>)[8] = FirstMutants[8]
    BY DEF FirstMutants
  <2>4. \E a, b, c : Mutants["v2"] = FirstMutants \o <<a, b, c>>
    <3>1. Mutants["v2"] = FirstMutants \o <<Mutant("content_preserved", "FALSE_DONE"),
                                           Mutant("adr_links_resolve", "FALSE_DONE"),
                                           Mutant("adr_links_resolve", "UNKNOWN")>>
      BY DEF Mutants
    <3> QED
      BY <3>1, Zenon
  <2>5. Mutants["v2"][8] = FirstMutants[8]
    BY <2>3, <2>4, Zenon
  <2>6. Mutants["v2"][8] = Mutant("every gate", "UNKNOWN")
    BY <2>2, <2>5, Zenon
  <2>7. "every gate" \notin Names["v2"]
    BY Zenon DEF Names, StructuralGates
  <2> QED
    BY <2>1, <2>6, <2>7, Zenon
<1>5. Mutants["v2"][9].expected = "FALSE_DONE" /\ Mutants["v2"][10].expected = "FALSE_DONE"
  BY DEF Mutants, FirstMutants, Mutant
<1>6. Mutants["v2"][11].gate = "adr_links_resolve" /\ Mutants["v2"][11].expected = "UNKNOWN"
  BY DEF Mutants, FirstMutants, Mutant
<1>3. ASSUME NEW i \in 1..7
      PROVE  Mutants["v2"][i].gate \in StructuralGates /\ Mutants["v2"][i].expected = "FALSE_DONE"
  <2>1. i = 1 \/ i = 2 \/ i = 3 \/ i = 4 \/ i = 5 \/ i = 6 \/ i = 7
    OBVIOUS
  <2>2. Mutants["v2"][i].gate \in StructuralGates
    BY <2>1, TheTable DEF StructuralGates
  <2> QED
    BY <1>1, <2>1, <2>2
<1>4. /\ Mutants["v2"][9].gate = "content_preserved"
      /\ Mutants["v2"][10].gate = "adr_links_resolve"
  BY TheTable
<1> QED
  BY <1>2, <1>3, <1>4, <1>5, <1>6, Zenon

(* A gate is one of six things; two of them find nothing wrong.            *)
LEMMA FindsNothing ==
  /\ Passed \in Gate /\ Failed \in Gate /\ NotApplied \in Gate /\ Unavailable \in Gate
  /\ \A x \in Gate : x \in {Passed, NotApplied} <=> x.result # "fail" /\ x.available
  /\ \A x \in {Passed, NotApplied} : x = Passed <=> x.result = "pass"
  /\ Failed.result = "fail" /\ Unavailable.result # "fail" /\ ~Unavailable.available
  /\ NotApplied.result = "not-run" /\ Unavailable.result = "not-run"
  /\ Passed.result = "pass" /\ Passed.available /\ NotApplied.available
BY DEF Gate, Results, Passed, Failed, NotApplied, Unavailable

(* What the outcomes say of the gates.                                     *)
LEMMA OutcomesAre ==
  ASSUME NEW gates
  PROVE  /\ OutcomeOf(gates) = "FALSE_DONE" <=> \E g \in DOMAIN gates : gates[g].result = "fail"
         /\ OutcomeOf(gates) = "TRUE_DONE" <=>
              /\ \A g \in DOMAIN gates : gates[g].result # "fail" /\ gates[g].available
              /\ \E g \in DOMAIN gates : gates[g].result = "pass"
         /\ OutcomeOf(gates) = "UNKNOWN" <=>
              /\ \A g \in DOMAIN gates : gates[g].result # "fail"
              /\ \/ \E g \in DOMAIN gates : ~gates[g].available
                 \/ \A g \in DOMAIN gates : gates[g].result # "pass"
BY DEF OutcomeOf

(* Whatever gate the instrument has, it behaves somehow.                   *)
LEMMA Behaving ==
  ASSUME Inv, NEW g \in Names["v2"]
  PROVE  /\ BehaviourOf(g) = BehavesAt(world, run.bridge, g)
         /\ BehaviourOf(g).catches \subseteq 1..11
         /\ Otherwise(g) \in Gate
<1>1. world \in Worlds /\ run.bridge \in DOMAIN Bridges
  BY DEF Inv, RunTyped
<1>2. world.gates \in [Names["v2"] \ {"adr_links_resolve"} -> Behaviours]
  BY <1>1, WorldsAssumption
<1>3. BehaviourOf(g) \in Behaviours
  BY <1>1, <1>2, BridgesAssumption DEF BehaviourOf
<1> QED
  BY <1>3, TheNumbers DEF Behaviours, BehaviourOf, BehavesAt, Otherwise

(* What can be caught at all: a copy that was built, and no probe.         *)
LEMMA DefectsAre ==
  ASSUME Inv
  PROVE  /\ Defects[world.corpus] \subseteq Applied
         /\ \A i \in Defects[world.corpus] : IsBuilt(i)
         /\ {Clean, Emptied, Absent} \cap Defects[world.corpus] = {}
<1>1. world.corpus \in DOMAIN Copies
  BY DEF Inv, Copies
<1>2. Defects[world.corpus] = {i \in Applied : Copies[world.corpus][i] # NotBuilt
                                               /\ (i = 11 \/ Breaks[world.corpus][i] # {})}
  BY <1>1 DEF Defects
<1>3. \A i \in Defects[world.corpus] : IsBuilt(i)
  BY <1>2 DEF IsBuilt, Copy
<1> QED
  BY <1>2, <1>3, TheNumbers DEF Clean, Emptied, Absent

(* What the suite is told of a copy.                                       *)
LEMMA TheJudgement ==
  ASSUME Inv, NEW copy \in Nat
  PROVE  /\ DOMAIN Judgement(copy) = Names[run.suite]
         /\ copy \notin world.refuses =>
              \A g \in Names[run.suite] : Judgement(copy)[g] = Says(g, copy)
         /\ copy \in world.refuses =>
              \A g \in Names[run.suite] :
                Judgement(copy)[g] = IF copy = Emptied THEN NotApplied ELSE Unavailable
BY DEF Judgement

(* What may go unjudged is the two probes of the eighth and nothing else.  *)
LEMMA Refusing ==
  ASSUME Inv
  PROVE  world.refuses \subseteq {8, 12}
BY WorldsAssumption DEF Inv, Emptied, Absent

(* The unmutated copy is as it must be where nothing is wrong with it and  *)
(* something, in the second suite both of its gates, says so.              *)
LEMMA CleanSays ==
  ASSUME Inv
  PROVE  CleanOk <=>
           /\ Content
           /\ \E g \in Names[run.suite] : Otherwise(g) = Passed
           /\ run.suite = "v2" =>
                /\ OffersStubs(world.corpus)
                /\ Otherwise("content_preserved") = Passed
                /\ Otherwise("adr_links_resolve") = Passed
<1>1. run.suite \in Suites /\ Names[run.suite] \subseteq Names["v2"]
  BY TheGates DEF Inv, RunTyped
<1>2. Clean \notin world.refuses /\ Clean \in Nat /\ Clean \notin Defects[world.corpus]
  BY Refusing, DefectsAre DEF Clean
<1>3. \A g \in Names["v2"] : Says(g, Clean) = Otherwise(g)
  BY <1>2, TheGates DEF Says, Applies, Otherwise
<1>4. /\ DOMAIN Judgement(Clean) = Names[run.suite]
      /\ \A g \in Names[run.suite] : Judgement(Clean)[g] = Otherwise(g)
  BY <1>1, <1>2, <1>3, TheJudgement
<1>5. \A g \in Names[run.suite] :
        /\ Otherwise(g) \in {Passed, NotApplied}
             <=> Otherwise(g).result # "fail" /\ Otherwise(g).available
        /\ Otherwise(g) \in {Passed, NotApplied} =>
             (Otherwise(g) = Passed <=> Otherwise(g).result = "pass")
  BY <1>1, Behaving, FindsNothing
<1>6. OutcomeOf(Judgement(Clean)) = "TRUE_DONE" <=>
        Content /\ \E g \in Names[run.suite] : Otherwise(g) = Passed
  BY <1>4, <1>5, OutcomesAre DEF Content
<1>7. run.suite = "v2" =>
        {"content_preserved", "adr_links_resolve"} \subseteq Names[run.suite]
  BY TheGates
<1>8. Content => (run.suite = "v2" =>
        \A g \in {"content_preserved", "adr_links_resolve"} :
          Judgement(Clean)[g].result = "pass" <=> Otherwise(g) = Passed)
  BY <1>4, <1>5, <1>7 DEF Content
<1> QED
  BY <1>6, <1>8 DEF CleanOk

(* A mutant that must be caught is where its gate sees it and the copy is  *)
(* broken, whatever the other gates say.                                   *)
LEMMA MutantCaught ==
  ASSUME Inv, Content, NEW i \in (1..11) \ {8, 11}, Mutants["v2"][i].gate \in Names[run.suite]
  PROVE  RowOf(i).ok <=>
           /\ i \in BehaviourOf(Mutants["v2"][i].gate).catches
           /\ i \in Defects[world.corpus]
<1> DEFINE gate == Mutants["v2"][i].gate
<1>1. /\ i \in Nat /\ i # 8 /\ i # 11 /\ i \notin world.refuses
      /\ Mutants["v2"][i].expected = "FALSE_DONE"
      /\ gate \in StructuralGates \/ (i = 9 /\ gate = "content_preserved")
           \/ (i = 10 /\ gate = "adr_links_resolve")
  <2>1. i \in 1..7 \/ i = 9 \/ i = 10
    OBVIOUS
  <2>2. i \notin world.refuses
    BY Refusing
  <2> QED
    BY <2>1, <2>2, TheAims
<1>2. Applies(gate, i)
  BY <1>1 DEF Applies
<1>3. Judgement(i)[gate] = Says(gate, i) /\ DOMAIN Judgement(i) = Names[run.suite]
  BY <1>1, TheJudgement
<1>4. Otherwise(gate).result # "fail"
  BY FindsNothing DEF Content
<1>5. Judgement(i)[gate].result = "fail" <=>
        i \in BehaviourOf(gate).catches /\ i \in Defects[world.corpus]
  BY <1>1, <1>2, <1>3, <1>4, FindsNothing DEF Says, Otherwise
<1>6. Entry(i, Judgement(i)) <=> Judgement(i)[gate].result = "fail"
  BY <1>1, <1>3, OutcomesAre DEF Entry, FailedGates
<1>7. RowOf(i).ok <=> IsBuilt(i) /\ Entry(i, Judgement(i))
  BY <1>1 DEF RowOf, Row
<1> QED
  BY <1>5, <1>6, <1>7, DefectsAre

(* The eleventh takes the bridge away, and its gate has to say so.         *)
LEMMA BridgeMissed ==
  ASSUME Inv, Content, run.suite = "v2"
  PROVE  RowOf(11).ok <=>
           /\ 11 \in BehaviourOf("adr_links_resolve").catches
           /\ 11 \in Defects[world.corpus]
<1> DEFINE adr == "adr_links_resolve"
<1>1. /\ 11 \notin world.refuses
      /\ Mutants["v2"][11].gate = adr /\ Mutants["v2"][11].expected = "UNKNOWN"
      /\ adr \in Names[run.suite] /\ Names[run.suite] = Names["v2"]
  BY Refusing, TheAims, TheGates
<1>2. /\ DOMAIN Judgement(11) = Names[run.suite]
      /\ \A g \in Names[run.suite] : Judgement(11)[g] = Says(g, 11)
  BY <1>1, TheJudgement
<1>3. \A g \in Names[run.suite] :
        \/ Says(g, 11) = NotApplied
        \/ Says(g, 11) = Otherwise(g)
        \/ Says(g, 11) = Unavailable
  BY <1>1 DEF Says, Otherwise
<1>4. \A g \in Names[run.suite] : Judgement(11)[g].result # "fail"
  BY <1>2, <1>3, FindsNothing DEF Content
<1>5. Applies(adr, 11)
  BY DEF Applies
<1>6. ~Judgement(11)[adr].available <=>
        11 \in BehaviourOf(adr).catches /\ 11 \in Defects[world.corpus]
  BY <1>1, <1>2, <1>5, FindsNothing DEF Says, Otherwise, Content
<1>7. ~Judgement(11)[adr].available => OutcomeOf(Judgement(11)) = "UNKNOWN"
  BY <1>1, <1>2, <1>4, OutcomesAre
<1>8. RowOf(11).ok <=>
        IsBuilt(11) /\ Entry(11, Judgement(11)) /\ ~Judgement(11)[adr].available
  BY <1>1 DEF RowOf, Row, SaysUnavailable
<1>9. Entry(11, Judgement(11)) <=> OutcomeOf(Judgement(11)) = "UNKNOWN"
  BY <1>1 DEF Entry
<1> QED
  BY <1>6, <1>7, <1>8, <1>9, DefectsAre

(* Nothing is said over an empty corpus: the instrument refuses to judge,  *)
(* or has no gate of the files' that could pass.                           *)
LEMMA EighthMissed ==
  ASSUME Inv, Content
  PROVE  RowOf(8).ok <=>
           /\ world.corpus.docs
           /\ (\E g \in StructuralGates : Otherwise(g) = Passed) => world.refuses = {8, 12}
<1>1. /\ Mutants["v2"][8].expected = "UNKNOWN"
      /\ StructuralGates \subseteq Names[run.suite] /\ Names[run.suite] \subseteq Names["v2"]
      /\ "registry_check" \in Names[run.suite]
  BY TheAims, TheGates DEF Inv, RunTyped, Suites
<1>2. ASSUME NEW copy \in {8, 12}
      PROVE  Entry(8, Judgement(copy)) <=>
               copy \in world.refuses \/ \A g \in StructuralGates : Otherwise(g) # Passed
  <2>1. Entry(8, Judgement(copy)) <=> OutcomeOf(Judgement(copy)) = "UNKNOWN"
    BY <1>1 DEF Entry
  <2>2. CASE copy \in world.refuses
    <3>1. \A g \in Names[run.suite] : Judgement(copy)[g] \in {NotApplied, Unavailable}
      BY <2>2, TheJudgement
    <3>2. \A g \in DOMAIN Judgement(copy) : Judgement(copy)[g].result = "not-run"
      BY <3>1, TheJudgement, FindsNothing
    <3> QED
      BY <2>1, <2>2, <3>2, OutcomesAre
  <2>3. CASE copy \notin world.refuses
    <3>1. copy \notin Defects[world.corpus] /\ copy \notin {Clean, 9, 10, 11}
      BY DefectsAre DEF Emptied, Absent, Clean
    <3>2. \A g \in Names[run.suite] :
            Judgement(copy)[g] = IF g \in StructuralGates THEN Otherwise(g) ELSE NotApplied
      BY <2>3, <3>1, TheJudgement DEF Says, Applies, Otherwise
    <3>3. \A g \in Names[run.suite] :
            /\ Judgement(copy)[g].result # "fail" /\ Judgement(copy)[g].available
            /\ Judgement(copy)[g].result = "pass" <=>
                 g \in StructuralGates /\ Otherwise(g) = Passed
      BY <3>2, FindsNothing DEF Content
    <3>4. DOMAIN Judgement(copy) = Names[run.suite]
      BY TheJudgement
    <3> QED
      BY <1>1, <2>1, <2>3, <3>3, <3>4, OutcomesAre
  <2> QED
    BY <2>2, <2>3
<1>3. RowOf(8).ok <=>
        world.corpus.docs /\ Entry(8, Judgement(8)) /\ Entry(8, Judgement(12))
  BY DEF RowOf, Eighth, Row, Emptied, Absent
<1>4. world.refuses \subseteq {8, 12}
  BY Refusing
<1> QED
  BY <1>2, <1>3, <1>4

(* A table whose rows were all caught is one that counts as many as it has.*)
LEMMA CountingRows ==
  ASSUME NEW T \in Seq([id : Nat, ok : BOOLEAN])
  PROVE  Cardinality({i \in DOMAIN T : T[i].ok}) = Len(T) <=> \A i \in DOMAIN T : T[i].ok
<1> DEFINE caught == {i \in DOMAIN T : T[i].ok}
<1>1. Len(T) \in Nat /\ DOMAIN T = 1..Len(T)
  OBVIOUS
<1>2. IsFiniteSet(1..Len(T)) /\ Cardinality(1..Len(T)) = Len(T)
  BY <1>1, FS_Interval, SMTT(30)
<1>3. caught \in SUBSET (1..Len(T))
  BY <1>1
<1>4. Cardinality(caught) = Len(T) => caught = 1..Len(T)
  BY <1>2, <1>3, FS_Subset
<1>5. (\A i \in DOMAIN T : T[i].ok) => caught = 1..Len(T)
  BY <1>1
<1>6. caught = 1..Len(T) => \A i \in DOMAIN T : T[i].ok
  BY <1>1
<1> HIDE DEF caught
<1>7. Cardinality(caught) = Len(T) <=> \A i \in DOMAIN T : T[i].ok
  BY <1>2, <1>4, <1>5, <1>6
<1> QED
  BY <1>7 DEF caught

(* What is aimed at a suite's gates is the suite's mutants but the eighth. *)
LEMMA TheMutants ==
  ASSUME Inv
  PROVE  LET numbers == (1..Lengths[run.suite]) \ {8}
         IN /\ DOMAIN Mutants[run.suite] \ {8} = numbers
            /\ 8 \in 1..Lengths[run.suite] /\ numbers \subseteq 1..11
            /\ \A i \in numbers : Mutants["v2"][i].gate \in Names[run.suite]
            /\ \A g \in Names[run.suite] :
                 AimedAt[g] = {i \in numbers : Mutants["v2"][i].gate = g}
<1>1. CASE run.suite = "v1"
  <2>1. /\ Lengths[run.suite] = 8 /\ DOMAIN Mutants[run.suite] = 1..8
        /\ Names[run.suite] = StructuralGates
    BY <1>1, TheNumbers, TheGates DEF Lengths
  <2>2. \A g \in Names[run.suite] : AimedAt[g] = {i \in 1..11 : Mutants["v2"][i].gate = g}
    BY <2>1, TheNumbers, TheGates DEF AimedAt
  <2>3. \A i \in 1..11 : i \in (1..8) \ {8} \/ Mutants["v2"][i].gate \notin StructuralGates
    <3>1. \A i \in 1..11 : i \in (1..8) \ {8} \/ i = 8 \/ i = 9 \/ i = 10 \/ i = 11
      OBVIOUS
    <3> QED
      BY <3>1, TheAims, TheGates
  <2>4. \A i \in (1..8) \ {8} : Mutants["v2"][i].gate \in StructuralGates
    BY TheAims
  <2> QED
    BY <2>1, <2>2, <2>3, <2>4
<1>2. CASE run.suite = "v2"
  <2>1. /\ Lengths[run.suite] = 11 /\ DOMAIN Mutants[run.suite] = 1..11
        /\ Names[run.suite] = Names["v2"]
    BY <1>2, TheNumbers DEF Lengths
  <2>2. \A g \in Names["v2"] : AimedAt[g] = {i \in 1..11 : Mutants["v2"][i].gate = g}
    BY TheNumbers DEF AimedAt
  <2>3. \A i \in (1..11) \ {8} : Mutants["v2"][i].gate \in Names["v2"]
    <3>1. \A i \in (1..11) \ {8} : i \in 1..7 \/ i = 9 \/ i = 10 \/ i = 11
      OBVIOUS
    <3> QED
      BY <3>1, TheAims, TheGates
  <2>4. Mutants["v2"][8].gate \notin Names["v2"]
    BY TheAims
  <2> QED
    BY <2>1, <2>2, <2>3, <2>4
<1> QED
  BY <1>1, <1>2 DEF Inv, RunTyped, Suites

(* Everything a suite looks at is as it must be exactly where the          *)
(* instrument is calibrated and the corpus offers every mutant.            *)
LEMMA AllCaught ==
  ASSUME Inv
  PROVE  CleanOk /\ (\A i \in 1..Lengths[run.suite] : RowOf(i).ok)
           <=> Calibrated(run.suite, world, run.bridge) /\ Offers(run.suite, world)
<1> DEFINE numbers == (1..Lengths[run.suite]) \ {8}
           Sees == \A i \in numbers : i \in BehaviourOf(Mutants["v2"][i].gate).catches
           Broken8 == (\E g \in StructuralGates : Otherwise(g) = Passed) => world.refuses = {8, 12}
           Able == /\ \E g \in Names[run.suite] : Otherwise(g) = Passed
                   /\ run.suite = "v2" =>
                        /\ Otherwise("content_preserved") = Passed
                        /\ Otherwise("adr_links_resolve") = Passed
<1>1. /\ DOMAIN Mutants[run.suite] \ {8} = numbers
      /\ 8 \in 1..Lengths[run.suite] /\ numbers \subseteq 1..11
      /\ \A i \in numbers : Mutants["v2"][i].gate \in Names[run.suite]
      /\ \A g \in Names[run.suite] : AimedAt[g] = {i \in numbers : Mutants["v2"][i].gate = g}
  BY TheMutants
<1>2. Names[run.suite] \subseteq Names["v2"] /\ StructuralGates \subseteq Names["v2"]
      /\ (run.suite = "v2" =>
            {"content_preserved", "adr_links_resolve"} \subseteq Names["v2"])
  BY TheGates DEF Inv, RunTyped
<1>3. \A g \in Names["v2"] : /\ BehavesAt(world, run.bridge, g) = BehaviourOf(g)
                             /\ BehavesAt(world, run.bridge, g).otherwise = Otherwise(g)
  BY Behaving DEF Otherwise
<1>4. Sees <=> \A g \in Names[run.suite] : AimedAt[g] \subseteq BehaviourOf(g).catches
  BY <1>1
<1>5. Calibrated(run.suite, world, run.bridge) <=> Sees /\ Content /\ Able /\ Broken8
  BY <1>2, <1>3, <1>4 DEF Calibrated, Content, Emptied, Absent
<1>6. Offers(run.suite, world) <=>
        /\ world.corpus.docs
        /\ numbers \subseteq Defects[world.corpus]
        /\ run.suite = "v2" => OffersStubs(world.corpus)
  BY <1>1 DEF Offers
<1>7. CleanOk <=> Content /\ Able /\ (run.suite = "v2" => OffersStubs(world.corpus))
  BY CleanSays
<1>8. ASSUME Content, NEW i \in numbers
      PROVE  RowOf(i).ok <=> /\ i \in BehaviourOf(Mutants["v2"][i].gate).catches
                             /\ i \in Defects[world.corpus]
  <2>1. i \in (1..11) \ {8} /\ Mutants["v2"][i].gate \in Names[run.suite]
    BY <1>1
  <2>2. CASE i # 11
    BY <1>8, <2>1, <2>2, MutantCaught
  <2>3. CASE i = 11
    <3>1. run.suite = "v2"
      BY <2>3 DEF Inv, RunTyped, Suites, Lengths
    <3>2. Mutants["v2"][i].gate = "adr_links_resolve"
      BY <2>3, TheAims
    <3> QED
      BY <1>8, <2>3, <3>1, <3>2, BridgeMissed
  <2> QED
    BY <2>2, <2>3
<1>9. Content => (RowOf(8).ok <=> world.corpus.docs /\ Broken8)
  BY EighthMissed
<1>10. (\A i \in 1..Lengths[run.suite] : RowOf(i).ok)
         <=> (\A i \in numbers : RowOf(i).ok) /\ RowOf(8).ok
  BY <1>1
<1>11. Content => ((\A i \in numbers : RowOf(i).ok)
                     <=> Sees /\ numbers \subseteq Defects[world.corpus])
  BY <1>8
<1> HIDE DEF numbers, Sees, Broken8, Able
<1> QED
  BY <1>5, <1>6, <1>7, <1>9, <1>10, <1>11

-----------------------------------------------------------------------------
(* A run, from its start to what it publishes or compares.                 *)

Judging == {"mutants", "publish", "write", "compare"}
Scored == {"publish", "write", "compare"}

(* A run that writes does not check; CI's check of the second suite goes   *)
(* through the bridge the published file names; and what has been judged   *)
(* and scored is of the world and the bridge as they are.                  *)
RunInv ==
  /\ phase \in {"publish", "write"} => ~run.check
  /\ phase = "compare" => run.check
  /\ phase # "idle" => exit = "none"
  /\ phase # "idle" /\ run.by = "ci" /\ run.check /\ run.suite = "v2" =>
       published["v2"] \notin {NoFile, Torn} /\ run.bridge = published["v2"].bridge
  /\ phase \in Judging => clean = CleanOk
  /\ phase \in Judging => \A i \in DOMAIN rows : rows[i] = RowOf(i)
  /\ phase \in Scored =>
       /\ result.world = world /\ result.bridge = run.bridge
       /\ result.status = "pass" <=> clean /\ \A i \in DOMAIN rows : rows[i].ok

(* A result is a pass exactly where the instrument is calibrated.          *)
LEMMA ResultIsTrue ==
  ASSUME Inv, RunInv, phase \in Scored
  PROVE  result.status = "pass" <=>
           Calibrated(run.suite, result.world, result.bridge) /\ Offers(run.suite, result.world)
<1>1. DOMAIN rows = 1..Lengths[run.suite]
  BY DEF Inv, RowsFollow, Scored
<1>2. /\ result.world = world /\ result.bridge = run.bridge
      /\ result.status = "pass" <=> CleanOk /\ \A i \in DOMAIN rows : RowOf(i).ok
  BY DEF RunInv, Scored, Judging
<1> QED
  BY <1>1, <1>2, AllCaught

(* The inductive invariant: what is published can only be called true by   *)
(* what the run knew when it scored, so the two are carried together.      *)
CalInv == Inv /\ RunInv /\ ScoreIsCalibration /\ GreenIsStillTrue

(* At first nothing is published, and no run has ended.                    *)
LEMMA CalInit == Init => CalInv
BY Initially DEF Init, CalInv, RunInv, ScoreIsCalibration, GreenIsStillTrue, Judging, Scored,
                 NoRun, Suites

(* What a copy is judged to be depends on the world and the run alone.     *)
LEMMA JudgedTheSame ==
  ASSUME UNCHANGED <<world, run>>
  PROVE  /\ (CleanOk <=> CleanOk')
         /\ \A i : RowOf(i)' = RowOf(i)
<1>1. \A g : BehaviourOf(g)' = BehaviourOf(g)
  BY DEF BehaviourOf
<1>2. \A g, copy : Says(g, copy)' = Says(g, copy)
  BY <1>1 DEF Says
<1>3. \A copy : Judgement(copy)' = Judgement(copy)
  BY <1>2 DEF Judgement
<1>4. CleanOk <=> CleanOk'
  BY <1>3 DEF CleanOk
<1>5. Eighth' = Eighth
  BY <1>3 DEF Eighth
<1>6. \A i : IsBuilt(i)' = IsBuilt(i)
  BY DEF IsBuilt, Copy
<1>7. \A i : RowOf(i)' = RowOf(i)
  BY <1>3, <1>5, <1>6 DEF RowOf
<1> QED
  BY <1>4, <1>7

(* A step that ends a run without a green leaves what was published.       *)
LEMMA RunEnds ==
  ASSUME CalInv, Inv', phase' = "idle", exit' # "0", UNCHANGED <<published>>
  PROVE  CalInv'
BY DEF CalInv, RunInv, ScoreIsCalibration, GreenIsStillTrue, Judging, Scored

LEMMA RunBegins ==
  ASSUME CalInv, Inv', NEW suite \in Suites, NEW check \in BOOLEAN, NEW by, NEW bridge,
         Begin(suite, check, by, bridge),
         by = "ci" /\ check /\ suite = "v2" =>
           published["v2"] \notin {NoFile, Torn} /\ bridge = published["v2"].bridge
  PROVE  CalInv'
BY DEF CalInv, RunInv, ScoreIsCalibration, GreenIsStillTrue, Judging, Scored, Begin

(* A run that has ended nothing yet: what is published and exited is as it *)
(* was, so only the run's own part is left to show.                        *)
LEMMA RunGoesOn ==
  ASSUME CalInv, Inv', RunInv', phase # "idle", UNCHANGED <<world, run, published, exit>>
  PROVE  CalInv'
BY DEF CalInv, RunInv, ScoreIsCalibration, GreenIsStillTrue

(* The verdict on the unmutated copy is that of the world it was made in.  *)
LEMMA CleanJudged == ASSUME CalInv, Inv', JudgeClean PROVE CalInv'
<1>1. /\ phase = "clean" /\ phase' = "mutants" /\ clean' = CleanOk
      /\ UNCHANGED <<world, runs, run, next, rows, result, published, exit>>
  BY DEF JudgeClean
<1>2. rows' = << >> /\ (CleanOk <=> CleanOk')
  BY <1>1, JudgedTheSame DEF CalInv, Inv, RowsFollow
<1>3. CleanOk \in BOOLEAN /\ CleanOk' \in BOOLEAN
  BY DEF CleanOk
<1>4. RunInv'
  BY <1>1, <1>2, <1>3 DEF CalInv, RunInv, Judging, Scored
<1> QED
  BY <1>1, <1>4, RunGoesOn

(* Each row is what its mutant is judged to be, in this world.             *)
LEMMA MutantJudged == ASSUME CalInv, Inv', JudgeMutant PROVE CalInv'
<1>1. /\ phase = "mutants" /\ phase' = "mutants" /\ rows' = Append(rows, RowOf(next))
      /\ UNCHANGED <<world, runs, run, clean, result, published, exit>>
  BY DEF JudgeMutant, CalInv, Inv
<1>2. (CleanOk <=> CleanOk') /\ \A i : RowOf(i)' = RowOf(i)
  BY <1>1, JudgedTheSame
<1>3. rows \in Seq([id : Nat, ok : BOOLEAN]) /\ next = Len(rows) + 1
  BY DEF CalInv, Inv, RowsFollow
<1> DEFINE row == RowOf(next)
<1> HIDE DEF row
<1>4. /\ DOMAIN rows' = DOMAIN rows \cup {next}
      /\ rows'[next] = row
      /\ \A i \in DOMAIN rows : rows'[i] = rows[i]
  <2>1. rows' = Append(rows, row)
    BY <1>1 DEF row
  <2>2. row \in [id : Nat, ok : BOOLEAN]
    <3>1. next \in Nat
      BY <1>3
    <3> QED
      BY <3>1 DEF row, RowOf, Row, Eighth
  <2> QED
    BY <1>3, <2>1, <2>2
<1>5. \A i \in DOMAIN rows : rows[i] = RowOf(i)
  BY <1>1 DEF CalInv, RunInv, Judging
<1>6. \A i \in DOMAIN rows' : rows'[i] = RowOf(i)'
  BY <1>2, <1>4, <1>5 DEF row
<1>7. CleanOk \in BOOLEAN /\ CleanOk' \in BOOLEAN
  BY DEF CleanOk
<1>8. clean = CleanOk /\ clean' = CleanOk'
  BY <1>1, <1>2, <1>7 DEF CalInv, RunInv, Judging
<1>9. RunInv'
  BY <1>1, <1>6, <1>8 DEF CalInv, RunInv, Scored
<1> QED
  BY <1>1, <1>9, RunGoesOn

(* The tally passes exactly where the unmutated copy did and every row was *)
(* caught.                                                                 *)
LEMMA Scoring == ASSUME CalInv, Inv', Score PROVE CalInv'
<1>1. /\ phase = "mutants" /\ phase' = IF run.check THEN "compare" ELSE "publish"
      /\ result' = [status |-> Tally.status, score |-> Tally.score,
                    world |-> world, bridge |-> run.bridge]
      /\ UNCHANGED <<world, runs, run, next, clean, rows, published, exit>>
      /\ next > Len(Mutants[run.suite])
  BY DEF Score
<1>2. /\ rows \in Seq([id : Nat, ok : BOOLEAN]) /\ next = Len(rows) + 1
      /\ Len(rows) <= Lengths[run.suite] /\ run.suite \in Suites
  BY DEF CalInv, Inv, RowsFollow, RunTyped
<1>3. Len(rows) = Len(Mutants[run.suite])
  BY <1>1, <1>2, TheLengths
<1>4. Cardinality({i \in DOMAIN rows : rows[i].ok}) = Len(rows)
        <=> \A i \in DOMAIN rows : rows[i].ok
  BY <1>2, CountingRows
<1>5. Tally.status = "pass" <=> clean /\ \A i \in DOMAIN rows : rows[i].ok
  BY <1>3, <1>4 DEF Tally
<1>6. /\ result'.world = world' /\ result'.bridge = run'.bridge
      /\ result'.status = "pass" <=> clean' /\ \A i \in DOMAIN rows' : rows'[i].ok
  BY <1>1, <1>5
<1>7. (CleanOk <=> CleanOk') /\ \A i : RowOf(i)' = RowOf(i)
  BY <1>1, JudgedTheSame
<1>8. clean' = CleanOk' /\ \A i \in DOMAIN rows' : rows'[i] = RowOf(i)'
  <2>1. CleanOk \in BOOLEAN /\ CleanOk' \in BOOLEAN
    BY DEF CleanOk
  <2> QED
    BY <1>1, <1>7, <2>1 DEF CalInv, RunInv, Judging
<1>9. RunInv'
  BY <1>1, <1>6, <1>8 DEF CalInv, RunInv, Judging
<1> QED
  BY <1>1, <1>9, RunGoesOn

(* While it is written over, the file holds neither the old pass nor a new.*)
LEMMA Opened == ASSUME CalInv, Inv', Open PROVE CalInv'
<1>1. /\ phase = "publish" /\ phase' = "write"
      /\ published' = [published EXCEPT ![run.suite] = Torn]
      /\ UNCHANGED <<world, runs, run, next, clean, rows, result, exit>>
      /\ ~run.check /\ exit = "none"
  BY DEF Open, CalInv, RunInv
<1>2. clean' = CleanOk' /\ \A i \in DOMAIN rows' : rows'[i] = RowOf(i)'
  <2>1. CleanOk \in BOOLEAN /\ CleanOk' \in BOOLEAN
    BY DEF CleanOk
  <2> QED
    BY <1>1, <2>1, JudgedTheSame DEF CalInv, RunInv, Judging
<1>3. RunInv'
  BY <1>1, <1>2 DEF CalInv, RunInv, Judging, Scored
<1>4. \A s \in Suites : published'[s] = Torn \/ published'[s] = published[s]
  BY <1>1 DEF CalInv, Inv, FilesTyped
<1>5. ScoreIsCalibration'
  BY <1>4 DEF CalInv, ScoreIsCalibration
<1>6. GreenIsStillTrue'
  BY <1>1 DEF GreenIsStillTrue
<1> QED
  BY <1>3, <1>5, <1>6 DEF CalInv

(* What is written is the result of the run, and that is true.             *)
LEMMA Written == ASSUME CalInv, Inv', Write PROVE CalInv'
<1>1. /\ phase = "write" /\ phase' = "idle"
      /\ published' = [published EXCEPT ![run.suite] = result]
      /\ run' = run /\ ~run.check
  BY DEF Write, Exits, CalInv, RunInv
<1>2. RunInv'
  BY <1>1 DEF RunInv, Judging, Scored
<1>3. \A s \in Suites : published'[s] = IF s = run.suite THEN result ELSE published[s]
  BY <1>1 DEF CalInv, Inv, FilesTyped
<1>4. result.status = "pass" <=>
        Calibrated(run.suite, result.world, result.bridge) /\ Offers(run.suite, result.world)
  BY <1>1, ResultIsTrue DEF CalInv, Scored
<1>5. ScoreIsCalibration'
  BY <1>3, <1>4 DEF CalInv, ScoreIsCalibration
<1>6. GreenIsStillTrue'
  BY <1>1 DEF GreenIsStillTrue
<1> QED
  BY <1>2, <1>5, <1>6 DEF CalInv

(* A green check has judged this world itself, and found a pass.           *)
LEMMA Compared == ASSUME CalInv, Inv', Compare PROVE CalInv'
<1>1. /\ phase = "compare" /\ phase' = "idle"
      /\ exit' = IF Recomputed /\ result.status = "pass" THEN "0" ELSE "1"
      /\ UNCHANGED <<world, run, published>>
  BY DEF Compare, Exits
<1>2. CASE Recomputed /\ result.status = "pass"
  <2>1. /\ published[run.suite] \notin {NoFile, Torn}
        /\ published[run.suite].status = "pass"
    BY <1>2 DEF Recomputed
  <2>2. result.world = world /\ result.bridge = run.bridge
    BY <1>1 DEF CalInv, RunInv, Scored
  <2>3. Calibrated(run.suite, world, run.bridge) /\ Offers(run.suite, world)
    BY <1>1, <1>2, <2>2, ResultIsTrue DEF CalInv, Scored
  <2>4. run.by = "ci" /\ run.suite = "v2" => run.bridge = published["v2"].bridge
    BY <1>1 DEF CalInv, RunInv
  <2>5. GreenIsStillTrue'
    BY <1>1, <2>1, <2>3, <2>4 DEF GreenIsStillTrue
  <2>6. RunInv' /\ ScoreIsCalibration'
    BY <1>1 DEF CalInv, RunInv, ScoreIsCalibration, Judging, Scored
  <2> QED
    BY <2>5, <2>6 DEF CalInv
<1>3. CASE ~(Recomputed /\ result.status = "pass")
  BY <1>1, <1>3, RunEnds
<1> QED
  BY <1>2, <1>3

(* Every step of the suites and of the world around them keeps it.         *)
LEMMA CalStep == CalInv /\ [Next]_vars => CalInv'
<1> SUFFICES ASSUME CalInv, [Next]_vars PROVE CalInv'
  OBVIOUS
<1>0. Inv /\ Inv'
  BY Inductive DEF CalInv
<1>1. CASE Move
  BY <1>0, <1>1, RunEnds DEF Move, Idle
<1>2. ASSUME NEW suite \in Suites, Publish(suite) PROVE CalInv'
  BY <1>0, <1>2, RunBegins DEF Publish
<1>16. CASE CheckByHand
  BY <1>0, <1>16, RunBegins DEF CheckByHand, Suites
<1>3. ASSUME NEW suite \in Suites, Refuse(suite) PROVE CalInv'
  BY <1>0, <1>3, RunEnds DEF Refuse, Exits
<1>4. CASE CheckFirst
  BY <1>0, <1>4, RunBegins DEF CheckFirst, Suites
<1>5. CASE CheckSecond
  BY <1>0, <1>5, RunBegins DEF CheckSecond, Suites
<1>6. CASE CheckUnpinned \/ CheckWithoutCorpus
  BY <1>0, <1>6, RunEnds DEF CheckUnpinned, CheckWithoutCorpus, Exits
<1>7. CASE Export
  <2>1. CASE ~world.resolves
    BY <1>0, <1>7, <2>1, RunEnds DEF Export, Exits
  <2>2. CASE world.resolves
    <3>1. RunInv' /\ phase # "idle" /\ UNCHANGED <<world, run, published, exit>>
      BY <1>7, <2>2 DEF Export, CalInv, RunInv, Judging, Scored
    <3> QED
      BY <1>0, <3>1, RunGoesOn
  <2> QED
    BY <2>1, <2>2
<1>8. CASE JudgeClean
  BY <1>0, <1>8, CleanJudged
<1>9. CASE JudgeMutant
  BY <1>0, <1>9, MutantJudged
<1>10. CASE Score
  BY <1>0, <1>10, Scoring
<1>11. CASE Open
  BY <1>0, <1>11, Opened
<1>12. CASE Write
  BY <1>0, <1>12, Written
<1>13. CASE Compare
  BY <1>0, <1>13, Compared
<1>14. CASE Killed
  BY <1>0, <1>14, RunEnds DEF Killed, Exits
<1>15. CASE UNCHANGED vars
  <2>1. UNCHANGED <<world, runs, run, phase, next, clean, rows, result, published, exit>>
    BY <1>15 DEF vars
  <2>2. CleanOk \in BOOLEAN /\ CleanOk' \in BOOLEAN
    BY DEF CleanOk
  <2>3. RunInv'
    BY <2>1, <2>2, JudgedTheSame DEF CalInv, RunInv
  <2>4. ScoreIsCalibration' /\ GreenIsStillTrue'
    BY <2>1 DEF CalInv, ScoreIsCalibration, GreenIsStillTrue
  <2> QED
    BY <1>0, <2>3, <2>4 DEF CalInv
<1> QED
  BY <1>1, <1>2, <1>3, <1>4, <1>5, <1>6, <1>7, <1>8, <1>9, <1>10, <1>11, <1>12, <1>13,
     <1>14, <1>15, <1>16 DEF Next

(* So it holds in every state that is reached.                             *)
LEMMA CalInvariance == Spec => []CalInv
BY CalInit, CalStep, PTL DEF Spec

(* Whatever the gates, the bridge and the corpus are, what was published   *)
(* is a pass exactly where the instrument it names is calibrated and the   *)
(* corpus offers every mutant: a run that was stopped, that found another  *)
(* world than the last, or that left a torn file, publishes no other       *)
(* (entry, clean_ok, tally, main).                                         *)
THEOREM PassesAreEarned == Spec => []ScoreIsCalibration
BY CalInvariance, PTL DEF CalInv

(* A check that ended green holds today's tools and corpus to what is      *)
(* published, through the bridge it was given, and CI's through the bridge *)
(* the file names, however these moved since (main with --check, _compare).*)
THEOREM GreenHolds == Spec => []GreenIsStillTrue
BY CalInvariance, PTL DEF CalInv
=============================================================================
