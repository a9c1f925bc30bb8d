--------------------------- MODULE MCCalibration ---------------------------
(***************************************************************************)
(* A sound oracle over corpora that lack one thing, and over a whole       *)
(* corpus oracles of which one gate, or one and another that covers for    *)
(* it, is not what it should be.                                           *)
(***************************************************************************)
EXTENDS Calibration, TLC

Sound(g)    == [catches |-> AimedAt[g], otherwise |-> Passed]
Blind       == [catches |-> {}, otherwise |-> Passed]
Zealous(g)  == [catches |-> AimedAt[g], otherwise |-> Failed]
Missing     == [catches |-> {}, otherwise |-> Unavailable]
Shy(g)      == [catches |-> AimedAt[g], otherwise |-> NotApplied]
Half(g)     == [catches |-> {Min(AimedAt[g])}, otherwise |-> Passed]

(* The gates of one kind differ in what is aimed at them, so what one of    *)
(* them says of everything else is tried on one of each kind.              *)
Flaws(g) ==
  {Blind, Half(g)} \cup (IF g \in {"registry_check", "content_preserved"}
                         THEN {Zealous(g), Missing, Shy(g)} ELSE {})

MCRecordNumbers == {1, 2, 3, 100, 101}
MCTitles == {"one", "two", "cross"}

ToolGates == Names.v2 \ {"adr_links_resolve"}

Link(there, anchored, adr, title) ==
  [http |-> FALSE, there |-> there, anchored |-> anchored, adr |-> adr, title |-> title]
Record(title) == Link(TRUE, FALSE, TRUE, title)
Web == [http |-> TRUE, there |-> FALSE, anchored |-> FALSE, adr |-> FALSE, title |-> NoTitle]

TableRow(number, indexed, accepted, pending, links) ==
  [number |-> number, indexed |-> indexed, accepted |-> accepted, pending |-> pending,
   owned |-> TRUE, links |-> links]

MdFile(kind, visibility, type, long) ==
  [kind |-> kind, front |-> TRUE, visibility |-> visibility, type |-> type,
   verified |-> TRUE, long |-> long, cut |-> FALSE]

(* The entry file and the registry come before the pages a mutant takes,   *)
(* and rows it must pass over before the one it takes.                     *)
Corpus ==
  [records  |-> ("adr" :> {1, 2}) @@ ("docs/adr" :> {2}),
   index    |-> <<TableRow(3, TRUE, TRUE, TRUE, <<Link(TRUE, FALSE, TRUE, NoTitle)>>),
                  TableRow(1, TRUE, TRUE, FALSE, <<Web, Record("one")>>),
                  TableRow(101, FALSE, TRUE, FALSE, <<Record("cross")>>),
                  TableRow(2, TRUE, TRUE, FALSE, <<Record("two")>>)>>,
   adapter  |-> "generated", policy |-> "generated",
   profiles |-> <<"none", "schema">>, taken |-> FALSE,
   pages    |-> <<MdFile("entry", "public", "narrative", TRUE),
                  MdFile("registry", "public", "narrative", TRUE),
                  MdFile("page", "none", "record", FALSE),
                  MdFile("page", "public", "narrative", TRUE)>>,
   stub     |-> NoStub,
   docs     |-> TRUE]

Best ==
  [gates |-> [g \in ToolGates |-> Sound(g)], refuses |-> {Emptied, Absent},
   bridge |-> "b1", resolves |-> TRUE, corpus |-> Corpus]

(* Corpora that lack one thing, and four where a mutation breaks no rule.   *)
Lacking ==
  {[Corpus EXCEPT !.docs = FALSE],
   [Corpus EXCEPT !.records = "docs/adr" :> {}], [Corpus EXCEPT !.index = NoIndex],
   [Corpus EXCEPT !.index = @ \o [i \in 1..2 |-> TableRow(99 + i, TRUE, FALSE, FALSE, << >>)]],
   [Corpus EXCEPT !.index = [i \in 1..4 |-> [Corpus.index[i] EXCEPT !.owned = i # 4]]],
   [Corpus EXCEPT !.adapter = "none"], [Corpus EXCEPT !.policy = "none"],
   [Corpus EXCEPT !.taken = TRUE],
   [Corpus EXCEPT !.pages[4].type = "record"], [Corpus EXCEPT !.pages[4].long = FALSE],
   [Corpus EXCEPT !.index[2].links[2].anchored = TRUE],
   [Corpus EXCEPT !.index[4].links[1].title = "one"],
   [Corpus EXCEPT !.pages[3].visibility = "padded"],
   [Corpus EXCEPT !.pages[3].type = "quoted"]}

MCBridges ==
  [b1 |-> Sound("adr_links_resolve"), b2 |-> Half("adr_links_resolve"),
   b3 |-> Shy("adr_links_resolve"), b4 |-> Missing]

MCWorlds ==
  {Best, [Best EXCEPT !.resolves = FALSE],
   [Best EXCEPT !.refuses = {Absent}], [Best EXCEPT !.refuses = {Emptied}]}
  \cup {[Best EXCEPT !.corpus = c] : c \in Lacking}
  \cup {[Best EXCEPT !.bridge = b] : b \in DOMAIN MCBridges}
  \cup UNION {{[Best EXCEPT !.gates[g] = flaw] : flaw \in Flaws(g)} : g \in ToolGates}
  \cup {[Best EXCEPT !.gates["registry_check"] = Blind,
                     !.gates["frontmatter_check"] =
                        [catches |-> {1, 2, 5, 6}, otherwise |-> Passed]],
        [Best EXCEPT !.gates = [g \in ToolGates |-> Shy(g)]],
        [Best EXCEPT !.gates = [g \in ToolGates |-> IF g = "content_preserved" THEN Sound(g)
                                                    ELSE Shy(g)],
                     !.refuses = {}]}
=============================================================================
