-------------------------- MODULE MCDocsGuardrails --------------------------
(***************************************************************************)
(* The checkouts TLC judges: every combination of what the structural      *)
(* gates read, with one agent checker at a time not clean, for a first     *)
(* generation judgement, and every combination of what the two semantic    *)
(* gates read beside one checker, for a second.                            *)
(***************************************************************************)
EXTENDS DocsGuardrails

Exits == {"clean", "findings", "other", "absent"}

ExitsOf(frontmatter, registry, agent, exit) ==
  [c \in CheckerGates |->
     CASE c = "frontmatter_check" -> frontmatter
       [] c = "registry_check"    -> registry
       [] c = agent               -> exit
       [] OTHER                   -> "clean"]

Structural ==
  [there : BOOLEAN, taxonomy : {"resolves", "missing", "fails"}, docs : BOOLEAN,
   exit : {ExitsOf(f, r, a, e) : f \in Exits, r \in Exits, a \in AgentGates, e \in Exits},
   registry : BOOLEAN, records : BOOLEAN, index : BOOLEAN, agents : BOOLEAN, tools : BOOLEAN,
   preserve : {"nothing"}, base : {FALSE}, kept : {"none"},
   bridge : {"none"}, stubs : {"none", "wrong"}]

MCSemantic ==
  [there : BOOLEAN, taxonomy : {"resolves", "missing"}, docs : BOOLEAN,
   exit : {ExitsOf(f, "clean", "agents_file_check", "clean") : f \in Exits},
   registry : BOOLEAN, records : {TRUE}, index : BOOLEAN, agents : BOOLEAN, tools : {TRUE},
   preserve : {"nothing", "malformed", "patterns"}, base : BOOLEAN,
   kept : {"none", "intact", "changed"},
   bridge : {"none", "unusable", "usable"}, stubs : {"none", "right", "wrong", "untitled"}]

MCJudgements == Structural \cup MCSemantic
=============================================================================
