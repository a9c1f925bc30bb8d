--------------------------- MODULE InboxValidator ---------------------------
(***************************************************************************)
(* tools/inbox_validate.py: what the validator says of an inbox.  An inbox *)
(* is the set of its record files.  A file never changes once it is there, *)
(* so what it holds is a constant of it: its segment, its name, and its    *)
(* body reduced to the fields the rules compare:                           *)
(*                                                                         *)
(*   [kind, day, stem, body],   body = NotJson, NotAnObject, or            *)
(*   a run       [id, rest, repository_state, human_baseline, agent,       *)
(*                adhoc, group_id, arm, planned]                           *)
(*   a judgement [id, rest, run_id]                                        *)
(*                                                                         *)
(* `rest` says whether the other keys the schema requires are there, and   *)
(* `shaped` (of both) whether every value has the shape the schema gives;  *)
(* `planned` is pairing.baseline; `agent` is [provider, model_id,          *)
(* snapshot, client]; a snapshot is [of, marked]: what it reads, after the *)
(* `unresolved:` that marks it where it is marked.                         *)
(***************************************************************************)

CONSTANTS
  Files,        \* the record files there can be
  Holds,        \* what each holds
  Absent,       \* a key the object does not have
  Null,         \* a key whose value is null
  NotText,      \* a value that is not a string
  NotJson,      \* a file json.load does not read
  NotAnObject,  \* a file that holds null, a list or a number
  NoIdentity    \* an inbox without inbox.json

Kinds == {"runs", "judgements"}

Kind(f) == Holds[f].kind
Body(f) == Holds[f].body

Publishers == {"exeris-bot", "exeris-inbox", "exeris-agent"}

(* A name is its letters, lowered and without the [bot] suffix, beside     *)
(* how it was spelled, which does not matter.                              *)
NamesAPublisher(name) == name # NotText /\ name.letters \in Publishers

-----------------------------------------------------------------------------
(* The rules that read one record.                                         *)

Given(value) == value \notin {Absent, Null}

Group(f) == Body(f).group_id

RequiredMissing(f) ==
  \/ ~Body(f).rest
  \/ Body(f).id = Absent
  \/ Kind(f) = "runs" /\ Body(f).repository_state = Absent
  \/ Kind(f) = "judgements" /\ Body(f).run_id = Absent

NameIsNotTheId(f) == Given(Body(f).id) /\ Body(f).id # Holds[f].stem

(* `obj` reads a state of another shape as an empty one, which has no      *)
(* visibility.                                                             *)
VisibilityOf(f) ==
  IF Given(Body(f).repository_state) THEN Body(f).repository_state.visibility ELSE Absent

(* An alias is not a snapshot, and a marked form marks the row's own.      *)
SnapshotIsNone(f) ==
  LET alias    == Body(f).agent.model_id
      snapshot == Body(f).agent.snapshot
  IN /\ alias # NotText
     /\ snapshot # NotText
     /\ snapshot.marked <=> snapshot.of # alias

PublisherAsAgent(f) ==
  \E field \in {"provider", "model_id", "client"} : NamesAPublisher(Body(f).agent[field])

AdhocInAGroup(f) == Body(f).adhoc /\ Given(Group(f))

When(broken, rule) == IF broken THEN {rule} ELSE {}

WithinARecord(f, declared) ==
  When(RequiredMissing(f), "required-keys")
  \cup When(NameIsNotTheId(f), "name-is-the-id")
  \cup IF Kind(f) # "runs" THEN {} ELSE
         When(VisibilityOf(f) # declared, "visibility")
         \cup When(SnapshotIsNone(f), "alias-is-no-snapshot")
         \cup When(PublisherAsAgent(f), "publisher-as-agent")
         \cup When(AdhocInAGroup(f), "adhoc-in-a-group")

-----------------------------------------------------------------------------
(* The rules across the files of an inbox.  The code reads the runs first, *)
(* whatever order the directories come in, so a judgement finds every run. *)

Read(files) == {f \in files : Body(f) # NotJson}

RunFiles(files) == {f \in Read(files) : Kind(f) = "runs"}

HeldRuns(files) == {Body(f).id : f \in {g \in RunFiles(files) : Given(Body(g).id)}}

JudgesNoRun(f, files) ==
  Kind(f) = "judgements" /\ Given(Body(f).run_id) /\ Body(f).run_id \notin HeldRuns(files)

Members(files, group) == {f \in RunFiles(files) : Group(f) = group}

(* Only the members that carry the field are compared.                     *)
Differs(members, field) ==
  \E f, g \in {m \in members : Body(m)[field] # Absent} : Body(f)[field] # Body(g)[field]

ArmCollides(f, members) == \E g \in members \ {f} : Body(g).arm = Body(f).arm

(* A defect to check against: a group is collected day by day.             *)
InItsGroupOfTheDay(f, files) ==
  IF Kind(f) # "runs" \/ ~Given(Group(f)) THEN {} ELSE
    LET members == {m \in Members(files, Group(f)) : Holds[m].day = Holds[f].day}
    IN When(Differs(members, "repository_state"), "repository_state-differs")
       \cup When(Differs(members, "human_baseline"), "human_baseline-differs")
       \cup When(ArmCollides(f, members), "arm-is-taken")

InItsGroup(f, files) ==
  IF Kind(f) # "runs" \/ ~Given(Group(f)) THEN {} ELSE
    LET members == Members(files, Group(f))
    IN When(Differs(members, "repository_state"), "repository_state-differs")
       \cup When(Differs(members, "human_baseline"), "human_baseline-differs")
       \cup When(ArmCollides(f, members), "arm-is-taken")

-----------------------------------------------------------------------------
(* check and emit.                                                         *)

(* What is said of one file.                                               *)
Errors(f, files, declared) ==
  IF Body(f) = NotJson THEN {"not-json"}
  ELSE WithinARecord(f, declared)
       \cup When(JudgesNoRun(f, files), "judges-no-run")
       \cup InItsGroup(f, files)

(* A record of another shape than an object ends the validator before it   *)
(* has said anything.                                                      *)
Traceback(files, declared) ==
  declared # NoIdentity /\ \E f \in files : Body(f) = NotAnObject

Named(files, declared) ==
  IF declared = NoIdentity \/ Traceback(files, declared) THEN {}
  ELSE {f \in files : Errors(f, files, declared) # {}}

Passes(files, declared) ==
  /\ declared # NoIdentity
  /\ ~Traceback(files, declared)
  /\ Named(files, declared) = {}

(* The schema job of inbox.yml: what a record's schema alone can say, the  *)
(* three constraints between a plan and a record among it.                 *)
Conforms(f) ==
  /\ Body(f) \notin {NotJson, NotAnObject}
  /\ ~RequiredMissing(f)
  /\ Body(f).shaped
  /\ Kind(f) = "runs" =>
       /\ Group(f) # Null
       /\ Given(Group(f)) => /\ ~Body(f).adhoc
                             /\ Body(f).planned \in {"human", "none"}
                             /\ Body(f).planned = "human" <=> Body(f).human_baseline # Absent

-----------------------------------------------------------------------------
(* What inbox/README.md says the validator enforces, "Rules a schema       *)
(* cannot see", by the names of the errors above: rules over pairs of      *)
(* records, two of which ask that a field is the same in a whole group.    *)

SameGroup(f, g) == Kind(f) = "runs" /\ Given(Group(f)) /\ Group(f) = Group(g)

NotTheSame(f, files, field) ==
  \E g, h \in RunFiles(files) :
    SameGroup(f, g) /\ SameGroup(f, h) /\ Body(g)[field] # Body(h)[field]

BrokenByARun(f, files, declared) ==
  When(VisibilityOf(f) # declared, "visibility")
  \cup When(NotTheSame(f, files, "repository_state"), "repository_state-differs")
  \cup When(NotTheSame(f, files, "human_baseline"), "human_baseline-differs")
  \cup When(\E g \in RunFiles(files) : g # f /\ SameGroup(f, g) /\ Body(g).arm = Body(f).arm,
            "arm-is-taken")

(* The rules the record takes part in breaking.                            *)
Broken(f, files, declared) ==
  IF Kind(f) = "runs" THEN BrokenByARun(f, files, declared)
  ELSE When(Given(Body(f).run_id) /\ ~\E g \in RunFiles(files) : Body(g).id = Body(f).run_id,
            "judges-no-run")

(* Where the code stops short of that: it compares the rows of a group     *)
(* that have the field, and a row without it differs from none.            *)
OnlyLacked(f, files, field) ==
  \A g, h \in RunFiles(files) :
    /\ SameGroup(f, g) /\ SameGroup(f, h)
    /\ Absent \notin {Body(g)[field], Body(h)[field]}
    => Body(g)[field] = Body(h)[field]

Unseen(f, files) ==
  When(OnlyLacked(f, files, "repository_state"), "repository_state-differs")
  \cup When(OnlyLacked(f, files, "human_baseline"), "human_baseline-differs")
=============================================================================
