------------------------- MODULE InboxWorkflowProofs -------------------------
(***************************************************************************)
(* For every set of files, batches and pull requests and any number of     *)
(* pushes: a red main has one issue at most, a batch that was read alone   *)
(* does not make the validator refuse a main it passed, and what breaks    *)
(* the README's rules is named, but for a field some rows of a group lack. *)
(*                                                                         *)
(* The first rests on the concurrency group: one report works at a time,   *)
(* so none is open while one is filing.  The other two are lemmas about    *)
(* the validator, put to what main can come to hold.                       *)
(***************************************************************************)
EXTENDS InboxWorkflow, TLAPS

-----------------------------------------------------------------------------
(* What the validator says of more files than it was first asked about.    *)

LEMMA SaysNothing ==
  ASSUME NEW files, NEW f \in files, Passes(files, Declared)
  PROVE  /\ Body(f) \notin {NotJson, NotAnObject}
         /\ WithinARecord(f, Declared) = {}
         /\ ~JudgesNoRun(f, files)
         /\ InItsGroup(f, files) = {}
<1>1. Errors(f, files, Declared) = {} /\ Body(f) # NotAnObject
  BY DEF Passes, Named, Traceback
<1>2. Body(f) # NotJson
  BY <1>1 DEF Errors
<1> QED
  BY <1>1, <1>2 DEF Errors, When

(* A row of a batch is in no group and judges nothing, so what its own     *)
(* inbox does not hold against it no other inbox does.                     *)
LEMMA AdmittedIsFine ==
  ASSUME NEW batch \in Batches, NEW f \in Admitted[batch], NEW files
  PROVE  Errors(f, files, Declared) = {}
<1>1. /\ f \in batch /\ f \notin Named(batch, Declared)
      /\ Kind(f) = "runs" /\ ~Given(Group(f))
      /\ \A g \in batch : Body(g) \notin {NotJson, NotAnObject}
  BY BatchesAssumption DEF Admitted
<1>2. ~Traceback(batch, Declared)
  BY <1>1 DEF Traceback
<1>3. Errors(f, batch, Declared) = {}
  BY <1>1, <1>2, DeclaredAssumption DEF Named
<1>4. WithinARecord(f, Declared) = {}
  BY <1>1, <1>3 DEF Errors
<1>5. ~JudgesNoRun(f, files) /\ InItsGroup(f, files) = {}
  BY <1>1 DEF JudgesNoRun, InItsGroup
<1> QED
  BY <1>1, <1>4, <1>5 DEF Errors, When

(* Rows of no group leave every group as it was, and no judgement loses    *)
(* its run by them.                                                        *)
LEMMA BatchBreaksNothing ==
  ASSUME NEW batch \in Batches, NEW files, Passes(files, Declared)
  PROVE  Passes(files \cup Admitted[batch], Declared)
<1> DEFINE all == files \cup Admitted[batch]
<1>1. \A g \in Admitted[batch] : /\ ~Given(Group(g))
                                 /\ Body(g) \notin {NotJson, NotAnObject}
  BY BatchesAssumption DEF Admitted
<1>2. ~Traceback(all, Declared)
  BY <1>1 DEF Passes, Traceback
<1>3. ASSUME NEW f \in files
      PROVE  Errors(f, all, Declared) = {}
  <2>1. /\ Body(f) \notin {NotJson, NotAnObject}
        /\ WithinARecord(f, Declared) = {}
        /\ ~JudgesNoRun(f, files)
        /\ InItsGroup(f, files) = {}
    BY SaysNothing
  <2>2. HeldRuns(files) \subseteq HeldRuns(all)
    BY DEF HeldRuns, RunFiles, Read
  <2>3. ~JudgesNoRun(f, all)
    BY <2>1, <2>2 DEF JudgesNoRun
  <2>4. InItsGroup(f, all) = {}
    <3>1. CASE Kind(f) # "runs" \/ ~Given(Group(f))
      BY <3>1 DEF InItsGroup
    <3>2. CASE Kind(f) = "runs" /\ Given(Group(f))
      <4>1. Members(all, Group(f)) = Members(files, Group(f))
        BY <1>1, <3>2 DEF Members, RunFiles, Read
      <4> QED
        BY <2>1, <4>1 DEF InItsGroup
    <3> QED
      BY <3>1, <3>2
  <2> QED
    BY <2>1, <2>3, <2>4 DEF Errors, When
<1>4. \A f \in Admitted[batch] : Errors(f, all, Declared) = {}
  BY AdmittedIsFine
<1> QED
  BY <1>2, <1>3, <1>4 DEF Passes, Named

(* The validator's rules, file by file, against the README's, over pairs:  *)
(* a rule of the README that a record takes part in breaking is among its  *)
(* errors, unless the rows of its group differ in a field some lack.       *)
LEMMA GroupsAreCompared ==
  ASSUME NEW files, NEW f \in RunFiles(files),
         NEW field \in {"repository_state", "human_baseline"},
         NotTheSame(f, files, field), ~OnlyLacked(f, files, field)
  PROVE  /\ Given(Group(f))
         /\ Differs(Members(files, Group(f)), field)
<1>1. PICK g \in RunFiles(files), h \in RunFiles(files) :
        /\ SameGroup(f, g) /\ SameGroup(f, h)
        /\ Absent \notin {Body(g)[field], Body(h)[field]}
        /\ Body(g)[field] # Body(h)[field]
  BY DEF OnlyLacked
<1>2. {g, h} \subseteq Members(files, Group(f)) /\ Given(Group(f))
  BY <1>1 DEF SameGroup, Members
<1> QED
  BY <1>1, <1>2 DEF Differs

LEMMA BrokenIsNamed ==
  ASSUME NEW files \in SUBSET Files, NEW f \in Read(files)
  PROVE  Broken(f, files, Declared) \subseteq Errors(f, files, Declared) \cup Unseen(f, files)
<1>1. f \in files /\ Body(f) # NotJson
  BY DEF Read
<1>2. CASE Kind(f) = "runs"
  <2>1. f \in RunFiles(files)
    BY <1>1, <1>2 DEF RunFiles, Read
  <2>2. ASSUME VisibilityOf(f) # Declared
        PROVE  "visibility" \in Errors(f, files, Declared)
    BY <1>1, <1>2, <2>2 DEF Errors, WithinARecord, When
  <2>3. ASSUME NotTheSame(f, files, "repository_state")
        PROVE  "repository_state-differs" \in Errors(f, files, Declared) \cup Unseen(f, files)
    <3>1. CASE OnlyLacked(f, files, "repository_state")
      BY <3>1 DEF Unseen, When
    <3>2. CASE ~OnlyLacked(f, files, "repository_state")
      <4>1. Given(Group(f)) /\ Differs(Members(files, Group(f)), "repository_state")
        BY <2>1, <2>3, <3>2, GroupsAreCompared
      <4>2. "repository_state-differs" \in InItsGroup(f, files)
        BY <1>2, <4>1 DEF InItsGroup, When
      <4> QED
        BY <1>1, <4>2 DEF Errors
    <3> QED
      BY <3>1, <3>2
  <2>4. ASSUME NotTheSame(f, files, "human_baseline")
        PROVE  "human_baseline-differs" \in Errors(f, files, Declared) \cup Unseen(f, files)
    <3>1. CASE OnlyLacked(f, files, "human_baseline")
      BY <3>1 DEF Unseen, When
    <3>2. CASE ~OnlyLacked(f, files, "human_baseline")
      <4>1. Given(Group(f)) /\ Differs(Members(files, Group(f)), "human_baseline")
        BY <2>1, <2>4, <3>2, GroupsAreCompared
      <4>2. "human_baseline-differs" \in InItsGroup(f, files)
        BY <1>2, <4>1 DEF InItsGroup, When
      <4> QED
        BY <1>1, <4>2 DEF Errors
    <3> QED
      BY <3>1, <3>2
  <2>5. ASSUME NEW g \in RunFiles(files), g # f, SameGroup(f, g), Body(g).arm = Body(f).arm
        PROVE  "arm-is-taken" \in Errors(f, files, Declared)
    <3>1. Given(Group(f)) /\ g \in Members(files, Group(f))
      BY <2>5 DEF SameGroup, Members
    <3>2. "arm-is-taken" \in InItsGroup(f, files)
      BY <1>2, <2>5, <3>1 DEF InItsGroup, When, ArmCollides
    <3> QED
      BY <1>1, <3>2 DEF Errors
  <2> QED
    BY <1>2, <2>2, <2>3, <2>4, <2>5 DEF Broken, BrokenByARun, When
<1>3. CASE Kind(f) # "runs"
  <2>1. Kind(f) = "judgements"
    BY <1>1, <1>3, FilesAssumption DEF Kinds
  <2>2. ASSUME Given(Body(f).run_id), ~\E g \in RunFiles(files) : Body(g).id = Body(f).run_id
        PROVE  "judges-no-run" \in Errors(f, files, Declared)
    <3>1. JudgesNoRun(f, files)
      BY <2>1, <2>2 DEF JudgesNoRun, HeldRuns
    <3> QED
      BY <1>1, <3>1 DEF Errors, When
  <2> QED
    BY <1>3, <2>2 DEF Broken, When
<1> QED
  BY <1>2, <1>3

(* A run that lacks its state has an error of its own, so an inbox that    *)
(* passes has no group that differs in the state.                          *)
LEMMA StatesArePresent ==
  ASSUME NEW files, NEW f \in Read(files), Passes(files, Declared)
  PROVE  ~(/\ "repository_state-differs" \in Broken(f, files, Declared)
           /\ OnlyLacked(f, files, "repository_state"))
<1> SUFFICES ASSUME "repository_state-differs" \in Broken(f, files, Declared),
                    OnlyLacked(f, files, "repository_state")
             PROVE  FALSE
  OBVIOUS
<1>1. NotTheSame(f, files, "repository_state")
  BY DEF Broken, BrokenByARun, When
<1>2. PICK g \in RunFiles(files) : Body(g).repository_state = Absent
  BY <1>1 DEF NotTheSame, OnlyLacked
<1>3. "required-keys" \in WithinARecord(g, Declared) /\ g \in files
  BY <1>2 DEF RunFiles, Read, RequiredMissing, WithinARecord, When
<1> QED
  BY <1>3, SaysNothing

-----------------------------------------------------------------------------
(* The invariant.                                                          *)

OneWorks == \A m, n \in Numbers : Working(m) /\ Working(n) => m = n

FiledAlone == \A n \in Numbers : report[n] = "filing" => OpenIssues = {}

MainIsAnInbox == \A n \in Pushed : pushes[n].files \in Inboxes

JobsReadTheirPush ==
  \A n \in Numbers : \A j \in Jobs :
    /\ n \notin Pushed => job[n][j] = "queued"
    /\ job[n][j] = "success" => JobPasses(j, pushes[n].files)

Inv ==
  /\ TypeOK
  /\ OneWorks
  /\ FiledAlone
  /\ OneOpenIssue
  /\ MainIsAnInbox
  /\ AppKeepsTheRules
  /\ JobsReadTheirPush

LEMMA InboxesAreFiles == Inboxes \subseteq SUBSET Files
BY BatchesAssumption, PullsAssumption DEF Inboxes, Admitted

(* What main held, held again with one more of its parts, is an inbox.     *)
LEMMA AnotherPart ==
  ASSUME NEW files \in Inboxes \cup {{}},
         NEW part \in Pulls \cup {Admitted[batch] : batch \in Batches}
  PROVE  files \cup part \in Inboxes
<1> DEFINE Parts == Pulls \cup {Admitted[batch] : batch \in Batches}
<1>1. PICK parts \in SUBSET Parts : files = UNION parts
  <2>1. CASE files \in Inboxes
    BY <2>1 DEF Inboxes
  <2>2. CASE files = {}
    <3>1. {} \in SUBSET Parts /\ files = UNION {}
      BY <2>2
    <3> QED
      BY <3>1
  <2> QED
    BY <2>1, <2>2
<1>2. parts \cup {part} \in SUBSET Parts /\ files \cup part = UNION (parts \cup {part})
  BY <1>1
<1> HIDE DEF Parts
<1> QED
  BY <1>2 DEF Inboxes, Parts

(* A push adds one inbox to those there were.                              *)
LEMMA PushAdds ==
  ASSUME TypeOK, MainIsAnInbox, NEW by \in {"app", "pull"},
         NEW files \in Pulls \cup {Admitted[batch] : batch \in Batches}, Push(files, by)
  PROVE  LET k == Len(pushes) + 1
         IN /\ Len(pushes') = k /\ k \in Numbers
            /\ Pushed = 1..Len(pushes) /\ Pushed' = 1..k
            /\ \A n \in Pushed : pushes'[n] = pushes[n]
            /\ pushes'[k] = [files |-> Main \cup files, by |-> by]
            /\ Main \cup files \in Inboxes
            /\ Main = IF k = 1 THEN {} ELSE pushes[k - 1].files
            /\ pushes' \in Seq([files : SUBSET Files, by : {"app", "pull"}])
<1>1. /\ pushes \in Seq([files : SUBSET Files, by : {"app", "pull"}])
      /\ Len(pushes) \in Nat /\ Len(pushes) < MaxPushes
      /\ pushes' = Append(pushes, [files |-> Main \cup files, by |-> by])
  BY DEF TypeOK, Push
<1>2. Main = IF Len(pushes) = 0 THEN {} ELSE pushes[Len(pushes)].files
  BY <1>1 DEF Main, Last
<1>3. Main \in Inboxes \cup {{}}
  BY <1>1, <1>2 DEF MainIsAnInbox, Pushed
<1>4. Main \cup files \in Inboxes
  BY <1>3, AnotherPart
<1>5. Main \cup files \in SUBSET Files
  BY <1>4, InboxesAreFiles
<1> QED
  BY <1>1, <1>2, <1>4, <1>5, MaxPushesAssumption DEF Pushed, Numbers

-----------------------------------------------------------------------------
(* Each step keeps it.                                                     *)

LEMMA Initially == Init => Inv
<1> SUFFICES ASSUME Init PROVE Inv
  OBVIOUS
<1>1. Len(pushes) = 0 /\ DOMAIN pushes = {}
  BY DEF Init
<1>2. TypeOK
  BY <1>1, MaxPushesAssumption
  DEF Init, TypeOK, Jobs, Conclusions, Reports
<1> QED
  BY <1>1, <1>2 DEF Init, Inv, OneWorks, Working, FiledAlone, OneOpenIssue, OpenIssues, MainIsAnInbox,
     AppKeepsTheRules, JobsReadTheirPush, Pushed

(* The pushes of a step that pushes.                                       *)
LEMMA Pushing ==
  ASSUME Inv, NEW by \in {"app", "pull"},
         NEW files \in Pulls \cup {Admitted[batch] : batch \in Batches}, Push(files, by),
         by = "app" => \E batch \in Batches : files = Admitted[batch],
         checked' \subseteq Pulls, UNCHANGED <<job, report, issue>>
  PROVE  Inv'
<1> DEFINE k == Len(pushes) + 1
<1>1. /\ Len(pushes') = k /\ k \in Numbers
      /\ Pushed = 1..Len(pushes) /\ Pushed' = 1..k
      /\ \A n \in Pushed : pushes'[n] = pushes[n]
      /\ pushes'[k] = [files |-> Main \cup files, by |-> by]
      /\ Main \cup files \in Inboxes
      /\ Main = IF k = 1 THEN {} ELSE pushes[k - 1].files
      /\ pushes' \in Seq([files : SUBSET Files, by : {"app", "pull"}])
  BY PushAdds DEF Inv
<1>0. Len(pushes) \in Nat /\ k \notin Pushed
  BY <1>1 DEF Inv, TypeOK
<1>2. TypeOK'
  BY <1>0, <1>1, MaxPushesAssumption DEF Inv, TypeOK, Numbers
<1>3. MainIsAnInbox'
  <2> SUFFICES ASSUME NEW n \in Pushed'
               PROVE  pushes'[n].files \in Inboxes
    BY DEF MainIsAnInbox
  <2>1. CASE n \in Pushed
    BY <1>1, <2>1 DEF Inv, MainIsAnInbox
  <2>2. CASE n = k
    <3>1. pushes'[n].files = Main \cup files
      BY <1>1, <2>2
    <3> QED
      BY <1>1, <3>1
  <2> QED
    BY <1>0, <1>1, <2>1, <2>2
<1>4. AppKeepsTheRules'
  <2> SUFFICES ASSUME NEW n \in Pushed', pushes'[n].by = "app",
                      JobPasses("cross-file", IF n = 1 THEN {} ELSE pushes'[n - 1].files)
               PROVE  JobPasses("cross-file", pushes'[n].files)
    BY DEF AppKeepsTheRules, JobPasses
  <2>1. CASE n \in Pushed
    <3>1. n # 1 => n - 1 \in Pushed
      BY <1>0, <1>1, <2>1
    <3> QED
      BY <1>1, <2>1, <3>1 DEF Inv, AppKeepsTheRules
  <2>2. CASE n = k
    <3>1. k # 1 => k - 1 \in Pushed
      BY <1>0, <1>1
    <3>2. JobPasses("cross-file", Main)
      BY <1>1, <2>2, <3>1
    <3>3. Passes(Main, Declared)
      BY <3>2 DEF JobPasses, CrossFilePasses
    <3>4. PICK batch \in Batches : files = Admitted[batch]
      BY <1>1, <2>2
    <3>5. Passes(Main \cup files, Declared)
      BY <3>3, <3>4, BatchBreaksNothing
    <3>6. pushes'[n].files = Main \cup files
      BY <1>1, <2>2
    <3> QED
      BY <1>1, <3>5, <3>6 DEF JobPasses, CrossFilePasses
  <2> QED
    BY <1>0, <1>1, <2>1, <2>2
<1>5. JobsReadTheirPush'
  BY <1>0, <1>1 DEF Inv, JobsReadTheirPush, JobPasses
<1> QED
  BY <1>2, <1>3, <1>4, <1>5
  DEF Inv, OneWorks, Working, FiledAlone, OneOpenIssue, OpenIssues

(* The reports of a step that pushes nothing and runs no job.              *)
LEMMA Reporting ==
  ASSUME Inv, UNCHANGED <<pushes, checked, job>>,
         TypeOK', OneWorks', FiledAlone', OneOpenIssue'
  PROVE  Inv'
BY DEF Inv, MainIsAnInbox, AppKeepsTheRules, JobsReadTheirPush, Pushed, JobPasses

-----------------------------------------------------------------------------
(* A batch is committed.                                                   *)
LEMMA AppCommitsKeeps ==
  ASSUME Inv, NEW batch \in Batches, AppCommits(batch)
  PROVE  Inv'
<1>1. Push(Admitted[batch], "app") /\ checked' \subseteq Pulls
  BY DEF AppCommits, Inv, TypeOK
<1> QED
  BY <1>1, Pushing DEF AppCommits

(* A pull request is merged, or checked again.                             *)
LEMMA PullKeeps ==
  ASSUME Inv, NEW p \in Pulls, CheckPull(p) \/ MergePull(p)
  PROVE  Inv'
<1>1. CASE MergePull(p)
  <2>1. Push(p, "pull") /\ checked' \subseteq Pulls
    BY <1>1 DEF MergePull, Inv, TypeOK
  <2> QED
    BY <1>1, <2>1, Pushing DEF MergePull
<1>2. CASE CheckPull(p)
  <2>1. checked' \subseteq Pulls
    BY <1>2 DEF CheckPull, Inv, TypeOK
  <2> QED
    BY <1>2, <2>1
    DEF CheckPull, Inv, TypeOK, OneWorks, Working, FiledAlone, OneOpenIssue, OpenIssues,
        MainIsAnInbox, AppKeepsTheRules, JobsReadTheirPush, Pushed, JobPasses
<1> QED
  BY <1>1, <1>2

(* A job ends.                                                             *)
LEMMA RunJobKeeps ==
  ASSUME Inv, NEW n \in Numbers, NEW j \in Jobs, RunJob(n, j)
  PROVE  Inv'
<1>1. PICK conclusion \in Conclusions :
        /\ conclusion = "success" => JobPasses(j, pushes[n].files)
        /\ job' = [job EXCEPT ![n][j] = conclusion]
  BY DEF RunJob
<1>2. /\ job \in [Numbers -> [Jobs -> Conclusions \cup {"queued"}]]
      /\ n \in Pushed /\ job[n][j] = "queued" /\ UNCHANGED <<pushes, checked, report, issue>>
  BY DEF RunJob, Inv, TypeOK
<1>3. \A m \in Numbers : \A i \in Jobs :
        job'[m][i] = IF m = n /\ i = j THEN conclusion ELSE job[m][i]
  BY <1>1, <1>2
<1>4. job' \in [Numbers -> [Jobs -> Conclusions \cup {"queued"}]]
  BY <1>1, <1>2
<1>5. conclusion # "queued"
  BY DEF Conclusions
<1>6. TypeOK'
  BY <1>2, <1>3, <1>4, <1>5 DEF Inv, TypeOK, Pushed
<1>7. JobsReadTheirPush'
  BY <1>1, <1>2, <1>3 DEF Inv, JobsReadTheirPush, Pushed, JobPasses
<1> QED
  BY <1>2, <1>6, <1>7
  DEF Inv, OneWorks, Working, FiledAlone, OneOpenIssue, OpenIssues, MainIsAnInbox,
      AppKeepsTheRules, Pushed, JobPasses

(* A report asks for its turn: another one that waited is cancelled.       *)
LEMMA QueueKeeps ==
  ASSUME Inv, NEW n \in Numbers, Queue(n), report[n] = "failed" \/ Settled(n), ~Working(n),
         UNCHANGED <<pushes, checked, job, issue>>
  PROVE  Inv'
<1>1. /\ report \in [Numbers -> Reports] /\ report' \in [Numbers -> Reports]
      /\ \A m \in Numbers :
           report'[m] = IF m = n THEN "pending"
                        ELSE IF report[m] = "pending" THEN "cancelled" ELSE report[m]
  BY DEF Queue, Inv, TypeOK, Reports
<1>2. n \in Pushed /\ \A j \in Jobs : job[n][j] # "queued"
  BY DEF Settled, Conclusions, Inv, TypeOK
<1>3. TypeOK'
  BY <1>1, <1>2 DEF Inv, TypeOK, Pushed
<1>4. OneWorks' /\ FiledAlone' /\ OneOpenIssue'
  BY <1>1 DEF Inv, OneWorks, Working, FiledAlone, OneOpenIssue, OpenIssues
<1> QED
  BY <1>3, <1>4, Reporting

(* The host's other steps about a report.                                  *)
LEMMA HostKeeps ==
  ASSUME Inv, NEW n \in Numbers, Host(n)
  PROVE  Inv'
<1>0. /\ report \in [Numbers -> Reports]
      /\ issue \in [Numbers -> {"none", "open", "closed"}]
  BY DEF Inv, TypeOK
<1>1. ASSUME UNCHANGED <<pushes, checked, job>>, report[n] # "waiting",
             NEW said \in Reports \ {"waiting"}, report' = [report EXCEPT ![n] = said],
             issue' \in [Numbers -> {"none", "open", "closed"}]
      PROVE  TypeOK'
  BY <1>0, <1>1 DEF Inv, TypeOK, Pushed
<1>2. CASE \E j \in Jobs : RunJob(n, j)
  BY <1>2, RunJobKeeps
<1>3. CASE ReportDecides(n)
  <2>1. CASE Red(n)
    BY <1>3, <2>1, QueueKeeps DEF ReportDecides, Working
  <2>2. CASE ~Red(n)
    <3>1. report' = [report EXCEPT ![n] = "skipped"] /\ UNCHANGED <<pushes, checked, job, issue>>
      BY <1>3, <2>2 DEF ReportDecides
    <3>2. TypeOK'
      BY <1>0, <1>3, <3>1 DEF ReportDecides, Settled, Conclusions, Inv, TypeOK, Pushed, Reports
    <3>3. OneWorks' /\ FiledAlone' /\ OneOpenIssue'
      BY <1>0, <3>1 DEF Inv, OneWorks, Working, FiledAlone, OneOpenIssue, OpenIssues
    <3> QED
      BY <3>1, <3>2, <3>3, Reporting
  <2> QED
    BY <2>1, <2>2
<1>4. CASE StartReport(n)
  <2>1. TypeOK'
    BY <1>0, <1>1, <1>4 DEF StartReport, Reports
  <2>2. OneWorks' /\ FiledAlone' /\ OneOpenIssue'
    BY <1>0, <1>4 DEF StartReport, Inv, OneWorks, Working, FiledAlone, OneOpenIssue, OpenIssues
  <2> QED
    BY <1>4, <2>1, <2>2, Reporting DEF StartReport
<1>5. CASE LookForIssue(n)
  <2>1. TypeOK'
    BY <1>0, <1>1, <1>5 DEF LookForIssue, Reports
  <2>2. OneWorks' /\ FiledAlone' /\ OneOpenIssue'
    BY <1>0, <1>5 DEF LookForIssue, Inv, OneWorks, Working, FiledAlone, OneOpenIssue, OpenIssues
  <2> QED
    BY <1>5, <2>1, <2>2, Reporting DEF LookForIssue
<1>6. CASE FileIssue(n) \/ ReportFails(n)
  <2>1. PICK said \in {"done", "failed"} :
          /\ Working(n) /\ report' = [report EXCEPT ![n] = said]
          /\ \/ issue' = issue
             \/ report[n] = "filing" /\ issue' = [issue EXCEPT ![n] = "open"]
          /\ UNCHANGED <<pushes, checked, job>>
    BY <1>6 DEF FileIssue, ReportFails, Working
  <2>2. issue' \in [Numbers -> {"none", "open", "closed"}]
    BY <1>0, <2>1
  <2>3. TypeOK'
    BY <1>0, <1>1, <2>1, <2>2 DEF Working, Reports
  <2>4. OneWorks'
    BY <1>0, <2>1 DEF Inv, OneWorks, Working
  <2>5. \A m \in Numbers : report'[m] # "filing"
    BY <1>0, <2>1 DEF Inv, OneWorks, Working
  <2>6. OneOpenIssue'
    BY <1>0, <2>1 DEF Inv, FiledAlone, OneOpenIssue, OpenIssues
  <2> QED
    BY <2>1, <2>3, <2>4, <2>5, <2>6, Reporting DEF FiledAlone
<1> QED
  BY <1>2, <1>3, <1>4, <1>5, <1>6 DEF Host

(* A person closes the issue.                                              *)
LEMMA CloseIssueKeeps ==
  ASSUME Inv, NEW n \in Numbers, CloseIssue(n)
  PROVE  Inv'
<1>1. TypeOK'
  BY DEF CloseIssue, Inv, TypeOK, Pushed
<1>2. OneWorks' /\ FiledAlone' /\ OneOpenIssue'
  BY DEF CloseIssue, Inv, TypeOK, OneWorks, Working, FiledAlone, OneOpenIssue, OpenIssues
<1> QED
  BY <1>1, <1>2, Reporting DEF CloseIssue

LEMMA Inductive == Inv /\ [Next]_vars => Inv'
<1> SUFFICES ASSUME Inv, [Next]_vars PROVE Inv'
  OBVIOUS
<1>1. ASSUME NEW n \in Numbers, RunAgain(n) PROVE Inv'
  BY <1>1, QueueKeeps DEF RunAgain, Working
<1>2. CASE UNCHANGED vars
  BY <1>2
  DEF vars, Inv, TypeOK, OneWorks, Working, FiledAlone, OneOpenIssue, OpenIssues, MainIsAnInbox,
      AppKeepsTheRules, JobsReadTheirPush, Pushed, JobPasses
<1> QED
  BY <1>1, <1>2, AppCommitsKeeps, PullKeeps, HostKeeps, CloseIssueKeeps DEF Next

LEMMA Invariance == Spec => []Inv
BY Initially, Inductive, PTL DEF Spec

-----------------------------------------------------------------------------
(* The state keeps its types: main only grows by pushes of files, and a    *)
(* report starts once both jobs of its push have ended (inbox.yml, needs). *)
THEOREM TypeCorrect == Spec => []TypeOK
<1>1. Inv => TypeOK
  BY DEF Inv
<1> QED
  BY <1>1, Invariance, PTL

(* One issue at most is open for a red main, whatever reports fail, are    *)
(* run again or replaced, and whatever people close (inbox.yml, the        *)
(* concurrency group of `report`).                                         *)
THEOREM OneIssue == Spec => []OneOpenIssue
<1>1. Inv => OneOpenIssue
  BY DEF Inv
<1> QED
  BY <1>1, Invariance, PTL

(* A batch read alone, in its throwaway inbox, never makes the validator   *)
(* refuse a main that it passed (validate_batch, inbox_validate.check).    *)
THEOREM ReadAloneIsEnough == Spec => []AppKeepsTheRules
<1>1. Inv => AppKeepsTheRules
  BY DEF Inv
<1> QED
  BY <1>1, Invariance, PTL

(* Unless it breaks off, the validator says of every record which of the   *)
(* README's rules it takes part in breaking, but for a field that some     *)
(* rows of a group lack; a push it passes breaks none but the one about    *)
(* human_baseline, and that only so (inbox_validate.check).                *)
THEOREM NothingBreachesUnnamed == Spec => []BreachesAreNamed
<1>1. ASSUME Inv, NEW n \in Pushed
      PROVE  /\ pushes[n].files \in Naming
             /\ job[n]["cross-file"] = "success" => pushes[n].files \in SoundButForABaseline
  <2> DEFINE files == pushes[n].files
  <2>1. files \in Inboxes /\ files \in SUBSET Files
    BY <1>1, InboxesAreFiles DEF Inv, MainIsAnInbox
  <2>2. \A f \in Read(files) :
          Broken(f, files, Declared) \subseteq Errors(f, files, Declared) \cup Unseen(f, files)
    BY <2>1, BrokenIsNamed
  <2>3. n \in Numbers
    BY <1>1, MaxPushesAssumption DEF Inv, TypeOK, Numbers, Pushed
  <2>4. ASSUME job[n]["cross-file"] = "success", NEW f \in Read(files)
        PROVE  Broken(f, files, Declared) \subseteq Unseen(f, files) \ {"repository_state-differs"}
    <3>1. JobPasses("cross-file", files)
      BY <1>1, <2>3, <2>4 DEF Inv, JobsReadTheirPush, Jobs
    <3>2. Passes(files, Declared)
      BY <3>1 DEF JobPasses, CrossFilePasses
    <3>3. Errors(f, files, Declared) = {}
      BY <2>4, <3>2 DEF Passes, Named, Read
    <3>4. Broken(f, files, Declared) \subseteq Unseen(f, files)
      BY <2>2, <2>4, <3>3
    <3>5. ~(/\ "repository_state-differs" \in Broken(f, files, Declared)
            /\ OnlyLacked(f, files, "repository_state"))
      BY <2>4, <3>2, StatesArePresent
    <3>6. "repository_state-differs" \in Unseen(f, files) => OnlyLacked(f, files, "repository_state")
      BY DEF Unseen, When
    <3> QED
      BY <3>4, <3>5, <3>6
  <2> QED
    BY <2>1, <2>2, <2>4 DEF SoundButForABaseline, Naming
<1>2. Inv => BreachesAreNamed
  BY <1>1 DEF BreachesAreNamed
<1> QED
  BY <1>2, Invariance, PTL
=============================================================================
