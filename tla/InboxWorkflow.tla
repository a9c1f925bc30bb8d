---------------------------- MODULE InboxWorkflow ----------------------------
(***************************************************************************)
(* How rows come to `main` and what .github/workflows/inbox.yml does about *)
(* it.  The inbox App commits a batch its producer has read alone, in a    *)
(* throwaway inbox (validate_batch of tools/derive_ci_rows.py); a person   *)
(* merges a pull request whose check was green when it ran.  Every push is *)
(* then read as a whole by two jobs, and a third one reports a red `main`  *)
(* as one issue, one report at a time under its concurrency group.         *)
(***************************************************************************)
EXTENDS InboxValidator, Naturals, Sequences, SequencesExt, FiniteSets

CONSTANTS
  Batches,   \* the batches of rows a producer derives, each a set of run files
  Pulls,     \* the changes pull requests make, each a set of new files
  Declared,  \* the visibility inbox.json declares
  MaxPushes  \* bound on the pushes to main

ASSUME BatchesAssumption ==   \* a derived row is a run of no group
  \A batch \in Batches : \A f \in batch :
    /\ f \in Files
    /\ Kind(f) = "runs"
    /\ Body(f) \notin {NotJson, NotAnObject}
    /\ ~Given(Group(f))
ASSUME FilesAssumption == \A f \in Files : Kind(f) \in Kinds
ASSUME DeclaredAssumption == Declared # NoIdentity   \* inbox.json is there
ASSUME PullsAssumption == \A p \in Pulls : p \subseteq Files
ASSUME PlacesAssumption ==   \* a file is its place: nothing is ever filed over another
  \A f, g \in Files :
    /\ Holds[f].kind = Holds[g].kind
    /\ Holds[f].day = Holds[g].day
    /\ Holds[f].stem = Holds[g].stem
    => f = g
ASSUME MaxPushesAssumption == MaxPushes \in Nat

VARIABLES
  pushes,   \* main: what each push left there, and who made it
  checked,  \* the pull requests whose last check was green
  job,      \* per push, how its two jobs stand
  report,   \* per push, how its report job stands
  issue     \* per push, the issue its report filed

vars == <<pushes, checked, job, report, issue>>

Jobs == {"cross-file", "schema"}
Conclusions == {"success", "failure"}
Reports == {"waiting", "skipped", "pending", "cancelled", "running", "filing", "done", "failed"}

Numbers == 1..MaxPushes
Pushed == DOMAIN pushes

TypeOK ==
  /\ pushes \in Seq([files : SUBSET Files, by : {"app", "pull"}])
  /\ Len(pushes) <= MaxPushes
  /\ checked \subseteq Pulls
  /\ job \in [Numbers -> [Jobs -> Conclusions \cup {"queued"}]]
  /\ report \in [Numbers -> Reports]
  /\ issue \in [Numbers -> {"none", "open", "closed"}]
  /\ \A n \in Numbers : report[n] # "waiting" => n \in Pushed /\ \A j \in Jobs : job[n][j] # "queued"

Init ==
  /\ pushes = << >>
  /\ checked = {}
  /\ job = [n \in Numbers |-> [j \in Jobs |-> "queued"]]
  /\ report = [n \in Numbers |-> "waiting"]
  /\ issue = [n \in Numbers |-> "none"]

Main == IF pushes = << >> THEN {} ELSE Last(pushes).files

Push(files, by) ==
  /\ Len(pushes) < MaxPushes
  /\ pushes' = Append(pushes, [files |-> Main \cup files, by |-> by])

-----------------------------------------------------------------------------
(* What reaches main.                                                      *)

(* A defect to check against: the batch is not read before it is written.  *)
AdmittedUnread == [batch \in Batches |-> batch]

(* The rows of a batch that its own throwaway inbox does not name.         *)
Admitted == [batch \in Batches |-> batch \ Named(batch, Declared)]

(* What main can come to hold, ...                                         *)
Inboxes == {UNION parts : parts \in SUBSET (Pulls \cup {Admitted[batch] : batch \in Batches})}

(* ... the inboxes among it that the validator says nothing of, and the    *)
(* records that are their schema's.                                        *)
CrossFilePasses == {files \in Inboxes : Passes(files, Declared)}
Conforming == {f \in Files : Conforms(f)}

JobPasses(j, files) ==
  IF j = "cross-file" THEN files \in CrossFilePasses ELSE files \subseteq Conforming

(* The App commits what was admitted and is not there yet.                 *)
AppCommits(batch) ==
  /\ ~(Admitted[batch] \subseteq Main)
  /\ Push(Admitted[batch], "app")
  /\ UNCHANGED <<checked, job, report, issue>>

(* The required check of a pull request reads it merged into main as main  *)
(* then is; it may have to run again, and says the latest.                 *)
CheckPull(p) ==
  /\ ~(p \subseteq Main)
  /\ checked' = IF \A j \in Jobs : JobPasses(j, Main \cup p)
                THEN checked \cup {p} ELSE checked \ {p}
  /\ checked' # checked
  /\ UNCHANGED <<pushes, job, report, issue>>

MergePull(p) ==
  /\ p \in checked
  /\ Push(p, "pull")
  /\ checked' = checked \ {p}
  /\ UNCHANGED <<job, report, issue>>

-----------------------------------------------------------------------------
(* What the workflow does about a push.                                    *)

(* A job passes only if what it reads does, and may fail for the runner or *)
(* an install all the same.                                                *)
RunJob(n, j) ==
  /\ n \in Pushed
  /\ job[n][j] = "queued"
  /\ \E conclusion \in Conclusions :
       /\ conclusion = "success" => JobPasses(j, pushes[n].files)
       /\ job' = [job EXCEPT ![n][j] = conclusion]
  /\ UNCHANGED <<pushes, checked, report, issue>>

Settled(n) == n \in Pushed /\ \A j \in Jobs : job[n][j] \in Conclusions
Red(n) == Settled(n) /\ \E j \in Jobs : job[n][j] = "failure"

Working(n) == report[n] \in {"running", "filing"}

(* In the group, the newest request is the one that waits: an older one    *)
(* that was waiting is cancelled, whatever commit each is about.           *)
Queue(n) ==
  report' = [m \in Numbers |->
               IF m = n THEN "pending"
               ELSE IF report[m] = "pending" THEN "cancelled" ELSE report[m]]

(* A defect to check against: needs: [cross-file].                         *)
ReportDecidesEarly(n) ==
  /\ n \in Pushed
  /\ job[n]["cross-file"] # "queued"
  /\ report[n] = "waiting"
  /\ IF Red(n) THEN Queue(n) ELSE report' = [report EXCEPT ![n] = "skipped"]
  /\ UNCHANGED <<pushes, checked, job, issue>>

(* needs: both jobs, and failure() of either.                              *)
ReportDecides(n) ==
  /\ Settled(n)
  /\ report[n] = "waiting"
  /\ IF Red(n) THEN Queue(n) ELSE report' = [report EXCEPT ![n] = "skipped"]
  /\ UNCHANGED <<pushes, checked, job, issue>>

(* A defect to check against: no group, so any number of reports at once.  *)
StartReportAtOnce(n) ==
  /\ report[n] = "pending"
  /\ report' = [report EXCEPT ![n] = "running"]
  /\ UNCHANGED <<pushes, checked, job, issue>>

StartReport(n) ==
  /\ report[n] = "pending"
  /\ ~\E m \in Numbers : Working(m)
  /\ report' = [report EXCEPT ![n] = "running"]
  /\ UNCHANGED <<pushes, checked, job, issue>>

OpenIssues == {n \in Numbers : issue[n] = "open"}

(* Defects to check against: closed issues are found too.                  *)
LookForAnyIssue(n) ==
  /\ report[n] = "running"
  /\ report' = [report EXCEPT ![n] =
                  IF \E m \in Numbers : issue[m] # "none" THEN "done" ELSE "filing"]
  /\ UNCHANGED <<pushes, checked, job, issue>>

LookForIssue(n) ==
  /\ report[n] = "running"
  /\ report' = [report EXCEPT ![n] = IF OpenIssues # {} THEN "done" ELSE "filing"]
  /\ UNCHANGED <<pushes, checked, job, issue>>

FileIssue(n) ==
  /\ report[n] = "filing"
  /\ report' = [report EXCEPT ![n] = "done"]
  /\ issue' = [issue EXCEPT ![n] = "open"]
  /\ UNCHANGED <<pushes, checked, job>>

(* A call to the host fails, and `set -e` ends the job: before the listing *)
(* was read, or with the issue filed or not.                               *)
ReportFails(n) ==
  /\ Working(n)
  /\ report' = [report EXCEPT ![n] = "failed"]
  /\ \/ UNCHANGED issue
     \/ report[n] = "filing" /\ issue' = [issue EXCEPT ![n] = "open"]
  /\ UNCHANGED <<pushes, checked, job>>

-----------------------------------------------------------------------------
(* What people do: a failed report is run again, an issue is closed.       *)

RunAgain(n) ==
  /\ report[n] = "failed"
  /\ Queue(n)
  /\ UNCHANGED <<pushes, checked, job, issue>>

CloseIssue(n) ==
  /\ issue[n] = "open"
  /\ issue' = [issue EXCEPT ![n] = "closed"]
  /\ UNCHANGED <<pushes, checked, job, report>>

Host(n) ==
  \/ \E j \in Jobs : RunJob(n, j)
  \/ ReportDecides(n) \/ StartReport(n) \/ LookForIssue(n) \/ FileIssue(n) \/ ReportFails(n)

Next ==
  \/ \E batch \in Batches : AppCommits(batch)
  \/ \E p \in Pulls : CheckPull(p) \/ MergePull(p)
  \/ \E n \in Numbers : Host(n) \/ RunAgain(n) \/ CloseIssue(n)

-----------------------------------------------------------------------------
(* The host runs every job it has queued; nothing makes a person or the    *)
(* App do anything.                                                        *)
Spec == Init /\ [][Next]_vars /\ \A n \in Numbers : WF_vars(Host(n))

-----------------------------------------------------------------------------
(* Properties.                                                             *)

(* "Two red pushes in quick succession would otherwise both find no open   *)
(* issue and both file one": with reports that fail halfway, are run again *)
(* or replaced while they wait, and issues people close, there is one at   *)
(* most.                                                                   *)
OneOpenIssue == \A m, n \in OpenIssues : m = n

(* A batch is validated alone, so the rules over the inbox's other rows    *)
(* are never put to it; the rows a producer derives are in no group and    *)
(* judge nothing, and a batch never makes the validator refuse a main it   *)
(* passed.  (The schemas are not put to a batch at all.)                   *)
AppKeepsTheRules ==
  \A n \in Pushed :
    LET before == IF n = 1 THEN {} ELSE pushes[n - 1].files
    IN /\ pushes[n].by = "app"
       /\ JobPasses("cross-file", before)
       => JobPasses("cross-file", pushes[n].files)

(* Two pull requests, each green beside main as it was, may be red         *)
(* together.  The validator then says of every record which of the         *)
(* README's rules it takes part in breaking, unless it breaks off; but     *)
(* where the rows of a group differ only in that some lack the field, it   *)
(* says nothing.  A push it passes breaks no rule but that way, and the    *)
(* field is then human_baseline: a row that lacks its state is an error.   *)
Naming ==
  {files \in Inboxes :
     \/ Traceback(files, Declared)
     \/ \A f \in Read(files) :
          Broken(f, files, Declared) \subseteq Errors(f, files, Declared) \cup Unseen(f, files)}

Sound == {files \in Inboxes : \A f \in Read(files) : Broken(f, files, Declared) = {}}

SoundButForABaseline ==
  {files \in Inboxes :
     \A f \in Read(files) : Broken(f, files, Declared)
                              \subseteq Unseen(f, files) \ {"repository_state-differs"}}

BreachesAreNamed ==
  \A n \in Pushed :
    /\ pushes[n].files \in Naming
    /\ job[n]["cross-file"] = "success" => pushes[n].files \in SoundButForABaseline

(* "These five rules are what tools/inbox_validate.py enforces", the third *)
(* being that human_baseline is byte-for-byte identical within a group     *)
(* (inbox/README.md): a push both of whose jobs are green breaks none.     *)
GreenBreaksNothing ==
  \A n \in Pushed : (\A j \in Jobs : job[n][j] = "success") => pushes[n].files \in Sound

(* The report of n ended without having looked, or waits behind one that   *)
(* did.                                                                    *)
ReportLost(n) ==
  \/ report[n] = "failed"
  \/ report[n] = "cancelled" /\ \E m \in Numbers : report[m] = "failed"

(* A red main is reported: there comes a time when an issue is open, or    *)
(* the report itself has failed, red for people to see.                    *)
RedIsReported ==
  \A n \in Numbers : (Red(n) /\ report[n] = "waiting") ~> (OpenIssues # {} \/ ReportLost(n))

=============================================================================
