---------------------------- MODULE DeriveCiRows ----------------------------
(***************************************************************************)
(* The capture producer, tools/derive_ci_rows.py: one run record per       *)
(* rescued execution stream, derived from the streams' index and from      *)
(* what the host answers about each run, and appended to the inboxes.      *)
(*                                                                         *)
(* The producer is one sequential process that an operator starts again    *)
(* and again over the same cache and the same inboxes.  Around it, the     *)
(* host's answers move, a call gets no answer, and the process is killed   *)
(* at any point, in the middle of writing a cache entry or a row included. *)
(*                                                                         *)
(* What a row says is cut down to what decides where it is filed, whether  *)
(* it exists, and whether two derivations of one run agree.                *)
(***************************************************************************)
EXTENDS Naturals, Sequences, FiniteSets

CONSTANTS
  Runs,        \* the index entries, each named by its run id
  Entry,       \* Entry[run]: what the index says of it (see EntryType)
  Commits,     \* the commits of the streams repository a run can be made over
  IndexAt,     \* IndexAt[c]: index.json at commit c, a sequence of entries
  Paths,       \* the REST paths the derivation builds
  Heads,       \* reviewed commits
  Days,        \* UTC dates
  Pulls,       \* pull requests, each of one repository
  Branches,    \* head branches, each of one repository
  Hosts,       \* the states the host may be in at the start
  MayBecome,   \* MayBecome[p]: the answers path p may come to give later
  Declarations,\* what the inbox.json of each inbox may declare
  NoFile, Torn, NotRead, NoHead, NoDay, NoTask, NoCommit, All

-----------------------------------------------------------------------------
(* The host's answers, cut down to what the derivation tests.  A file is   *)
(* answered with a text, of which only the named fact matters, or with     *)
(* something that is not inline text.                                      *)

Absent == [status |-> "404"]

Text(fact) == [text |-> fact]

Unreadable == Text("unreadable")

Visibilities == {"public", "enterprise-private"}

Kinds == {"run", "pull", "commits", "wrapper", "template", "routine", "caller", "jobs",
          "agents", "settings", "repo", "manifest", "vendor", "comments"}

Texts ==
  {"unreadable", "plain",
   "renders", "names-part", "prompt-unsupported", "args-unsupported",   \* the template
   "holds-prompt", "calls-commit", "calls-branch",                      \* the wrapper
   "calls", "calls-gated", "calls-nothing",                             \* the caller
   "pinned"}                                                            \* the manifest

(* Whether the run says it resolved a reusable workflow, and at a commit.  *)
Referenced == {"none", "at-commit", "at-none"}

AnswersOf(k) ==
  {Absent} \cup
  CASE k = "run"      -> [head : Heads \cup {NoHead}, filed : BOOLEAN, day : Days \cup {NoDay},
                          branch : Branches, review : Referenced, wrapper : Referenced]
    [] k = "pull"     -> [branch : Branches, scoped : BOOLEAN]
    [] k = "commits"  -> [commits : SUBSET Heads]
    [] k = "jobs"     -> [step : Days \cup {NoDay}, concluded : BOOLEAN]
    [] k = "repo"     -> [public : BOOLEAN]
    [] k = "vendor"   -> [named : BOOLEAN]
    [] k = "comments" -> [marker : Heads \cup {NoHead}]
    [] OTHER          -> [text : Texts]

Answers == UNION {AnswersOf(k) : k \in Kinds}

StreamReasons ==
  {"stream-path-escapes", "stream-missing", "stream-unreadable", "digest-mismatch",
   "result-absent", "result-incomplete", "publisher-as-agent", "model-absent",
   "model-ambiguous", "provider-unresolved", "harness-version-absent",
   "credential-ambiguous"}

(* Every reason the log can count an entry under, or "none".               *)
Reasons ==
  StreamReasons \cup
  {"none", "run-unresolved", "pr-unresolved", "run-404", "repo-mismatch", "head-unresolved",
   "pr-404", "head-not-in-pr", "review-workflow-404", "review-workflow-unreadable",
   "review-workflow-unresolved", "routine-404", "routine-unreadable", "caller-unreadable",
   "started-at-unresolved", "l1-unresolved", "template-unsupported", "part-unresolved",
   "agents-unreadable", "manifest-unreadable", "bundle-unpinned", "scope-unparsed",
   "visibility-not-public", "validator-refused", "row-exists-differs"}

(* An index entry and the stream it names: the first reason the stream     *)
(* alone refuses a row, if any; whether the entry names its workflow run   *)
(* and its pull request; whether it names a part; whether the client       *)
(* version it records names a publisher; whether the inbox validator       *)
(* admits its row; and the REST path of each fact about it.                *)
EntryType ==
  [stream : StreamReasons \cup {"settles"}, named : {"both", "run-unresolved", "pr-unresolved"},
   pull : Pulls, part : BOOLEAN, publisher : BOOLEAN, admitted : BOOLEAN,
   path : [Kinds -> Paths]]

Rows ==
  [run : Runs, head : Heads, day : Days, visibility : Visibilities,
   route : BOOLEAN, streams : Commits]

ASSUME EntryAssumption == Entry \in [Runs -> EntryType]
ASSUME IndexAssumption ==       \* a run id holds an artifact's, which is never given twice
  /\ IndexAt \in [Commits -> Seq(Runs)]
  /\ \A c \in Commits : \A i, j \in DOMAIN IndexAt[c] : IndexAt[c][i] = IndexAt[c][j] => i = j
ASSUME HostAssumption ==
  /\ Hosts \subseteq [Paths -> Answers]
  /\ MayBecome \in [Paths -> SUBSET Answers]
  /\ \A h \in Hosts, e \in Runs, k \in Kinds : h[Entry[e].path[k]] \in AnswersOf(k)
  /\ \A e \in Runs, k \in Kinds : MayBecome[Entry[e].path[k]] \subseteq AnswersOf(k)
  /\ Declarations \subseteq [Visibilities -> Visibilities \cup {"none"}]
ASSUME SentinelAssumption ==
  /\ NoFile # Torn
  /\ NoFile \notin Answers \cup Rows
  /\ Torn \notin Answers \cup Rows
  /\ NotRead \notin Answers
  /\ NoHead \notin Heads
  /\ NoDay \notin Days
  /\ NoTask \notin Pulls \X Heads
  /\ NoCommit \notin Commits
  /\ All \notin Runs

-----------------------------------------------------------------------------
VARIABLES
  host,      \* what the host answers now, per path
  cache,     \* the cache directory: an answer, NoFile or Torn, per path
  inbox,     \* the two inboxes: a row, NoFile or Torn, per place
  declared,  \* the identity each inbox declares in its inbox.json
  pc,        \* where the producer is; the kind it fetches next inside derive_one
  args,      \* the arguments of this invocation
  batch,     \* the visibility whose rows are being written
  queue,     \* the entries the present loop has left
  heads,     \* the task each entry of the index was resolved to
  got,       \* the answers derive_one holds for the entry it is at
  outcomes,  \* what each entry came to
  exit       \* the status the last invocation ended with

vars == <<host, cache, inbox, declared, pc, args, batch, queue, heads, got, outcomes, exit>>

Places == Visibilities \X Days \X Runs

File == Rows \cup {NoFile, Torn}

Outcome == [row : Rows \cup {NoFile}, reason : Reasons, state : {"none", "new", "skip"}]

NotDerived == [row |-> NoFile, reason |-> "none", state |-> "none"]

NothingRead == [k \in Kinds |-> NotRead]

Idle == [commit |-> NoCommit, only |-> All, privateOut |-> FALSE]

PCs == {"idle", "heads", "derive", "assembly", "batch", "write", "report"} \cup Kinds

TypeOK ==
  /\ host \in [Paths -> Answers]
  /\ cache \in [Paths -> Answers \cup {NoFile, Torn}]
  /\ inbox \in [Places -> File]
  /\ declared \in Declarations
  /\ pc \in PCs
  /\ args \in [commit : Commits \cup {NoCommit}, only : Runs \cup {All}, privateOut : BOOLEAN]
  /\ batch \in Visibilities
  /\ queue \in Seq(Runs)
  /\ heads \in [Runs -> (Pulls \X Heads) \cup {NoTask}]
  /\ got \in [Kinds -> Answers \cup {NotRead}]
  /\ outcomes \in [Runs -> Outcome]
  /\ exit \in {"none", "0", "1", "2", "killed"}

Init ==
  /\ host \in Hosts
  /\ declared \in Declarations
  /\ cache = [p \in Paths |-> NoFile]
  /\ inbox = [place \in Places |-> NoFile]
  /\ pc = "idle"
  /\ args = Idle
  /\ batch = "public"
  /\ queue = << >>
  /\ heads = [e \in Runs |-> NoTask]
  /\ got = NothingRead
  /\ outcomes = [e \in Runs |-> NotDerived]
  /\ exit = "none"

-----------------------------------------------------------------------------
(* Fetcher.get: a cache entry that parses is the answer, whatever the host *)
(* would say now; otherwise the host is asked, and an answer, a 404 among  *)
(* them, is cached before it is used.  A call that gets no answer caches   *)
(* nothing.                                                                *)

Cached(p) == cache[p] \notin {NoFile, Torn}

(* A defect to check against: the cache is written and never read.         *)
AnswerOfHost(p) == host[p]

Answer(p) == IF Cached(p) THEN cache[p] ELSE host[p]

Keep(p) == cache' = [cache EXCEPT ![p] = Answer(p)]

NoAnswer(p) == ~Cached(p) /\ UNCHANGED cache

-----------------------------------------------------------------------------
(* The derivations a row rests on (tools/ci_row.py).                       *)

(* Defects to check against: the host's own word for what is not public,   *)
(* and a repository the host says nothing of taken for a public one.       *)
VisibilityAsAnswered(repo) == IF repo # Absent /\ repo.public THEN "public" ELSE "private"
VisibilityOpen(repo) == IF repo = Absent \/ repo.public THEN "public" ELSE "enterprise-private"

(* Only what the host calls public is public; a repository it says nothing *)
(* of is not.                                                              *)
Visibility(repo) ==
  IF repo # Absent /\ repo.public THEN "public" ELSE "enterprise-private"

(* The reviewing step's own start, or else the run's.                      *)
StartedAt(jobs, run) ==
  IF jobs # Absent /\ jobs.step # NoDay THEN jobs.step ELSE run.day

(* The branch is the evidence where the commit list is not.                *)
HeadBelongsTo(run, pull) == pull # Absent /\ run.branch = pull.branch

Task(e, head) == <<Entry[e].pull, head>>

(* The publisher's comment carries a route only for the head it marks.     *)
VerdictRoute(comments, head) == comments # Absent /\ comments.marker = head

-----------------------------------------------------------------------------
(* The steps of derive_one: the first reason an answer gives for no row,   *)
(* or "none".  g holds the answers read so far.                            *)

RunRefusal(run) ==
  IF run = Absent THEN "run-404"
  ELSE IF ~run.filed THEN "repo-mismatch"
  ELSE IF run.head = NoHead THEN "head-unresolved"
  ELSE "none"

PullRequestRefusal(g) ==
  IF g["commits"] = Absent THEN "pr-404"
  ELSE IF g["run"].head \notin g["commits"].commits /\ ~HeadBelongsTo(g["run"], g["pull"])
  THEN "head-not-in-pr"
  ELSE "none"

(* Whether the run resolved the wrapper at a commit, so that its text is   *)
(* asked for.                                                              *)
AsksWrapper(run) == run.wrapper = "at-commit"

WrapperRead(g) == AsksWrapper(g["run"]) /\ g["wrapper"] \notin {Absent, Unreadable}

(* A defect to check against: a call of a branch is followed like one of a *)
(* commit.                                                                 *)
NoTextAtAll(g) ==
  \/ g["run"].review = "at-none"
  \/ g["run"].review = "none" /\ ~WrapperRead(g)

(* The text the runner was handed is review.yml at the commit the run      *)
(* resolved it at, the wrapper's pinned call of it, or a docs-review.yml   *)
(* holding the prompt itself; here it is none of them.                     *)
NoText(g) ==
  \/ g["run"].review = "at-none"
  \/ g["run"].review = "none" /\ (~WrapperRead(g) \/ g["wrapper"] = Text("calls-branch"))

(* A wrapper the run went through has to be readable all the same.         *)
ReferenceRefusal(g) ==
  IF AsksWrapper(g["run"]) /\ g["run"].review = "none" /\ ~WrapperRead(g)
  THEN IF g["wrapper"] = Absent THEN "review-workflow-404" ELSE "review-workflow-unreadable"
  ELSE IF NoText(g) \/ (g["run"].wrapper # "none" /\ ~WrapperRead(g))
  THEN "review-workflow-unresolved"
  ELSE "none"

HoldsPrompt(g) ==
  /\ g["run"].review = "none"
  /\ AsksWrapper(g["run"])
  /\ g["wrapper"] # Text("calls-commit")

FileRefusal(file, absent, unreadable) ==
  IF file = Absent THEN absent ELSE IF file = Unreadable THEN unreadable ELSE "none"

CallerRefusal(caller) ==
  IF caller \in {Absent, Unreadable, Text("calls-nothing")} THEN "caller-unreadable" ELSE "none"

ScheduleRefusal(g) ==
  IF StartedAt(g["jobs"], g["run"]) = NoDay THEN "started-at-unresolved" ELSE "none"

PromptRefusal(e, g) ==
  IF g["caller"] = Text("calls-gated") /\ (g["jobs"] = Absent \/ ~g["jobs"].concluded)
  THEN "l1-unresolved"
  ELSE IF g["template"] = Text("prompt-unsupported") THEN "template-unsupported"
  ELSE IF g["template"] = Text("names-part") /\ ~Entry[e].part THEN "part-unresolved"
  ELSE "none"

SurfaceRefusal(g) ==
  IF g["template"] = Text("args-unsupported") THEN "template-unsupported" ELSE "none"

BundleRefusal(g) ==
  IF g["manifest"] # Text("pinned") /\ (g["vendor"] = Absent \/ ~g["vendor"].named)
  THEN "bundle-unpinned" ELSE "none"

ScopeRefusal(g) ==
  IF g["pull"] = Absent \/ ~g["pull"].scoped THEN "scope-unparsed" ELSE "none"

Then(first, second) == IF first # "none" THEN first ELSE second

(* The refusals derive_one reaches between the answer of kind k and the    *)
(* fetch that follows it.                                                  *)
Refusal(k, e, g) ==
  CASE k = "run"      -> RunRefusal(g["run"])
    [] k = "commits"  -> Then(PullRequestRefusal(g),
                              IF AsksWrapper(g["run"]) THEN "none" ELSE ReferenceRefusal(g))
    [] k = "wrapper"  -> ReferenceRefusal(g)
    [] k = "template" -> FileRefusal(g["template"], "review-workflow-404",
                                     "review-workflow-unreadable")
    [] k = "routine"  -> FileRefusal(g["routine"], "routine-404", "routine-unreadable")
    [] k = "caller"   -> CallerRefusal(g["caller"])
    [] k = "jobs"     -> Then(ScheduleRefusal(g), PromptRefusal(e, g))
    [] k = "agents"   -> Then(FileRefusal(g["agents"], "none", "agents-unreadable"),
                              SurfaceRefusal(g))
    [] k = "manifest" -> FileRefusal(g["manifest"], "none", "manifest-unreadable")
    [] k = "vendor"   -> Then(BundleRefusal(g), ScopeRefusal(g))
    [] OTHER          -> "none"

(* verdict_route_step asks for the comments only where one stream covers   *)
(* the commit: where the head pass resolved this task exactly once.        *)
CoveredOnce(task) ==
  \E f \in Runs : heads[f] = task /\ \A other \in Runs : heads[other] = task => other = f

NextFetch(k, e, g) ==
  CASE k = "run"      -> "pull"
    [] k = "pull"     -> "commits"
    [] k = "commits"  -> IF AsksWrapper(g["run"]) THEN "wrapper" ELSE "template"
    [] k = "wrapper"  -> "template"
    [] k = "template" -> "routine"
    [] k = "routine"  -> "caller"
    [] k = "caller"   -> "jobs"
    [] k = "jobs"     -> "agents"
    [] k = "agents"   -> "settings"
    [] k = "settings" -> "repo"
    [] k = "repo"     -> "manifest"
    [] k = "manifest" -> "vendor"
    [] k = "vendor"   -> IF CoveredOnce(Task(e, g["run"].head)) THEN "comments" ELSE "assembly"
    [] k = "comments" -> "assembly"

PathOf(k, e, g) ==
  IF k = "template" /\ HoldsPrompt(g) THEN Entry[e].path["wrapper"] ELSE Entry[e].path[k]

RowOf(e, g) ==
  [run        |-> e,
   head       |-> g["run"].head,
   day        |-> StartedAt(g["jobs"], g["run"]),
   visibility |-> Visibility(g["repo"]),
   route      |-> g["comments"] # NotRead /\ VerdictRoute(g["comments"], g["run"].head),
   streams    |-> args.commit]

NoRow(reason) == [NotDerived EXCEPT !.reason = reason]

-----------------------------------------------------------------------------
(* The producer's steps.                                                   *)

Current == Head(queue)

Index == IndexAt[args.commit]

(* --only names one run id, or nothing.                                     *)
Chosen(e) == args.only \in {All, e}

(* main, up to the head pass: the clone has to be on the named commit.     *)
Start(commit, only, privateOut) ==
  /\ pc = "idle"
  /\ args' = [commit |-> commit, only |-> only, privateOut |-> privateOut]
  /\ pc' = "heads"
  /\ queue' = IndexAt[commit]
  /\ exit' = "none"
  /\ UNCHANGED <<host, cache, inbox, declared, batch, heads, got, outcomes>>

(* The process is over, and what it held in memory is gone.                *)
End(status) ==
  /\ pc' = "idle"
  /\ exit' = status
  /\ args' = Idle
  /\ batch' = "public"
  /\ queue' = << >>
  /\ heads' = [e \in Runs |-> NoTask]
  /\ got' = NothingRead
  /\ outcomes' = [e \in Runs |-> NotDerived]

(* The fence date is none, the clone is on another commit than the operator *)
(* named, or an input cannot be read.                                      *)
StartRefused ==
  /\ pc = "idle"
  /\ End("2")
  /\ UNCHANGED <<host, cache, inbox, declared>>

TaskOf(e, run) ==
  IF run = Absent THEN NoTask ELSE IF run.head = NoHead THEN NoTask ELSE Task(e, run.head)

(* head_of: every entry of the index is resolved, chosen or not.  A run    *)
(* the host gave no answer about is passed over without a word.            *)
HeadOf ==
  /\ pc = "heads"
  /\ queue # << >>
  /\ \/ /\ Entry[Current].named # "both"
        /\ UNCHANGED <<cache, heads>>
     \/ /\ Entry[Current].named = "both"
        /\ Keep(Entry[Current].path["run"])
        /\ heads' = [heads EXCEPT ![Current] =
             TaskOf(Current, Answer(Entry[Current].path["run"]))]
     \/ /\ Entry[Current].named = "both"
        /\ NoAnswer(Entry[Current].path["run"])
        /\ UNCHANGED heads
  /\ queue' = Tail(queue)
  /\ UNCHANGED <<host, inbox, declared, pc, args, batch, got, outcomes, exit>>

HeadsDone ==
  /\ pc = "heads"
  /\ queue = << >>
  /\ pc' = "derive"
  /\ queue' = Index
  /\ UNCHANGED <<host, cache, inbox, declared, args, batch, heads, got, outcomes, exit>>

(* One entry has come to its outcome; the next one is derived.             *)
Settle(outcome) ==
  /\ outcomes' = [outcomes EXCEPT ![Current] = outcome]
  /\ queue' = Tail(queue)
  /\ pc' = "derive"
  /\ got' = NothingRead

NotChosen ==
  /\ pc = "derive"
  /\ queue # << >>
  /\ ~Chosen(Current)
  /\ queue' = Tail(queue)
  /\ UNCHANGED <<host, cache, inbox, declared, pc, args, batch, heads, got, outcomes, exit>>

(* stream_step, and the tests of run_step before its call.                 *)
StreamStep ==
  /\ pc = "derive"
  /\ queue # << >>
  /\ Chosen(Current)
  /\ LET entry  == Entry[Current]
         reason == Then(IF entry.stream = "settles" THEN "none" ELSE entry.stream,
                        IF entry.named = "both" THEN "none" ELSE entry.named)
     IN \/ /\ reason # "none"
           /\ Settle(NoRow(reason))
        \/ /\ reason = "none"
           /\ pc' = "run"
           /\ UNCHANGED <<queue, got, outcomes>>
  /\ UNCHANGED <<host, cache, inbox, declared, args, batch, heads, exit>>

(* One REST answer: it refuses the row, or the derivation goes on.         *)
Read ==
  /\ pc \in Kinds
  /\ LET p      == PathOf(pc, Current, got)
         g      == [got EXCEPT ![pc] = Answer(p)]
         reason == Refusal(pc, Current, g)
     IN   /\ Keep(p)
          /\ \/ /\ reason # "none"
                /\ Settle(NoRow(reason))
             \/ /\ reason = "none"
                /\ got' = g
                /\ pc' = NextFetch(pc, Current, g)
                /\ UNCHANGED <<queue, outcomes>>
  /\ UNCHANGED <<host, inbox, declared, args, batch, heads, exit>>

(* A defect to check against: what was derived so far is written.          *)
ReadFailsToBatch ==
  /\ pc \in Kinds
  /\ NoAnswer(PathOf(pc, Current, got))
  /\ pc' = "batch"
  /\ got' = NothingRead
  /\ UNCHANGED <<host, inbox, declared, args, batch, queue, heads, outcomes, exit>>

(* A call without an answer ends the invocation: FetchError leaves derive, *)
(* and nothing has been written.                                           *)
ReadFails ==
  /\ pc \in Kinds
  /\ NoAnswer(PathOf(pc, Current, got))
  /\ End("2")
  /\ UNCHANGED <<host, inbox, declared>>

AssemblyStep ==
  /\ pc = "assembly"
  /\ Settle(IF Entry[Current].publisher THEN NoRow("publisher-as-agent")
            ELSE [NotDerived EXCEPT !.row = RowOf(Current, got)])
  /\ UNCHANGED <<host, cache, inbox, declared, args, batch, heads, exit>>

DeriveDone ==
  /\ pc = "derive"
  /\ queue = << >>
  /\ pc' = "batch"
  /\ UNCHANGED <<host, cache, inbox, declared, args, batch, queue, heads, got, outcomes, exit>>

-----------------------------------------------------------------------------
(* The two batches: public first, then enterprise-private.                 *)

Candidate(e) ==
  /\ outcomes[e].row # NoFile
  /\ outcomes[e].row.visibility = batch

(* No --private-out: the rows that are not public are counted, not written. *)
WithoutRoot ==
  /\ pc = "batch"
  /\ batch = "enterprise-private"
  /\ ~args.privateOut
  /\ outcomes' = [e \in Runs |-> IF Candidate(e) THEN NoRow("visibility-not-public")
                                 ELSE outcomes[e]]
  /\ pc' = "report"
  /\ UNCHANGED <<host, cache, inbox, declared, args, batch, queue, heads, got, exit>>

HasRoot == batch = "public" \/ args.privateOut

(* The destination declares another identity than the rows bound for it:   *)
(* the invocation ends, whatever an earlier batch has written.             *)
IdentityMismatch ==
  /\ pc = "batch"
  /\ HasRoot
  /\ declared[batch] # batch
  /\ End("2")
  /\ UNCHANGED <<host, cache, inbox, declared>>

(* validate_batch: what the inbox validator refuses is counted and never   *)
(* written.                                                                *)
ValidateBatch ==
  /\ pc = "batch"
  /\ HasRoot
  /\ declared[batch] = batch
  /\ outcomes' = [e \in Runs |-> IF Candidate(e) /\ ~Entry[e].admitted
                                 THEN NoRow("validator-refused") ELSE outcomes[e]]
  /\ queue' = Index
  /\ pc' = "write"
  /\ UNCHANGED <<host, cache, inbox, declared, args, batch, heads, got, exit>>

PlaceOf(row) == <<batch, row.day, row.run>>

NotACandidate ==
  /\ pc = "write"
  /\ queue # << >>
  /\ ~Candidate(Current)
  /\ queue' = Tail(queue)
  /\ UNCHANGED <<host, cache, inbox, declared, pc, args, batch, heads, got, outcomes, exit>>

(* Defects to check against: whatever is there is taken for the row, or is *)
(* written over.                                                           *)
WriteRowUnlessThere ==
  /\ pc = "write" /\ queue # << >> /\ Candidate(Current)
  /\ LET row == outcomes[Current].row
     IN IF inbox[PlaceOf(row)] = NoFile
        THEN /\ inbox' = [inbox EXCEPT ![PlaceOf(row)] = row]
             /\ outcomes' = [outcomes EXCEPT ![Current].state = "new"]
        ELSE outcomes' = [outcomes EXCEPT ![Current].state = "skip"] /\ UNCHANGED inbox
  /\ queue' = Tail(queue)
  /\ UNCHANGED <<host, cache, declared, pc, args, batch, heads, got, exit>>

WriteRowOver ==
  /\ pc = "write" /\ queue # << >> /\ Candidate(Current)
  /\ inbox' = [inbox EXCEPT ![PlaceOf(outcomes[Current].row)] = outcomes[Current].row]
  /\ outcomes' = [outcomes EXCEPT ![Current].state = "new"]
  /\ queue' = Tail(queue)
  /\ UNCHANGED <<host, cache, declared, pc, args, batch, heads, got, exit>>

(* write_row: the same bytes are a skip, other bytes are a refusal, and    *)
(* only a place that holds nothing is written.                             *)
WriteRow ==
  /\ pc = "write"
  /\ queue # << >>
  /\ Candidate(Current)
  /\ LET row   == outcomes[Current].row
         place == PlaceOf(row)
     IN \/ /\ inbox[place] = row
           /\ outcomes' = [outcomes EXCEPT ![Current].state = "skip"]
           /\ UNCHANGED inbox
        \/ /\ inbox[place] \notin {row, NoFile}
           /\ outcomes' = [outcomes EXCEPT ![Current] = NoRow("row-exists-differs")]
           /\ UNCHANGED inbox
        \/ /\ inbox[place] = NoFile
           /\ inbox' = [inbox EXCEPT ![place] = row]
           /\ outcomes' = [outcomes EXCEPT ![Current].state = "new"]
  /\ queue' = Tail(queue)
  /\ UNCHANGED <<host, cache, declared, pc, args, batch, heads, got, exit>>

BatchDone ==
  /\ pc = "write"
  /\ queue = << >>
  /\ IF batch = "public"
     THEN batch' = "enterprise-private" /\ pc' = "batch"
     ELSE pc' = "report" /\ UNCHANGED batch
  /\ UNCHANGED <<host, cache, inbox, declared, args, queue, heads, got, outcomes, exit>>

(* The log is printed, and the status tells whether a run was answered     *)
(* twice.                                                                  *)
Report ==
  /\ pc = "report"
  /\ End(IF \E e \in Runs : outcomes[e].reason = "row-exists-differs" THEN "1" ELSE "0")
  /\ UNCHANGED <<host, cache, inbox, declared>>

-----------------------------------------------------------------------------
(* A torn cache entry that ends inside a character is not text: get opens  *)
(* it before anything else, expects it to hold JSON or not, and never that *)
(* it does not decode, and the process ends with a traceback.  Whether a   *)
(* torn entry decodes is left open.                                        *)

Asking ==
  \/ pc \in Kinds
  \/ pc = "heads" /\ queue # << >> /\ Entry[Current].named = "both"

Asked == IF pc = "heads" THEN Entry[Current].path["run"] ELSE PathOf(pc, Current, got)

CacheBreaks ==
  /\ Asking
  /\ cache[Asked] = Torn
  /\ End("1")
  /\ UNCHANGED <<host, cache, inbox, declared>>

-----------------------------------------------------------------------------
(* What surrounds the producer.                                            *)

(* The process is killed between two steps, ...                            *)
Crash ==
  /\ pc # "idle"
  /\ End("killed")
  /\ UNCHANGED <<host, cache, inbox, declared>>

(* ... while a cache entry is being written in place, ...                  *)
CrashInCacheWrite ==
  /\ Asking
  /\ ~Cached(Asked) /\ cache' = [cache EXCEPT ![Asked] = Torn]
  /\ End("killed")
  /\ UNCHANGED <<host, inbox, declared>>

(* ... or while a row is.                                                  *)
CrashInRowWrite ==
  /\ pc = "write"
  /\ queue # << >>
  /\ Candidate(Current)
  /\ LET place == PlaceOf(outcomes[Current].row)
     IN inbox[place] = NoFile /\ inbox' = [inbox EXCEPT ![place] = Torn]
  /\ End("killed")
  /\ UNCHANGED <<host, cache, declared>>

(* A pull request is rebased, a run re-run, a repository opened or closed. *)
HostMoves(p) ==
  /\ \E a \in MayBecome[p] \ {host[p]} : host' = [host EXCEPT ![p] = a]
  /\ UNCHANGED <<cache, inbox, declared, pc, args, batch, queue, heads, got, outcomes, exit>>

Producer ==
  \/ HeadOf \/ HeadsDone
  \/ NotChosen \/ StreamStep \/ Read \/ ReadFails \/ AssemblyStep \/ DeriveDone
  \/ WithoutRoot \/ IdentityMismatch \/ ValidateBatch
  \/ NotACandidate \/ WriteRow \/ BatchDone \/ Report \/ CacheBreaks

Environment ==
  \/ \E commit \in Commits, only \in Runs \cup {All}, privateOut \in BOOLEAN :
       Start(commit, only, privateOut)
  \/ StartRefused
  \/ Crash \/ CrashInCacheWrite \/ CrashInRowWrite
  \/ \E p \in Paths : HostMoves(p)

Next == Producer \/ Environment

(* Nothing makes the operator start the producer, and nothing makes a call *)
(* return: gh is waited for without a limit, so an invocation may stay     *)
(* where it is.                                                            *)
Spec == Init /\ [][Next]_vars

-----------------------------------------------------------------------------
(* Properties.                                                             *)

Rooted(root, day, run) == inbox[<<root, day, run>>] # NoFile

Recorded(root, day, run) == inbox[<<root, day, run>>] \notin {NoFile, Torn}

(* A row is the derivation of the answers in the cache, "the cache IS the  *)
(* input" (Fetcher's docstring): it lies in the inbox of the visibility    *)
(* the cached answer about its repository gives, under the day its run and *)
(* its jobs were cached with, and it states that place and the head of the *)
(* run.  It has to hold of rows written before a crash, a torn cache entry *)
(* or a move of the host, and of a torn row's place.                       *)
RowsRestOnCache ==
  \A root \in Visibilities, day \in Days, e \in Runs :
    LET known(k) == cache[Entry[e].path[k]]
        row      == inbox[<<root, day, e>>]
    IN Rooted(root, day, e) =>
         /\ \A k \in {"run", "jobs", "repo"} : Cached(Entry[e].path[k])
         /\ known("run") # Absent
         /\ day = StartedAt(known("jobs"), known("run"))
         /\ root = "public" <=> known("repo") # Absent /\ known("repo").public
         /\ row # Torn => /\ row.run = e
                          /\ row.head = known("run").head
                          /\ row.day = day
                          /\ row.visibility = root

(* "A hash over a restatement that is not the prompt is worse than no row" *)
(* (prompt_step).  What the cache holds about an entry that has a row says *)
(* that                                                                    *)
(*   - the run was filed under the index's repository, and the commit it   *)
(*     reviewed is one the pull request lists, or was on its branch;       *)
(*   - the text the runner was handed is a fixed one, that of a commit,    *)
(*     and was answered as text that renders, with the part and the job    *)
(*     conclusions it prints, and so were the routine, the caller that     *)
(*     does call the review, and a wrapper in between;                     *)
(*   - a component of no file is the file's absence, never an answer that  *)
(*     is not text;                                                        *)
(*   - the bundle is one the manifest pins or the vendored one names, and  *)
(*     the pull request says the scope.                                    *)
ReviewedThere(e) ==
  LET known(k) == cache[Entry[e].path[k]]
      run      == known("run")
      pull     == known("pull")
  IN /\ run # Absent /\ run.filed /\ run.head # NoHead
     /\ known("commits") # Absent
     /\ run.head \in known("commits").commits \/ (pull # Absent /\ pull.branch = run.branch)

Handed(e) ==
  LET known(k) == cache[Entry[e].path[k]]
      run      == known("run")
      template == IF run.review = "none" /\ known("wrapper") # Text("calls-commit")
                  THEN known("wrapper") ELSE known("template")
  IN /\ run.review = "at-commit" \/ (run.review = "none" /\ run.wrapper = "at-commit")
     /\ run.wrapper # "none" => /\ run.wrapper = "at-commit"
                                /\ known("wrapper") \notin {Absent, Unreadable}
     /\ run.review = "none" => known("wrapper") # Text("calls-branch")
     /\ template \notin {Absent, Unreadable, Text("prompt-unsupported"), Text("args-unsupported")}
     /\ template = Text("names-part") => Entry[e].part
     /\ known("routine") \notin {Absent, Unreadable}
     /\ known("caller") \notin {Absent, Unreadable, Text("calls-nothing")}
     /\ known("caller") = Text("calls-gated") => known("jobs") # Absent /\ known("jobs").concluded

Established(e) ==
  LET known(k) == cache[Entry[e].path[k]]
  IN /\ Unreadable \notin {known("agents"), known("manifest")}
     /\ known("manifest") # Text("pinned") => known("vendor") # Absent /\ known("vendor").named
     /\ known("pull") # Absent /\ known("pull").scoped

RowsRestOnEvidence ==
  \A root \in Visibilities, day \in Days, e \in Runs :
    Recorded(root, day, e) =>
      Entry[e].stream = "settles" /\ ReviewedThere(e) /\ Handed(e) /\ Established(e)

(* What the log says when it is printed is what the inboxes hold: every    *)
(* chosen entry has a row or a reason and never both, a row the log counts *)
(* is whole and in its place, and where it says that a row exists and      *)
(* differs, there is something of that entry in an inbox.                  *)
LogMatchesInbox ==
  pc = "report" =>
    \A i \in DOMAIN Index :
      LET e == Index[i]
          o == outcomes[e]
      IN Chosen(e) =>
           /\ o.row # NoFile <=> o.reason = "none"
           /\ o.row # NoFile <=> o.state \in {"new", "skip"}
           /\ o.row # NoFile => inbox[<<o.row.visibility, o.row.day, e>>] = o.row
           /\ o.reason = "row-exists-differs" =>
                \E root \in Visibilities, day \in Days : Rooted(root, day, e)

(* An inbox that declares another identity than its rows state is never    *)
(* written to, and nothing reaches the public inbox of a repository the    *)
(* host has not called public.                                             *)
FiledWhereItBelongs ==
  \A root \in Visibilities, day \in Days, e \in Runs :
    Rooted(root, day, e) =>
      /\ declared[root] = root
      /\ root = "public" => cache[Entry[e].path["repo"]] = [public |-> TRUE]

(* Nothing is written before every chosen entry has come to its outcome,   *)
(* and no row of a batch while one of that batch stands that the validator *)
(* does not admit: a call without an answer, on the last entry even, and a *)
(* row refused late leave the inboxes as they were.                        *)
NoRowFromAPartialBatch ==
  [][inbox' # inbox =>
       /\ \A i \in DOMAIN Index :
            Chosen(Index[i]) => outcomes[Index[i]] # NotDerived
       /\ \A e \in Runs : Candidate(e) => Entry[e].admitted]_vars

(* One record per execution in the inboxes together, appended once, never  *)
(* rewritten, never removed, filed where it says (write_row's docstring).  *)
Ledger == INSTANCE InboxLedger WITH Roots <- Visibilities

KeepsTheLedger == Ledger!Spec

-----------------------------------------------------------------------------
(* Statements of the repository about the producer that its steps break.   *)

(* verdict_route_step: "a comment on a head that two runs reviewed names   *)
(* neither of them, and a route copied onto both rows would say of each    *)
(* that it was the run published".                                         *)
RouteNamesOneRun ==
  \A p, q \in Places :
    /\ Recorded(p[1], p[2], p[3]) /\ inbox[p].route
    /\ Recorded(q[1], q[2], q[3]) /\ inbox[q].route
    /\ Task(p[3], inbox[p].head) = Task(q[3], inbox[q].head)
    => p[3] = q[3]

=============================================================================
