# A verification of exeris-ai-execution

This directory models the parts of the repository that decide something: the
capture producer that files run records, the validator and the workflow that
watch over what is filed, the price lists a run is priced by, the oracle that
judges a checkout, the gates it asks, and the suites that calibrate it. TLC
checks the models on small instances; TLAPS proves the main results for every
instance.

Read `DeriveCiRows.tla` first, then `InboxWorkflow.tla` for what becomes of the
rows and `DocsGuardrails.tla` for the oracle. `PROJECT.json` maps every definition to the lines
it models and lists the runs, the hazards and the theorems.

## The system

| Part | Code | State it keeps | Operations |
|---|---|---|---|
| capture producer | `tools/derive_ci_rows.py` | the cache directory, two inboxes, and the memory of one invocation | the head pass, one derivation per index entry (some twelve REST calls, each of which can refuse the row), two batches: identity check, pre-write validation, append |
| row derivations | `tools/ci_row.py` | none | pure functions of the answers |
| oracle interface | `oracles/__init__.py` | none | `outcome_of` |
| docs-guardrails oracle | `oracles/docs_guardrails.py` | none beyond a judgement | `judge`: five checker gates, two semantic gates |
| preservation gate | `oracles/preservation.py` | none | compare bodies with a base commit |
| link-stub gate | `oracles/adr_links.py` | none beyond a call | judge each stub against the registry |
| MCP client | `oracles/mcp_client.py` | a child process, a reading thread, a queue | start, request, close |
| calibration suites | `oracles/docs_mutation_v1.py`, `_v2.py` | a published result | build mutants, judge, tally, compare |
| inbox validator | `tools/inbox_validate.py` | none | the cross-file rules of an inbox |
| prices | `tools/price_list_validate.py`, `tools/api_equivalent.py` | the published lists | publish a list; the list in force, the stream, the tier, the sum |
| inbox workflow | `.github/workflows/inbox.yml` | one open issue | check a push, find the issue or file it |
| other workflows | `guardrails.yml`, `oracle-v2.yml` | none | run the suites against their published result |

How they interact: the producer imports the derivations and the inbox
validator, calls the host (`gh api`) through one method, and writes into the
inboxes the workflows check. The oracle runs the organisation's checkers as
child processes and, for link stubs, an MCP server as another; the calibration
suites run the oracle. Rows quote the suites' published result.

What is hard: a producer killed between or inside its writes and started again
over what it left; a host whose answers move between two calls; a call without
an answer halfway through; a server that is late, repeats itself, dies, or will
not die; a thread that dies without a word; and, in a judgement, an instrument
that is missing and must count neither as a finding nor as a pass.

What makes each part correct:

- producer: one record per execution, never rewritten, filed where it is
  declared; a row is the derivation of the cache, of evidence that was there;
  nothing is written from half a derivation; the log tells what is in the inboxes;
- client: no server is left behind, a call returns its own answer, and only a
  server that writes for ever holds it;
- link-stub gate: one verdict, borne out by registry and stubs;
- judgement: `TRUE_DONE` is backed, `FALSE_DONE` is grounded, no gate vanishes;
- preservation gate: it fails exactly where the text of a preserved page changed,
  and says nothing about what it could not read;
- inbox: a batch does not break a `main` that passed, every breach of a rule is
  named but for the one case `baseline` shows, a red `main` comes to be reported,
  under one issue;
- prices: a figure is the bill of the run's requests, by the one list its label
  names, and a newer list does not reach back;
- calibration: a published pass is a calibrated instrument, and a green check says
  that it still is.

## The modules

| Module | Models | Composes |
|---|---|---|
| `InboxLedger` | what an inbox promises: an append-only ledger, one record per execution | |
| `DeriveCiRows` | the producer, its cache, the inboxes, the host, crashes | `InboxLedger` (refined) |
| `McpClient` | client, thread, queue, child, clock | |
| `Oracle` | a gate's result and `outcome_of` | |
| `LinkVerdict` | what the link-stub gate promises | `Oracle` |
| `AdrLinks` | the gate over a session with a bridge | `Oracle`, `McpClient` (extended), `LinkVerdict` (refined) |
| `DocsGuardrails` | one judgement | `Oracle`; the gate of `AdrLinks` by the verdicts `LinkVerdict` allows |
| `Preservation` | the content_preserved gate over pages a run edits | `Oracle` |
| `Mutations` | what each mutant does to a corpus, and the gates' rules | |
| `Calibration` | both suites, their published file, the jobs that check it | `Oracle`, `Mutations` |
| `InboxValidator` | the rules of `check`, and `inbox/README.md`'s statement of them | |
| `InboxWorkflow` | batches, pull requests, pushes, jobs, reports and the issue | `InboxValidator` |
| `Prices` | price lists being published and runs being priced | |
| `MC*` | the instances TLC checks | |
| `*Proofs` | the theorems, beside the module each is about | |

### DeriveCiRows

`pc` is where the process is. Inside `derive_one` it is the kind of the next
fetch (`"run"`, `"pull"`, ... `"comments"`), so `Read` is one action: ask
`Fetcher.get`, cache, apply the tests the code makes before the following fetch
(`Refusal`), and go on (`NextFetch`) or settle the entry with a reason. The
order of the fetches and of the tests is the code's. `cache` holds per path an
answer, nothing, or a torn file; `inbox` the same per visibility, day and run.
The memory of an invocation (`args`, `queue`, `heads`, `got`, `outcomes`) is lost
when it ends, by `Report`, by a refusal (status 2), by a torn cache entry that
does not decode (`CacheBreaks`, a traceback) or by a crash.

An answer is a record of what the derivation tests in it. Of a text only the
fact the code distinguishes is kept: that it is unreadable, that a template names
a part, that a caller calls the reviewing workflow. Of a workflow a run resolved it is
whether there was one, and whether at a commit (`Referenced`). What an index entry settles
alone, before any call - its stream, its name, whether the validator admits its
row - are facts of the entry (`EntryType`).

### McpClient and AdrLinks

Time passes (`Tick`) only while the client waits on an empty queue; a wait ends at
`Timeout` ticks (`idle`), and every line taken starts it again, as `_receive` does. The
thread decodes ahead, so undecodable bytes end it with earlier lines unread and
no end mark; it marks the end where nobody holds the far end of the output any more,
which is not where the child exits: a child may close it (`StopsSpeaking`) or leave it to
a process it started, and that one may write on. The server may write any answer to a
request it could have seen, in any number and without end, answers without content
among them, plus lines that answer nothing; close its input; exit. `MaxLines` bounds only
how many lines are on their way at a time. `AdrLinks`
extends the client, so that what is proved of the client holds inside it, takes the
bridge's tools as requests, and adds the gate: a call that raises leaves the `with` block through the client's
own `closing`, and `Conclude` gives the verdict once the server is gone. An answer without
content raises what the gate does not catch (`AnsweredAmiss`, `Traceback`).

### DocsGuardrails

A judgement is a walk over facts that stand still (`Facts`: what is on disk, how
each checker exits). `gates` is what has been said. The link-stub gate is one step
that says any verdict `LinkVerdict` allows over those facts: `AdrLinks` is what is
shown to implement that promise. `LinksRaise` is its traceback, which ends the judgement.

### Preservation

A file is a sequence of tokens; a page is what people write, and `Bytes` its
bytes. `Edit` is the run under judgement. The gate then asks git for the blobs of
the preserved files (`Output`: headers, bytes and newlines in one stream), cuts it
by the announced sizes (`Cut`, one turn of the loop of `_blobs`), and compares
`Body` of each. The properties are stated over pages, the gate reads bytes. A line of
a text is the place where it starts (`Starts`, `LineEnd`): no text is taken apart and
put together again. What makes a page (`IsPage`) is what makes its parts unambiguous: the
blank lines before the text are counted apart from it, with and without a block; no line
of a block is a fence; a page without a block does not look as if it had one; and a
carriage return is only part of a line's end. The blank lines a page without a block
begins with are its text (`OwnBlanks`), as the code has it; that the code's own words say
otherwise is `leading`. A task may name nothing, no glob, globs no file matches, or globs;
the commit, an object of it, or git's answer may be missing (`Asks`).

### Calibration

The oracle under calibration is any instrument: each gate catches some of the
defects aimed at it and says one thing about all else (`Behaviours`). A run
exports the corpus, judges the clean copy and each mutant, scores, and writes the
published file over the old one (`Open`, `Write`) or compares with it (`Compare`);
it can be killed at every step. A check is one of CI's jobs, which build the bridge the
published file names, or is run by hand through the bridge at hand (`CheckByHand`).

`Mutations` holds the mutations themselves, as functions from a corpus to a copy or
to `NotBuilt`. A corpus (`Corpora`) is what they read of it: the directories of records, the rows
of the registry and their links, the pages and their front matter, the rendered
and the vendored files, the profiles' schemas. `BrokenRules` says of a copy which gates'
rules it breaks; those gates belong to other repositories, and the rules are the
suites' own description of them. A gate can catch a mutant only where a rule is
broken (`Defects`), so a mutation that leaves its copy as it was costs the suite its
pass. `LeftAsItWas` names the four ways one can.

### InboxValidator and InboxWorkflow

A record file never changes, so what it holds is a constant of it, and an inbox is
a set of files. `Errors` is what `check` says of a file, rule by rule, with the
order the code reads in; `Broken` is what `inbox/README.md` says, over pairs of
records, and `Unseen` where the code stops short of it. `InboxWorkflow` puts the two ways a row comes to `main` beside each other:
`AppCommits`, whose batch was read alone, and `MergePull`, whose pull request was
green when its check ran. Each push is read by two jobs, which may fail for the
runner's reasons too; `report` is the third job, with the host's rule for a
concurrency group - one works, the newest waits, an older one that waited is
cancelled. `LookForIssue` and `FileIssue` are its two calls, and between them people
close issues and run failed jobs again.

### Prices

`Publish` is a list that comes to `main`, with every test its validator makes.
`Start`, `ReadLine` and `EndOfStream` are one derivation: the list in force is read
first, the stream in any order and with repetitions, then the requests are priced
(`PriceRequests`). Prices are exact numbers, as the code's decimals are; a count or a
price that does not read as one is a value outside them (`NotACount`, `NotAPrice`). `figures` is
everything ever printed of a run, so that two derivations can be compared.

## The runs

| Run | Asks | Size |
|---|---|---|
| `rerun` | rows rest on the cache, the log matches the inboxes, the producer implements `InboxLedger` | 0.4 M states |
| `evidence` | no row without its evidence, none where it is not declared, none before its whole batch is admitted | 1.2 M |
| `stubs` | no server is left, a call returns its own answer; the gate implements `LinkVerdict`, its verdict rests on answers, it ends whatever bridge falls silent | 0.8 M, with liveness |
| `judgement` | what the outcomes rest on, and that gates do not vanish | 0.5 M |
| `main` | one issue, a report of every red `main`, batches that break nothing, breaches that are named | 0.18 M, with liveness |
| `prices` | figures are bills, add up, and are one per label; newer lists do not reach back | 7 k |
| `preserve` | blobs are cut where they end; the text alone decides; nothing unread passes | 0.8 M |
| `calibration` | a mutant breaks its own gate's rule; a published pass is a calibrated instrument; a green check says it still is | 0.5 M |
| `route`, `empty`, `baseline`, `leading` | statements of the repository that the code breaks, below | |

Bounds, and why they are enough. `rerun` has two runs on one head -
the least for two streams to share a comment and for a queue to have an entry
after the one at fault - and two commits of the streams repository,
the least for two derivations of one run to differ in what they state. The
process can be started any number of times, so nothing bounds crashes or
re-runs. The host moves where a move can disturb a place: the date of one run and
the visibility of the repository. `evidence` starts from a host with
everything and takes one fact away at a time, in every way the code
distinguishes, with every shape of the review workflow, each reference at a commit or at
none; entries refused without
the host stand beside the one derived. A row's evidence is a conjunction of
tests made one after the other, so one failing fact exercises each. `stubs` checks the client inside
the gate that uses it: up to two stubs, since the gate's memory across stubs is the set of
offences, so up to four requests, and two lines on their way at a time, enough for an
answer that comes late or twice to stand before another. What was read makes room, so the
bridge writes as much as it likes, and a tick is as good as more, since `idle` is all a
wait knows of time. `judgement` enumerates the facts, except that one
agent checker at a time departs from clean and the semantic gates are combined
with one checker: the gates do not read each other. `main` has a batch of three
rows of which two must be refused, two pull requests that are green one by one and
red together - one slot filled twice, from two trees, beside two human runs, with a row
that was planned without one - and three pushes (`MaxPushes`): one report works, one waits, one is
cancelled. `prices` has lists the validator must refuse in each way, prompts under, on
and above a bound, and a run for each reason of a refusal; nothing in it is
counted, so nothing is bounded. `preserve` has two preserved pages that may hold the
same bytes, beside a symlink and a page no pattern names; their texts hold a
rule, a line like git's header, blank lines before, between and after lines, with a
block above them and without; each page is left once, as any of a dozen. `calibration`
has an oracle with one flaw for each gate - blind, half blind, and, for one checker and one
semantic gate, failing always, missing, never applying -, pairs in which a neighbour
covers for it, corpora that lack one thing each mutant needs, one for each way a
mutation leaves a copy as it was, four bridges, and two runs of the suites
(`MaxRuns`): one that publishes and one that checks, with a move between them.

Deadlock is not checked in `stubs`, `judgement` and `preserve`: a gate and a judgement
end; nor in `main` and `calibration`, where the bound on pushes
and on runs is reached. The producer's runs and `prices` check it: each can always
be started again.

Fairness. The client and its thread run and the clock goes on: weak fairness on
each, none on the server, which may also write for ever. The statement says so: the gate
ends unless the server writes infinitely often. The host of the workflows runs what it has queued: `WF` per push;
nothing makes the App commit, a person merge, close an issue or run a job again.
`GateEnds` and `RedIsReported` are checked under exactly these. Of the
producer no fairness is assumed and no liveness is claimed: it waits for `gh` without a
limit (`derive_ci_rows.py:311`), and nothing in the repository says that it ends.

## Where the code departs from what it says

- `route`: the head pass swallows a call without an answer (`head_of`), so the
  stream it was about is not counted, and the one comment's route is copied onto
  the rows of both runs of a head, which `verdict_route_step` says it must not be.
- `empty`: with no documentation left, intact non-documentation files that the
  task preserves make a judgement `TRUE_DONE`.
- `baseline`: `inbox/README.md` says the rows of a group carry the same `human_baseline` and
  that the validator enforces it; it compares those that carry one
  (`inbox_validate.py:226`), so a group of which one row carries none is on a green
  `main`. `BreachesAreNamed` states what it does see: everything else the README says.
- `leading`: blank lines are dropped below a block and only there (`preservation.py:78`),
  so a block put above a page that begins with one counts as a change of its text.

Met while modelling, and without a run of their own, since another property already
speaks of each or the models leave it out:

- the timeout that is said to be of each call (`mcp_client.py:31`) is of each line
  (`mcp_client.py:153`), so a server that writes holds a call beyond it, and for ever where
  it never stops: the exception `GateEnds` makes;
- an answer whose content is null, or whose text is no string, raises `TypeError`
  (`mcp_client.py:189`), not the `McpError` an answer outside the protocol is said to be;
  the gate does not catch it, and the judgement ends with a traceback: the other one;
- a row is written in place (`derive_ci_rows.py:1096`); one torn by a crash is reported for
  ever after as a second, different answer, which there never was: why `LogMatchesInbox`
  says only that there is something of the entry in an inbox;
- a mutation can leave its copy alone and say what it broke, which the mutations are said
  not to do (`docs_mutation_v1.py:73-79`). A link with an anchor
  resolves after it was rewritten (`:176`), a `visibility: public` line with
  blanks after it is found and not replaced (`:232`), a record whose type is in quotes is
  taken for a narrative page (`:243`), two records of one title swap nothing
  (`docs_mutation_v2.py:125`). The suite does not pass over such a copy, because the gate
  then finds nothing and the mutant counts as missed (`ScoreIsCalibration`): the four
  exceptions of `MutantsBreakTheirGate`;
- the day of a row's name comes from the host, so over a fresh cache a re-run
  workflow gets a second record of the same stream (`derive_ci_rows.py:1009`);
- `_export` resolves a ref and then archives it by name, so a fetch between the two
  makes the commit it returns another than the one it exported
  (`docs_mutation_v1.py:378`);
- a check run by hand is green of the bridge it was given; `_compare` does not compare it
  with the one the published file names (`docs_mutation_v2.py:279`).

## The proofs

Every theorem holds for all constants that satisfy the modules' named
assumptions, which TLC evaluates on the runs' instances.

`DeriveCiRowsProofs`. `RowsRestOnCache` is not inductive: it says nothing of what
an invocation holds in memory. `Inv` adds that the host and the cache answer a path
with what it is about (`HostTyped`, `CacheTyped`); that the answers in `got` which decide a
row's place are the cached ones (`GotIsCached`) and have been read and not
refused by the time the code passes them (`HasRead`); that a row in memory is the
derivation of the cache (`OutcomesRest`) and a file lies where the cache puts it
(`FilesRest`). The pivot is `CacheGrows`: an answer, once cached, is there for good,
so what rests on the cache goes on resting on it. From `Inv`: `TypeCorrect`,
`CacheDecides`; `Implementation`, because the cache gives a run one place, so a file
is only created where the run has none anywhere; and, with the fact that a batch
is written only into an inbox that declares it (`Gated`), `FailClosed`.

Two more invariants stand on `Inv`. That a row rests on evidence (`EvidenceDecides`)
needs the order of the fetches: each has its turn, and when the code stands at one, every
earlier one has been read and carries what its test asks for (`ReadInTurn`); a row that is
made at the end is backed (`OutcomesBacked`), and stays so in the inbox, where a cached answer
never changes (`FilesBacked`). What the row was made of is then said piece by piece: the
commit is the pull request's (`ReviewedThere`), the text is the one the runner was handed
(`Handed`), bundle and scope are there (`Established`). That the log is true (`LogIsTrue`) needs the loops: the queue is the rest
of the index (`QueueFollows`), so every chosen entry behind it has come to its outcome
(`AllDerived`), which is a row or a reason and never both (`Shaped`); a state that is logged
is of a file that is there (`StatedIsThere`), and the batches follow one another, each over the
whole index (`BatchesInTurn`). `WholeBatches` is the same order read from a step: when a row is written every
chosen entry has come to its outcome, and every candidate that is left of the batch is
one the validator admits (`BatchAdmitted`). The theorems are about invocations
over one cache.

`McpClientProofs`. A reply is one's own because every response on the wire, in the
pipe or in the queue, carries the number of a request that was sent and what it
asked (`WireSound`), and numbers are never used twice. `Cleanup` needs nothing but
`close`.

`AdrLinksProofs`. The gate's state is the client's and its own, so `GateInv` is the client's
`Inv` with what binds the two: a session that began is still there or has ended in one of
two ways (`SessionInGate`), what the gate waits for is what it asked last (`AskedFor`), and
the reply is to that (`ReplyIsToLast`). `Judged` carries, for the stubs behind it, that each was asked
about and that an offence is one that some answer of the bridge allows. Then a
verdict is one of those `LinkVerdict` allows, through every way a session can fail (`Kept`, a
refinement step by step: all steps but `Conclude` stutter), and it rests on an answer
for every stub the registry knows (`OverAnswers`).

`DocsGuardrailsProofs`. `Inv` says at each step which gates were asked and what each
said as a function of the facts; the theorems about outcomes follow from it and
from `OutcomeOf` alone.

`InboxWorkflowProofs`. `Inv` says of reports that one works at a time and that an
issue filed is filed while no other is open (`OneWorks`, `FiledAlone`); from it
`OneIssue`. Of files it says that what stands on `main` is a set of files of which
the App's are admitted (`MainIsAnInbox`) and that a job answers for the push it read
(`JobsReadTheirPush`). `ReadAloneIsEnough` rests on the lemma `BatchBreaksNothing`: the
rows of a batch are of no group and judge nothing, so they change no group, take
no judgement its run, and what their own inbox does not hold against them no
other does. `NothingBreachesUnnamed` rests on `BrokenIsNamed`, the
comparison of the validator's rules with the README's, rule by rule: a rule over a field
of a group that two rows break is broken by two rows that have the field
(`GroupsAreCompared`), unless one merely lacks it; and in an inbox that passes no
row lacks `repository_state` (`StatesArePresent`), so only `human_baseline` is left to that.

`PricesProofs`. What has been read is a function of the *set* of the events
(`ReadSoFar`, `FoundOf`), so neither order nor repetition reaches a figure; a label
is a vendor and a date, which are a list's place (`LabelNamesOneList`), and no two
published lists have one place (`PublishedApart`): `OneFigurePerLabel`. `NoListReachesBack`
needs only which lists are eligible. `OneTierPerPrompt` is about any list the
validator passes and any prompt: bounds that ascend from each tier to the next
ascend throughout (by a least counterexample, since induction is out of reach), so
the tier that is picked is the one whose range holds the prompt. `FiguresAreTheBills` and
`BreakdownsAccountForAll` are about sums, which the community modules fold over a set in an
order nobody chose. A fold exists over every finite set (`FoldExists`) and a sum is the same
whichever element is taken out first (`SumIs`), both by a least counterexample; so a sum survives a
renaming of what is summed (`SumMatch`: from the ids the code goes through to the requests the
bill is defined over), and adding to one slot or class by class adds to the whole
(`SumOfSlot`, `SumOfParts`). Every tally the code comes through is then `Sound`: its two breakdowns add up
to its total (`AddKeeps`). For this `PublishedApart` says of published lists all that their validator
passed (`Valid`).

`PreservationProofs`. git writes one sequence after another; in what they flatten to there is a
place where each ends (`Ends`), and the gate, told sizes only, stands at one of them after every turn
of its loop (`Standing`, `CutRight`): hence `ReadAsNamed`, for contents that are empty, equal, or hold
lines like git's own. That a verdict was asked for and has read everything is carried as `Grounded`;
`NothingUnread` follows. `VerdictIsOfText` goes from bodies to texts: reading undoes the
line ends (`LineEndsAreUndone`), the block ends at its second fence and nowhere before
(`BlockEnds`), and what is dropped below it are the blank lines (`BlanksGo`), so the body of the
bytes of a page with a block is its text (`BodyIsText`). Of one without, it is the blank lines it begins with and its
text (`BodyIsOwn`); since a text does not begin with one, both can be told from the body
(`BlanksApart`), and two bodies are equal exactly where the texts are (`SameBody`).

`CalibrationProofs`. A mutation changes one part of a corpus and each gate's rule reads
one; a rule whose part is untouched stays unbroken (`SameRegistry`, `SamePages`), so that
one lemma a mutant (`FirstBreaks` to `TenthBreaks`) decides the rule of its own gate:
broken, or the mutation left that part equal to what it was. `OneRulePerMutant` puts
them together for every corpus, of any number of rows, links, pages and profiles, that
`WorldsAssumption` admits: one that breaks no rule, holds no stub yet and has one row for
a number. Without the last the tenth mutant could name a record by a title that
another row gives the same number. Its only state is which corpus is judged;
`TypeCorrect` needs that the table grows by one row a mutant, in their order
(`RowsFollow`), which a mutant that was not built must not interrupt.
`PassesAreEarned` and `GreenHolds` are carried together (`CalInv`) with what a run knows: every row is what
its mutant's copy is judged to be in the world of the run (`RunInv`), so a kill, a torn file
or a move between two runs leaves none from another. `AllCaught` is their heart: the clean
copy and all rows are as they must be exactly where the instrument is calibrated and the corpus
offers every mutant - one way by the gate's rule that a mutant breaks (`MutantCaught`), with the two
mutants that a neighbour or a bridge could hide taken apart (`EighthMissed`, `BridgeMissed`), the other
because a gate that is blind, failing or missing shows in a row of its own or in the clean copy (`CleanSays`).

Only model-checked. Liveness (`GateEnds`, `RedIsReported`) is beyond the
prover. Every invariant and action property of a passing run is a theorem. The four properties
of the runs that expect a violation are false, and no theorem states them.

## What is not modelled

The texts themselves: hashing, template rendering, Markdown and YAML reading,
glob translation, and `ci_row.py`'s counting over an event stream beyond what
decides a row. The texts a mutation leaves behind, beyond what a gate or a later
mutation reads of them. The checkers and the host, which are external, and the workflows of
other repositories. What a crash of the machine (rather than the process) does to a
file system. Two producers at once over one cache, which nothing in the repository
starts. Path admission (`oracles/paths.py`), a listing of a directory compared with a
name. The schemas' shapes, beyond the constraints `Conforms` states, and the records.
The case suites under `tools/*_suite.py`, which test what is modelled.

## The plan

1. *Done.* The producer and its ledger; the client; the link-stub gate over it; the
   judgement; their first theorems.
2. *Done.* The inbox's rules and workflow, the price lists, the preservation gate, the
   calibration suites.
   Proofs about the inbox, the prices and the mutations.
3. *Done.* The producer's evidence and log, the gate over its bridge, the preservation gate,
   the calibration suites, and the sums of the prices: proved.
4. *Left.* Models: the counts a row takes from a stream (`ci_row.py`, `StreamPass`) and the
   reading of a caller's workflow text, which today are facts of an entry. Proofs: what
   those models come to promise, and that a breach the validator names is a breach.
