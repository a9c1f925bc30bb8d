------------------------- MODULE DeriveCiRowsProofs -------------------------
(***************************************************************************)
(* Proofs about the producer, for every index, every host and every        *)
(* schedule of crashes and re-runs: its type invariant, that every row     *)
(* rests on the cache and on its evidence, that the producer keeps the     *)
(* promise of InboxLedger, and that its log says what the inboxes hold.    *)
(***************************************************************************)
EXTENDS DeriveCiRows, SequenceTheorems, TLAPS

(* The kinds whose answers decide where a row is filed and that it is      *)
(* typed.                                                                  *)
Deciding == {"run", "jobs", "repo"}

(* The kinds that are asked for under their own path; the template may be  *)
(* read from the wrapper's.                                                *)
OwnPath == Kinds \ {"template"}

Inside == Kinds \cup {"assembly"}

AfterJobs == {"agents", "settings", "repo", "manifest", "vendor", "comments", "assembly"}

AfterRepo == {"manifest", "vendor", "comments", "assembly"}

Known(e, k) == cache[Entry[e].path[k]]

HostTyped == \A e \in Runs, k \in Kinds : host[Entry[e].path[k]] \in AnswersOf(k)

CacheTyped ==
  \A e \in Runs, k \in Kinds : Cached(Entry[e].path[k]) => Known(e, k) \in AnswersOf(k)

(* While an invocation lives, it has an index, and inside derive_one it    *)
(* has an entry.                                                           *)
Busy ==
  /\ pc # "idle" => args.commit \in Commits
  /\ pc \in Inside => queue # << >>

(* The answers derive_one holds are the cached ones of the entry it is at. *)
GotIsCached ==
  /\ pc \notin Inside => got = NothingRead
  /\ pc \in Inside =>
       \A k \in OwnPath : got[k] # NotRead =>
         Cached(Entry[Current].path[k]) /\ got[k] = Known(Current, k)

(* What the place in derive_one says has been read, and not refused.       *)
HasRead ==
  /\ pc \in Inside \ {"run"} => got["run"] # NotRead /\ RunRefusal(got["run"]) = "none"
  /\ pc \in AfterJobs =>
       got["jobs"] # NotRead /\ StartedAt(got["jobs"], got["run"]) # NoDay
  /\ pc \in AfterRepo => got["repo"] # NotRead

(* What makes a row the derivation of the cache.                           *)
Rests(e, row) ==
  /\ \A k \in Deciding : Cached(Entry[e].path[k])
  /\ Known(e, "run") # Absent
  /\ row.run = e
  /\ row.head = Known(e, "run").head
  /\ row.day = StartedAt(Known(e, "jobs"), Known(e, "run"))
  /\ row.visibility = Visibility(Known(e, "repo"))

OutcomesRest == \A e \in Runs : outcomes[e].row # NoFile => Rests(e, outcomes[e].row)

(* A file lies where the cache files its run, and a whole one is the       *)
(* derivation of the cache.                                                *)
FilesRest ==
  \A root \in Visibilities, day \in Days, e \in Runs :
    Rooted(root, day, e) =>
      /\ \A k \in Deciding : Cached(Entry[e].path[k])
      /\ Known(e, "run") # Absent
      /\ root = Visibility(Known(e, "repo"))
      /\ day = StartedAt(Known(e, "jobs"), Known(e, "run"))
      /\ inbox[<<root, day, e>>] # Torn => Rests(e, inbox[<<root, day, e>>])

Inv ==
  /\ TypeOK
  /\ HostTyped
  /\ CacheTyped
  /\ Busy
  /\ GotIsCached
  /\ HasRead
  /\ OutcomesRest
  /\ FilesRest

-----------------------------------------------------------------------------
(* Facts about the constants and the helpers.                              *)

(* What an entry names is a path, and no answer or row is a sentinel.      *)
LEMMA Typing ==
  /\ \A e \in Runs, k \in Kinds : Entry[e].path[k] \in Paths
  /\ \A e \in Runs : Entry[e].pull \in Pulls
  /\ \A k \in Kinds : AnswersOf(k) \subseteq Answers /\ Absent \in AnswersOf(k)
  /\ NoFile \notin Answers /\ Torn \notin Answers /\ NotRead \notin Answers
  /\ NoFile \notin Rows /\ Torn \notin Rows /\ NoFile # Torn
  <1>1. \A e \in Runs : Entry[e] \in EntryType
    BY EntryAssumption
  <1>2. /\ \A e \in Runs, k \in Kinds : Entry[e].path[k] \in Paths
        /\ \A e \in Runs : Entry[e].pull \in Pulls
    BY <1>1 DEF EntryType
  <1>3. \A k \in Kinds : AnswersOf(k) \subseteq Answers
    BY DEF Answers
  <1>4. \A k \in Kinds : Absent \in AnswersOf(k)
    BY DEF AnswersOf
  <1>5. QED
    BY <1>2, <1>3, <1>4, SentinelAssumption

(* The loops take their entries from the front of a sequence of runs.      *)
LEMMA QueueTyping ==
  ASSUME NEW q \in Seq(Runs), q # << >>
  PROVE  Head(q) \in Runs /\ Tail(q) \in Seq(Runs)
  OBVIOUS

(* What the answer about a run holds, where there is one.                  *)
LEMMA RunAnswer ==
  ASSUME NEW a \in AnswersOf("run"), a # Absent
  PROVE  a.head \in Heads \cup {NoHead} /\ a.day \in Days \cup {NoDay}
  BY DEF AnswersOf

(* The same of the jobs.                                                   *)
LEMMA JobsAnswer ==
  ASSUME NEW a \in AnswersOf("jobs"), a # Absent
  PROVE  a.step \in Days \cup {NoDay}
  BY DEF AnswersOf

(* A start that is known is a day.                                         *)
LEMMA StartedAtTyping ==
  ASSUME NEW jobs \in AnswersOf("jobs"), NEW run \in AnswersOf("run"), run # Absent,
         StartedAt(jobs, run) # NoDay
  PROVE  StartedAt(jobs, run) \in Days
  BY RunAnswer, JobsAnswer DEF StartedAt

(* A run is about one task, or none.                                       *)
LEMMA TaskTyping ==
  ASSUME NEW e \in Runs, NEW run \in AnswersOf("run")
  PROVE  TaskOf(e, run) \in (Pulls \X Heads) \cup {NoTask}
  BY RunAnswer, Typing DEF TaskOf, Task

Derivable == Reasons \ {"row-exists-differs"}

(* derive_one gives no reason but the ones the log counts under, and none  *)
(* that only write_row has.                                                *)
LEMMA RefusalTyping ==
  ASSUME NEW k \in Kinds, NEW e, NEW g
  PROVE  Refusal(k, e, g) \in Derivable
  <1>1. /\ RunRefusal(g["run"]) \in Derivable
        /\ PullRequestRefusal(g) \in Derivable
        /\ ReferenceRefusal(g) \in Derivable
        /\ CallerRefusal(g["caller"]) \in Derivable
        /\ ScheduleRefusal(g) \in Derivable
        /\ PromptRefusal(e, g) \in Derivable
        /\ SurfaceRefusal(g) \in Derivable
        /\ BundleRefusal(g) \in Derivable
        /\ ScopeRefusal(g) \in Derivable
    BY DEF RunRefusal, PullRequestRefusal, ReferenceRefusal, CallerRefusal, ScheduleRefusal,
           PromptRefusal, SurfaceRefusal, BundleRefusal, ScopeRefusal, Derivable, Reasons,
           StreamReasons
  <1>2. ASSUME NEW file, NEW absent \in Derivable, NEW unreadable \in Derivable
        PROVE  FileRefusal(file, absent, unreadable) \in Derivable
    BY DEF FileRefusal, Derivable, Reasons
  <1>3. \A first \in Derivable, second \in Derivable : Then(first, second) \in Derivable
    BY DEF Then
  <1>4. {"none", "review-workflow-404", "review-workflow-unreadable", "routine-404",
         "routine-unreadable", "agents-unreadable", "manifest-unreadable"} \subseteq Derivable
    BY DEF Derivable, Reasons, StreamReasons
  <1>5. CASE k \in {"template", "routine", "manifest"}
    BY <1>2, <1>4, <1>5 DEF Refusal
  <1>6. CASE k = "agents"
    <2>1. FileRefusal(g["agents"], "none", "agents-unreadable") \in Derivable
      BY <1>2, <1>4
    <2>2. QED
      BY <1>1, <1>3, <1>6, <2>1 DEF Refusal
  <1>7. CASE k \in {"run", "commits", "wrapper", "caller", "jobs", "vendor"}
    BY <1>1, <1>3, <1>4, <1>7 DEF Refusal
  <1>8. CASE k \in {"pull", "settings", "repo", "comments"}
    BY <1>4, <1>8 DEF Refusal
  <1>9. QED
    BY <1>5, <1>6, <1>7, <1>8 DEF Kinds

(* derive_one goes on to another fetch or to the assembly, and never back. *)
LEMMA NextFetchTyping ==
  ASSUME NEW k \in Kinds, NEW e, NEW g
  PROVE  /\ NextFetch(k, e, g) \in Inside \ {"run"}
         /\ NextFetch(k, e, g) \in AfterJobs => k \in (AfterJobs \ {"assembly"}) \cup {"jobs"}
         /\ NextFetch(k, e, g) \in AfterRepo => k \in (AfterRepo \ {"assembly"}) \cup {"repo"}
  BY DEF NextFetch, Kinds, Inside, AfterJobs, AfterRepo

(* Every fetch asks for a path.                                            *)
LEMMA PathOfTyping ==
  ASSUME NEW k \in Kinds, NEW e \in Runs, NEW g
  PROVE  /\ PathOf(k, e, g) \in Paths
         /\ k # "template" => PathOf(k, e, g) = Entry[e].path[k]
  BY Typing DEF PathOf, Kinds

-----------------------------------------------------------------------------
(* The cache only grows: an answer, once cached, is never another.         *)

(* What Fetcher.get leaves of the cache: the one entry it asked for is     *)
(* answered.                                                               *)
LEMMA Keeping ==
  ASSUME TypeOK, NEW p \in Paths, Keep(p)
  PROVE  /\ cache' \in [Paths -> Answers \cup {NoFile, Torn}]
         /\ cache'[p] = Answer(p) /\ Answer(p) \in Answers
         /\ \A q \in Paths : cache'[q] # cache[q] => q = p /\ ~Cached(q) /\ cache'[q] = host[q]
         /\ \A q \in Paths : Cached(q) => Cached(q)'
  BY Typing DEF TypeOK, Keep, Answer, Cached

(* The steps that touch the cache, and how. *)
LEMMA CacheSteps ==
  ASSUME TypeOK, Busy, [Next]_vars
  PROVE  \/ UNCHANGED cache
         \/ \E p \in Paths : Keep(p)
         \/ \E p \in Paths : ~Cached(p) /\ cache' = [cache EXCEPT ![p] = Torn]
  <1>1. CASE HeadOf
    <2>1. Current \in Runs
      BY <1>1, QueueTyping DEF HeadOf, Current, TypeOK
    <2>2. Entry[Current].path["run"] \in Paths
      BY <2>1, Typing DEF Kinds
    <2>3. QED
      BY <1>1, <2>2 DEF HeadOf, NoAnswer
  <1>2. CASE Read
    <2>1. Current \in Runs
      BY <1>2, QueueTyping DEF Read, Current, TypeOK, Busy, Inside
    <2>2. PathOf(pc, Current, got) \in Paths
      BY <1>2, <2>1, PathOfTyping DEF Read
    <2>3. QED
      BY <1>2, <2>2 DEF Read
  <1>3. CASE CrashInCacheWrite
    <2>1. queue # << >>
      BY <1>3 DEF CrashInCacheWrite, Asking, Busy, Inside
    <2>2. Current \in Runs
      BY <2>1, QueueTyping DEF Current, TypeOK
    <2>3. /\ Entry[Current].path["run"] \in Paths
          /\ pc \in Kinds => PathOf(pc, Current, got) \in Paths
      BY <2>2, Typing, PathOfTyping DEF Kinds
    <2>4. QED
      BY <1>3, <2>3 DEF CrashInCacheWrite, Asking, Asked
  <1>4. CASE ReadFails
    BY <1>4 DEF ReadFails, NoAnswer
  <1>5. CASE UNCHANGED vars
    BY <1>5 DEF vars
  <1>6. CASE HeadsDone \/ NotChosen \/ StreamStep \/ AssemblyStep \/ DeriveDone
    BY <1>6 DEF HeadsDone, NotChosen, StreamStep, AssemblyStep, DeriveDone
  <1>7. CASE WithoutRoot \/ IdentityMismatch \/ ValidateBatch \/ NotACandidate \/ WriteRow
             \/ BatchDone \/ Report \/ CacheBreaks
    BY <1>7 DEF WithoutRoot, IdentityMismatch, ValidateBatch, NotACandidate, WriteRow,
                BatchDone, Report, CacheBreaks
  <1>8. CASE Environment /\ ~CrashInCacheWrite
    BY <1>8 DEF Environment, Start, StartRefused, Crash, CrashInRowWrite, HostMoves
  <1>9. QED
    BY <1>1, <1>2, <1>3, <1>4, <1>5, <1>6, <1>7, <1>8 DEF Next, Producer

(* An answer, once cached, is there after every step.                      *)
LEMMA CacheGrows ==
  ASSUME TypeOK, HostTyped, CacheTyped, Busy, [Next]_vars
  PROVE  /\ cache' \in [Paths -> Answers \cup {NoFile, Torn}]
         /\ CacheTyped'
         /\ \A q \in Paths : Cached(q) => Cached(q)' /\ cache'[q] = cache[q]
  <1>1. CASE UNCHANGED cache
    BY <1>1 DEF TypeOK, CacheTyped, Known, Cached
  <1>2. ASSUME NEW p \in Paths, Keep(p)
        PROVE  /\ cache' \in [Paths -> Answers \cup {NoFile, Torn}]
               /\ CacheTyped'
               /\ \A q \in Paths : Cached(q) => Cached(q)' /\ cache'[q] = cache[q]
    <2>1. /\ cache' \in [Paths -> Answers \cup {NoFile, Torn}]
          /\ \A q \in Paths : Cached(q) => Cached(q)' /\ cache'[q] = cache[q]
      BY <1>2, Keeping
    <2>2. ASSUME NEW e \in Runs, NEW k \in Kinds, Cached(Entry[e].path[k])'
          PROVE  Known(e, k)' \in AnswersOf(k)
      <3> DEFINE q == Entry[e].path[k]
      <3>1. q \in Paths
        BY Typing
      <3>2. CASE cache'[q] # cache[q]
        BY <1>2, <3>1, <3>2, Keeping DEF HostTyped, Known
      <3>3. CASE cache'[q] = cache[q]
        BY <2>2, <3>1, <3>3 DEF CacheTyped, Known, Cached
      <3>4. QED
        BY <3>2, <3>3
    <2>3. QED
      BY <2>1, <2>2 DEF CacheTyped
  <1>3. ASSUME NEW p \in Paths, ~Cached(p), cache' = [cache EXCEPT ![p] = Torn]
        PROVE  /\ cache' \in [Paths -> Answers \cup {NoFile, Torn}]
               /\ CacheTyped'
               /\ \A q \in Paths : Cached(q) => Cached(q)' /\ cache'[q] = cache[q]
    BY <1>3, Typing DEF TypeOK, CacheTyped, Known, Cached
  <1>4. QED
    BY <1>1, <1>2, <1>3, CacheSteps

(* So what rests on the cache goes on resting on it.                       *)
LEMMA RestsStays ==
  ASSUME TypeOK, HostTyped, CacheTyped, Busy, [Next]_vars, NEW e \in Runs
  PROVE  /\ \A k \in Kinds : Cached(Entry[e].path[k]) =>
              Cached(Entry[e].path[k])' /\ Known(e, k)' = Known(e, k)
         /\ \A row : Rests(e, row) => Rests(e, row)'
  <1>1. \A k \in Kinds : Cached(Entry[e].path[k]) =>
          Cached(Entry[e].path[k])' /\ Known(e, k)' = Known(e, k)
    BY Typing, CacheGrows DEF Known
  <1>2. QED
    BY <1>1 DEF Rests, Deciding, Kinds

-----------------------------------------------------------------------------
(* The invariant is kept, one part of it after the other.                  *)

(* Inside derive_one there is an entry being derived.                      *)
LEMMA CurrentTyping ==
  ASSUME TypeOK, Busy, pc \in Inside \/ queue # << >>
  PROVE  queue # << >> /\ Current \in Runs /\ Tail(queue) \in Seq(Runs)
  BY QueueTyping DEF TypeOK, Busy, Current

(* The invariant holds of a producer that has never run.                   *)
LEMMA InitInv == Init => Inv
  <1> SUFFICES ASSUME Init PROVE Inv
    OBVIOUS
  <1>1. TypeOK
    BY HostAssumption DEF Init, TypeOK, Idle, PCs, Visibilities, File, NothingRead, Outcome,
                          NotDerived, Reasons
  <1>2. HostTyped
    BY HostAssumption DEF Init, HostTyped
  <1>3. CacheTyped
    BY Typing DEF Init, CacheTyped, Cached
  <1>4. Busy /\ GotIsCached /\ HasRead
    BY DEF Init, Busy, GotIsCached, HasRead, Inside, Kinds, AfterJobs, AfterRepo
  <1>5. OutcomesRest
    BY DEF Init, OutcomesRest, NotDerived
  <1>6. FilesRest
    BY DEF Init, FilesRest, Rooted, Places
  <1>7. QED
    BY <1>1, <1>2, <1>3, <1>4, <1>5, <1>6 DEF Inv

(* The host answers each path with what that path is about.                *)
LEMMA HostTypedStep ==
  ASSUME TypeOK, HostTyped, [Next]_vars
  PROVE  HostTyped'
  <1>1. CASE UNCHANGED host
    BY <1>1 DEF HostTyped
  <1>2. CASE \E p \in Paths : HostMoves(p)
    BY <1>2, HostAssumption, Typing DEF HostMoves, HostTyped, TypeOK
  <1>3. CASE Producer
    BY <1>1, <1>3 DEF Producer, HeadOf, HeadsDone, NotChosen, StreamStep, Read, ReadFails,
                      AssemblyStep, DeriveDone, WithoutRoot, IdentityMismatch, ValidateBatch,
                      NotACandidate, WriteRow, BatchDone, Report, CacheBreaks
  <1>4. CASE Environment /\ ~\E p \in Paths : HostMoves(p)
    BY <1>1, <1>4 DEF Environment, Start, StartRefused, Crash, CrashInCacheWrite,
                      CrashInRowWrite
  <1>5. QED
    BY <1>1, <1>2, <1>3, <1>4 DEF Next, vars

(* A living invocation has its index, and derive_one its entry.            *)
LEMMA BusyStep ==
  ASSUME TypeOK, Busy, [Next]_vars
  PROVE  Busy'
  <1>1. CASE pc' = "idle"
    BY <1>1 DEF Busy, Inside, Kinds
  <1>2. CASE UNCHANGED <<pc, args, queue>>
    BY <1>2 DEF Busy
  <1>3. CASE HeadOf \/ HeadsDone \/ NotChosen \/ DeriveDone
    BY <1>3 DEF HeadOf, HeadsDone, NotChosen, DeriveDone, Busy, Inside, Kinds
  <1>4. CASE StreamStep
    BY <1>4 DEF StreamStep, Settle, Busy, Inside, Kinds
  <1>5. CASE Read
    BY <1>5, NextFetchTyping DEF Read, Settle, Busy, Inside, Kinds
  <1>6. CASE AssemblyStep
    BY <1>6 DEF AssemblyStep, Settle, Busy, Inside, Kinds
  <1>7. CASE WithoutRoot \/ ValidateBatch \/ NotACandidate \/ WriteRow \/ BatchDone
    BY <1>7 DEF WithoutRoot, ValidateBatch, NotACandidate, WriteRow, BatchDone, Busy, Inside,
                Kinds
  <1>8. CASE ReadFails \/ IdentityMismatch \/ Report \/ CacheBreaks
    BY <1>1, <1>8 DEF ReadFails, IdentityMismatch, Report, CacheBreaks, End
  <1>9. ASSUME NEW c \in Commits, NEW only \in Runs \cup {All}, NEW privateOut \in BOOLEAN,
               Start(c, only, privateOut)
        PROVE  Busy'
    BY <1>9 DEF Start, Busy, Inside, Kinds
  <1>10. CASE StartRefused \/ Crash \/ CrashInCacheWrite \/ CrashInRowWrite
    BY <1>1, <1>10 DEF StartRefused, Crash, CrashInCacheWrite, CrashInRowWrite, End
  <1>11. CASE \E p \in Paths : HostMoves(p)
    BY <1>2, <1>11 DEF HostMoves
  <1>12. QED
    BY <1>2, <1>3, <1>4, <1>5, <1>6, <1>7, <1>8, <1>9, <1>10, <1>11
       DEF Next, Producer, Environment, vars

(* What derive_one holds in memory is what the cache holds.                *)
LEMMA GotIsCachedStep ==
  ASSUME TypeOK, HostTyped, CacheTyped, Busy, GotIsCached, [Next]_vars
  PROVE  GotIsCached'
  <1>1. CASE pc' \notin Inside /\ got' = NothingRead
    BY <1>1 DEF GotIsCached
  <1>2. CASE UNCHANGED <<pc, got, queue>>
    <2>1. CASE pc \notin Inside
      BY <1>2, <2>1 DEF GotIsCached
    <2>2. CASE pc \in Inside
      BY <1>2, <2>2, CurrentTyping, RestsStays DEF GotIsCached, Current, OwnPath
    <2>3. QED
      BY <2>1, <2>2
  <1>3. CASE pc \notin Inside /\ pc' \notin Inside /\ UNCHANGED got
    BY <1>3 DEF GotIsCached
  <1>4. CASE HeadOf \/ HeadsDone \/ NotChosen \/ DeriveDone
    BY <1>3, <1>4 DEF HeadOf, HeadsDone, NotChosen, DeriveDone, Inside, Kinds
  <1>5. CASE StreamStep
    <2>1. pc \notin Inside
      BY <1>5 DEF StreamStep, Inside, Kinds
    <2>2. CASE pc' = "run" /\ UNCHANGED got
      BY <2>1, <2>2 DEF GotIsCached, NothingRead, OwnPath, Kinds, Inside
    <2>3. QED
      BY <1>1, <1>5, <2>2 DEF StreamStep, Settle, Inside, Kinds
  <1>6. CASE Read
    <2>1. PICK e \in Runs : e = Current
      BY <1>6, CurrentTyping DEF Read, Inside
    <2>2. PICK p \in Paths : p = PathOf(pc, Current, got)
      BY <1>6, <2>1, PathOfTyping DEF Read
    <2>3. pc \in Kinds /\ Keep(p)
      BY <1>6, <2>2 DEF Read
    <2>4. cache'[p] = Answer(p) /\ Cached(p)'
      BY <2>3, Keeping, Typing DEF Cached
    <2>5. CASE pc' = "derive" /\ got' = NothingRead
      BY <1>1, <2>5 DEF Inside, Kinds
    <2>6. CASE /\ UNCHANGED queue
               /\ got' = [got EXCEPT ![pc] = Answer(p)]
               /\ pc' = NextFetch(pc, Current, got')
      <3>1. pc' \in Inside /\ Current' = e
        BY <2>1, <2>3, <2>6, NextFetchTyping DEF Current
      <3>2. ASSUME NEW k \in OwnPath, got'[k] # NotRead
            PROVE  Cached(Entry[e].path[k])' /\ got'[k] = Known(e, k)'
        <4>1. CASE k = pc
          BY <2>1, <2>2, <2>3, <2>4, <2>6, <4>1, PathOfTyping DEF TypeOK, OwnPath, Known
        <4>2. CASE k # pc
          <5>1. got'[k] = got[k]
            BY <2>3, <2>6, <4>2 DEF TypeOK
          <5>2. Cached(Entry[e].path[k]) /\ got[k] = Known(e, k)
            BY <2>1, <2>3, <3>2, <5>1 DEF GotIsCached, Inside
          <5>3. QED
            BY <5>1, <5>2, RestsStays DEF OwnPath
        <4>3. QED
          BY <4>1, <4>2
      <3>3. QED
        BY <3>1, <3>2 DEF GotIsCached, Cached, Known
    <2>7. QED
      BY <1>6, <2>2, <2>5, <2>6 DEF Read, Settle
  <1>7. CASE AssemblyStep
    BY <1>1, <1>7 DEF AssemblyStep, Settle, Inside, Kinds
  <1>8. CASE WithoutRoot \/ ValidateBatch \/ NotACandidate \/ WriteRow \/ BatchDone
    BY <1>3, <1>8 DEF WithoutRoot, ValidateBatch, NotACandidate, WriteRow, BatchDone, Inside,
                      Kinds
  <1>9. CASE ReadFails \/ IdentityMismatch \/ Report \/ CacheBreaks
    BY <1>1, <1>9 DEF ReadFails, IdentityMismatch, Report, CacheBreaks, End, Inside, Kinds
  <1>10. ASSUME NEW c \in Commits, NEW only \in Runs \cup {All}, NEW privateOut \in BOOLEAN,
                Start(c, only, privateOut)
         PROVE  GotIsCached'
    BY <1>3, <1>10 DEF Start, Inside, Kinds
  <1>11. CASE StartRefused \/ Crash \/ CrashInCacheWrite \/ CrashInRowWrite
    BY <1>1, <1>11 DEF StartRefused, Crash, CrashInCacheWrite, CrashInRowWrite, End, Inside,
                       Kinds
  <1>12. CASE \E p \in Paths : HostMoves(p)
    BY <1>2, <1>12 DEF HostMoves
  <1>13. QED
    BY <1>2, <1>4, <1>5, <1>6, <1>7, <1>8, <1>9, <1>10, <1>11, <1>12
       DEF Next, Producer, Environment, vars

(* derive_one is where it is because the answers before were read and did  *)
(* not refuse.                                                             *)
LEMMA HasReadStep ==
  ASSUME TypeOK, Busy, HasRead, [Next]_vars
  PROVE  HasRead'
  <1>1. CASE pc' \notin Inside
    BY <1>1 DEF HasRead, Inside, AfterJobs, AfterRepo, Kinds
  <1>2. CASE UNCHANGED <<pc, got>>
    BY <1>2 DEF HasRead
  <1>3. CASE pc' = "run"
    BY <1>3 DEF HasRead, AfterJobs, AfterRepo
  <1>4. CASE Read
    <2>1. PICK e \in Runs : e = Current
      BY <1>4, CurrentTyping DEF Read, Inside
    <2>2. PICK p \in Paths : p = PathOf(pc, Current, got)
      BY <1>4, <2>1, PathOfTyping DEF Read
    <2>3. pc \in Kinds /\ Answer(p) \in Answers /\ Answer(p) # NotRead
      BY <1>4, <2>2, Keeping, Typing DEF Read
    <2>4. CASE pc' = "derive"
      BY <1>1, <2>4 DEF Inside, Kinds
    <2>5. CASE /\ got' = [got EXCEPT ![pc] = Answer(p)]
               /\ Refusal(pc, e, got') = "none"
               /\ pc' = NextFetch(pc, e, got')
      <3>1. /\ pc' \in Inside \ {"run"}
            /\ pc' \in AfterJobs => pc \in (AfterJobs \ {"assembly"}) \cup {"jobs"}
            /\ pc' \in AfterRepo => pc \in (AfterRepo \ {"assembly"}) \cup {"repo"}
        BY <2>3, <2>5, NextFetchTyping
      <3>2. got'["run"] # NotRead /\ RunRefusal(got'["run"]) = "none"
        <4>1. CASE pc = "run"
          BY <2>3, <2>5, <4>1 DEF TypeOK, Refusal
        <4>2. CASE pc # "run"
          BY <2>3, <2>5, <4>2 DEF TypeOK, HasRead, Inside
        <4>3. QED
          BY <4>1, <4>2
      <3>3. CASE pc = "jobs"
        <4>1. Then(ScheduleRefusal(got'), PromptRefusal(e, got')) = "none"
          BY <2>5, <3>3 DEF Refusal
        <4>2. ScheduleRefusal(got') = "none"
          BY <4>1 DEF Then
        <4>3. StartedAt(got'["jobs"], got'["run"]) # NoDay
          BY <4>2 DEF ScheduleRefusal
        <4>4. got'["jobs"] # NotRead
          BY <2>3, <2>5, <3>3 DEF TypeOK
        <4>5. QED
          BY <3>1, <3>2, <3>3, <4>3, <4>4 DEF HasRead, AfterRepo
      <3>4. CASE pc \in AfterJobs \ {"assembly"}
        <4>1. got'["jobs"] = got["jobs"] /\ got'["run"] = got["run"]
          BY <2>5, <3>4 DEF TypeOK, AfterJobs
        <4>2. StartedAt(got'["jobs"], got'["run"]) # NoDay /\ got'["jobs"] # NotRead
          BY <3>4, <4>1 DEF HasRead
        <4>3. CASE pc = "repo"
          <5>1. got'["repo"] # NotRead
            BY <2>3, <2>5, <4>3 DEF TypeOK
          <5>2. QED
            BY <3>1, <3>2, <4>2, <5>1 DEF HasRead
        <4>4. CASE pc \in AfterRepo
          <5>1. got'["repo"] # NotRead
            BY <2>5, <4>4 DEF TypeOK, HasRead, AfterRepo
          <5>2. QED
            BY <3>1, <3>2, <4>2, <5>1 DEF HasRead
        <4>5. QED
          BY <3>1, <3>2, <4>2, <4>3, <4>4 DEF HasRead
      <3>5. CASE pc \notin AfterJobs \cup {"jobs"}
        BY <3>1, <3>2, <3>5 DEF HasRead, AfterJobs, AfterRepo
      <3>6. QED
        BY <2>3, <3>3, <3>4, <3>5 DEF Kinds
    <2>6. QED
      BY <1>4, <2>1, <2>2, <2>4, <2>5 DEF Read, Settle
  <1>5. CASE HeadOf \/ HeadsDone \/ NotChosen \/ DeriveDone \/ AssemblyStep \/ StreamStep
    BY <1>1, <1>3, <1>5 DEF HeadOf, HeadsDone, NotChosen, DeriveDone, AssemblyStep, StreamStep,
                            Settle, Inside, Kinds
  <1>6. CASE WithoutRoot \/ ValidateBatch \/ NotACandidate \/ WriteRow \/ BatchDone
    BY <1>1, <1>6 DEF WithoutRoot, ValidateBatch, NotACandidate, WriteRow, BatchDone, Inside,
                      Kinds
  <1>7. CASE ReadFails \/ IdentityMismatch \/ Report \/ CacheBreaks
    BY <1>1, <1>7 DEF ReadFails, IdentityMismatch, Report, CacheBreaks, End, Inside, Kinds
  <1>8. ASSUME NEW c \in Commits, NEW only \in Runs \cup {All}, NEW privateOut \in BOOLEAN,
               Start(c, only, privateOut)
        PROVE  HasRead'
    BY <1>1, <1>8 DEF Start, Inside, Kinds
  <1>9. CASE StartRefused \/ Crash \/ CrashInCacheWrite \/ CrashInRowWrite
    BY <1>1, <1>9 DEF StartRefused, Crash, CrashInCacheWrite, CrashInRowWrite, End, Inside, Kinds
  <1>10. CASE \E p \in Paths : HostMoves(p)
    BY <1>2, <1>10 DEF HostMoves
  <1>11. QED
    BY <1>2, <1>4, <1>5, <1>6, <1>7, <1>8, <1>9, <1>10 DEF Next, Producer, Environment, vars

(* The row AssemblyStep assembles is typed and is the derivation of the    *)
(* cache.                                                                  *)
LEMMA Assembled ==
  ASSUME TypeOK, CacheTyped, Busy, GotIsCached, HasRead, pc = "assembly"
  PROVE  RowOf(Current, got) \in Rows /\ Rests(Current, RowOf(Current, got))
  <1>1. Current \in Runs /\ args.commit \in Commits
    BY CurrentTyping DEF Inside, Busy
  <1>2. \A k \in Deciding : got[k] # NotRead
    BY DEF HasRead, Deciding, Inside, AfterJobs, AfterRepo
  <1>3. \A k \in Deciding :
          /\ Cached(Entry[Current].path[k])
          /\ got[k] = Known(Current, k)
          /\ got[k] \in AnswersOf(k)
    BY <1>1, <1>2 DEF GotIsCached, CacheTyped, Inside, OwnPath, Deciding, Kinds
  <1>4. got["run"] # Absent /\ got["run"].head # NoHead
    BY DEF HasRead, Inside, RunRefusal
  <1>5. got["run"].head \in Heads
    BY <1>3, <1>4, RunAnswer DEF Deciding
  <1>6. StartedAt(got["jobs"], got["run"]) \in Days
    BY <1>3, <1>4, StartedAtTyping DEF HasRead, AfterJobs, Deciding
  <1>7. Visibility(got["repo"]) \in Visibilities
    BY DEF Visibility, Visibilities
  <1>8. (got["comments"] # NotRead /\ VerdictRoute(got["comments"], got["run"].head)) \in BOOLEAN
    BY DEF VerdictRoute
  <1>9. RowOf(Current, got) \in Rows
    BY <1>1, <1>5, <1>6, <1>7, <1>8 DEF RowOf, Rows
  <1>10. Rests(Current, RowOf(Current, got))
    BY <1>3, <1>4 DEF Rests, RowOf, Deciding
  <1>11. QED
    BY <1>9, <1>10

(* A row gets among the outcomes by being assembled.                       *)
LEMMA RowsAppear ==
  ASSUME TypeOK, Busy, [Next]_vars, NEW e \in Runs,
         outcomes'[e].row \notin {outcomes[e].row, NoFile}
  PROVE  AssemblyStep /\ e = Current
  <1>1. \A reason : NoRow(reason).row = NoFile
    BY DEF NoRow, NotDerived
  <1>2. ASSUME \E reason : Settle(NoRow(reason))
        PROVE  FALSE
    BY <1>1, <1>2 DEF Settle, TypeOK
  <1>3. CASE StreamStep \/ Read
    BY <1>2, <1>3 DEF StreamStep, Read
  <1>4. CASE AssemblyStep
    <2>1. outcomes' = [outcomes EXCEPT ![Current] = outcomes'[Current]]
      BY <1>4, CurrentTyping DEF AssemblyStep, Settle, TypeOK, Inside
    <2>2. QED
      BY <1>4, <2>1 DEF TypeOK
  <1>5. CASE WriteRow
    <2>1. CASE \E reason : outcomes' = [outcomes EXCEPT ![Current] = NoRow(reason)]
      BY <1>1, <2>1 DEF TypeOK
    <2>2. CASE \E state : outcomes' = [outcomes EXCEPT ![Current].state = state]
      BY <2>2 DEF TypeOK, Outcome
    <2>3. QED
      BY <1>5, <2>1, <2>2 DEF WriteRow
  <1>6. CASE WithoutRoot \/ ValidateBatch
    BY <1>1, <1>6 DEF WithoutRoot, ValidateBatch
  <1>7. CASE ReadFails \/ IdentityMismatch \/ Report \/ CacheBreaks
    BY <1>7 DEF ReadFails, IdentityMismatch, Report, CacheBreaks, End, NotDerived
  <1>8. CASE HeadOf \/ HeadsDone \/ NotChosen \/ DeriveDone \/ NotACandidate \/ BatchDone
    BY <1>8 DEF HeadOf, HeadsDone, NotChosen, DeriveDone, NotACandidate, BatchDone
  <1>9. CASE Environment
    BY <1>9 DEF Environment, Start, StartRefused, Crash, CrashInCacheWrite, CrashInRowWrite,
                HostMoves, End, NotDerived
  <1>10. QED
    BY <1>3, <1>4, <1>5, <1>6, <1>7, <1>8, <1>9 DEF Next, Producer, vars

(* An outcome that has a row has a typed one.                              *)
LEMMA OutcomesRestStep ==
  ASSUME TypeOK, HostTyped, CacheTyped, Busy, GotIsCached, HasRead, OutcomesRest, [Next]_vars
  PROVE  OutcomesRest'
  <1> SUFFICES ASSUME NEW e \in Runs, outcomes'[e].row # NoFile
               PROVE  Rests(e, outcomes[e].row)'
    BY DEF OutcomesRest
  <1>1. CASE outcomes'[e].row = outcomes[e].row
    BY <1>1, RestsStays DEF OutcomesRest
  <1>2. CASE outcomes'[e].row # outcomes[e].row
    <2>1. AssemblyStep /\ e = Current
      BY <1>2, RowsAppear
    <2>2. PICK row : row = RowOf(Current, got)
      OBVIOUS
    <2>3. Rests(e, row)'
      BY <2>1, <2>2, Assembled, RestsStays DEF AssemblyStep
    <2>4. outcomes'[e].row \in {row, NoFile}
      BY <2>1, <2>2 DEF AssemblyStep, Settle, NoRow, NotDerived, TypeOK
    <2>5. QED
      BY <2>3, <2>4
  <1>3. QED
    BY <1>1, <1>2

(* What WriteRow would write, and where.                                   *)
LEMMA CandidateTyping ==
  ASSUME TypeOK, OutcomesRest, Busy, queue # << >>, Candidate(Current)
  PROVE  /\ Current \in Runs
         /\ outcomes[Current].row \in Rows
         /\ Rests(Current, outcomes[Current].row)
         /\ PlaceOf(outcomes[Current].row) \in Places
         /\ PlaceOf(outcomes[Current].row) =
              <<outcomes[Current].row.visibility, outcomes[Current].row.day, Current>>
  <1>1. Current \in Runs
    BY CurrentTyping
  <1>2. outcomes[Current].row \in Rows
    BY <1>1 DEF TypeOK, Outcome, Candidate
  <1>3. Rests(Current, outcomes[Current].row)
    BY <1>1 DEF OutcomesRest, Candidate
  <1>4. outcomes[Current].row.run = Current /\ outcomes[Current].row.visibility = batch
    BY <1>3 DEF Rests, Candidate
  <1>5. QED
    BY <1>1, <1>2, <1>3, <1>4 DEF PlaceOf, Places, Rows

(* The steps that touch the inbox: a row or a torn file, where there was   *)
(* nothing.                                                                *)
LEMMA InboxSteps ==
  ASSUME TypeOK, Busy, OutcomesRest, [Next]_vars
  PROVE  \/ UNCHANGED inbox
         \/ \E e \in Runs, row \in Rows, file \in {Torn} \cup Rows :
              /\ pc = "write" /\ outcomes[e].row = row
              /\ Rests(e, row)
              /\ UNCHANGED cache
              /\ inbox[<<row.visibility, row.day, e>>] = NoFile
              /\ file \in {row, Torn}
              /\ inbox' = [inbox EXCEPT ![<<row.visibility, row.day, e>>] = file]
  <1>1. CASE WriteRow
    <2>1. PICK e \in Runs, row \in Rows : e = Current /\ row = outcomes[Current].row
      BY <1>1, CandidateTyping DEF WriteRow
    <2>2. Rests(e, row) /\ PlaceOf(row) = <<row.visibility, row.day, e>>
      BY <1>1, <2>1, CandidateTyping DEF WriteRow
    <2>3. PICK place : place = PlaceOf(row)
      OBVIOUS
    <2>4. CASE UNCHANGED inbox
      BY <2>4
    <2>5. CASE inbox[place] = NoFile /\ inbox' = [inbox EXCEPT ![place] = row]
      BY <1>1, <2>1, <2>2, <2>3, <2>5 DEF WriteRow
    <2>6. QED
      BY <1>1, <2>1, <2>3, <2>4, <2>5 DEF WriteRow
  <1>2. CASE CrashInRowWrite
    <2>1. PICK e \in Runs, row \in Rows : e = Current /\ row = outcomes[Current].row
      BY <1>2, CandidateTyping DEF CrashInRowWrite
    <2>2. Rests(e, row) /\ PlaceOf(row) = <<row.visibility, row.day, e>>
      BY <1>2, <2>1, CandidateTyping DEF CrashInRowWrite
    <2>3. QED
      BY <1>2, <2>1, <2>2 DEF CrashInRowWrite
  <1>3. CASE Producer /\ ~WriteRow
    BY <1>3 DEF Producer, HeadOf, HeadsDone, NotChosen, StreamStep, Read, ReadFails,
                AssemblyStep, DeriveDone, WithoutRoot, IdentityMismatch, ValidateBatch,
                NotACandidate, BatchDone, Report, CacheBreaks
  <1>4. CASE Environment /\ ~CrashInRowWrite
    BY <1>4 DEF Environment, Start, StartRefused, Crash, CrashInCacheWrite, HostMoves
  <1>5. QED
    BY <1>1, <1>2, <1>3, <1>4 DEF Next, vars

(* A file rests on the cache from the step that creates it on.             *)
LEMMA FilesRestStep ==
  ASSUME TypeOK, HostTyped, CacheTyped, Busy, OutcomesRest, FilesRest, [Next]_vars
  PROVE  FilesRest'
  <1> SUFFICES ASSUME NEW root \in Visibilities, NEW day \in Days, NEW e \in Runs,
                      Rooted(root, day, e)'
               PROVE  (/\ \A k \in Deciding : Cached(Entry[e].path[k])
                       /\ Known(e, "run") # Absent
                       /\ root = Visibility(Known(e, "repo"))
                       /\ day = StartedAt(Known(e, "jobs"), Known(e, "run"))
                       /\ inbox[<<root, day, e>>] # Torn =>
                            Rests(e, inbox[<<root, day, e>>]))'
    BY DEF FilesRest
  <1>1. ASSUME NEW row, Rests(e, row), row.visibility = root, row.day = day,
               inbox'[<<root, day, e>>] \in {row, Torn}
        PROVE  (/\ \A k \in Deciding : Cached(Entry[e].path[k])
                /\ Known(e, "run") # Absent
                /\ root = Visibility(Known(e, "repo"))
                /\ day = StartedAt(Known(e, "jobs"), Known(e, "run"))
                /\ inbox[<<root, day, e>>] # Torn => Rests(e, inbox[<<root, day, e>>]))'
    <2>1. Rests(e, row)'
      BY <1>1, RestsStays
    <2>2. inbox'[<<root, day, e>>] # Torn => inbox'[<<root, day, e>>] = row
      BY <1>1
    <2>3. QED
      BY <1>1, <2>1, <2>2 DEF Rests
  <1>2. CASE inbox'[<<root, day, e>>] = inbox[<<root, day, e>>]
    <2>1. Rooted(root, day, e)
      BY <1>2 DEF Rooted
    <2>2. PICK row : row = [run |-> e, head |-> Known(e, "run").head, day |-> day,
                            visibility |-> root]
      OBVIOUS
    <2>3. /\ \A k \in Deciding : Cached(Entry[e].path[k])
          /\ Known(e, "run") # Absent
          /\ root = Visibility(Known(e, "repo"))
          /\ day = StartedAt(Known(e, "jobs"), Known(e, "run"))
          /\ inbox[<<root, day, e>>] # Torn => Rests(e, inbox[<<root, day, e>>])
      BY <2>1 DEF FilesRest
    <2>4. CASE inbox[<<root, day, e>>] = Torn
      <3>1. Rests(e, row)
        BY <2>2, <2>3 DEF Rests
      <3>2. QED
        BY <1>1, <1>2, <2>2, <2>4, <3>1
    <2>5. CASE inbox[<<root, day, e>>] # Torn
      <3>1. Rests(e, inbox[<<root, day, e>>])
        BY <2>3, <2>5
      <3>2. /\ inbox[<<root, day, e>>].visibility = root
            /\ inbox[<<root, day, e>>].day = day
        BY <2>3, <3>1 DEF Rests
      <3>3. QED
        BY <1>1, <1>2, <3>1, <3>2
    <2>6. QED
      BY <2>4, <2>5
  <1>3. CASE inbox'[<<root, day, e>>] # inbox[<<root, day, e>>]
    <2>1. PICK f \in Runs, row \in Rows, file \in {Torn} \cup Rows :
            /\ Rests(f, row)
            /\ file \in {row, Torn}
            /\ inbox' = [inbox EXCEPT ![<<row.visibility, row.day, f>>] = file]
      BY <1>3, InboxSteps
    <2>2. f = e /\ root = row.visibility /\ day = row.day /\ inbox'[<<root, day, e>>] = file
      BY <1>3, <2>1 DEF TypeOK, Places
    <2>3. QED
      BY <1>1, <2>1, <2>2
  <1>4. QED
    BY <1>2, <1>3


(* Where it ends, an invocation leaves what Init has in its memory.        *)
LEMMA EndTyping ==
  ASSUME NEW status \in {"0", "1", "2", "killed"}, End(status)
  PROVE  /\ (pc \in PCs)'
         /\ (args \in [commit : Commits \cup {NoCommit}, only : Runs \cup {All},
                       privateOut : BOOLEAN])'
         /\ (batch \in Visibilities)'
         /\ (queue \in Seq(Runs))'
         /\ (heads \in [Runs -> (Pulls \X Heads) \cup {NoTask}])'
         /\ (got \in [Kinds -> Answers \cup {NotRead}])'
         /\ (outcomes \in [Runs -> Outcome])'
         /\ (exit \in {"none", "0", "1", "2", "killed"})'
  BY DEF End, PCs, Idle, Visibilities, NothingRead, Outcome, NotDerived, Reasons

(* A reason without a row is an outcome.                                   *)
LEMMA NoRowTyping ==
  ASSUME NEW reason \in Reasons
  PROVE  NoRow(reason) \in Outcome
  BY DEF NoRow, NotDerived, Outcome

(* Coming to an outcome keeps the types of what it touches.                *)
LEMMA SettleTyping ==
  ASSUME TypeOK, Busy, queue # << >>, NEW outcome \in Outcome, Settle(outcome)
  PROVE  /\ (outcomes \in [Runs -> Outcome])'
         /\ (queue \in Seq(Runs))'
         /\ (pc \in PCs)'
         /\ (got \in [Kinds -> Answers \cup {NotRead}])'
  BY CurrentTyping DEF Settle, TypeOK, PCs, NothingRead

(* Every step keeps the types.                                             *)
LEMMA TypeStep ==
  ASSUME Inv, [Next]_vars
  PROVE  TypeOK'
  <1> USE DEF Inv
  <1>1. (cache \in [Paths -> Answers \cup {NoFile, Torn}])'
    BY CacheGrows
  <1>2. (inbox \in [Places -> File])'
    BY InboxSteps DEF TypeOK, File
  <1>3. CASE HeadOf
    <2>1. PICK c \in Runs, p \in Paths : c = Current /\ p = Entry[c].path["run"]
      BY <1>3, CurrentTyping, Typing DEF HeadOf, Kinds
    <2>2. (queue \in Seq(Runs))'
      BY <1>3, CurrentTyping DEF HeadOf
    <2>3. CASE UNCHANGED heads
      BY <1>1, <1>2, <1>3, <2>2, <2>3 DEF HeadOf, TypeOK
    <2>4. CASE heads' = [heads EXCEPT ![c] = TaskOf(c, Answer(p))]
      <3>1. Answer(p) \in AnswersOf("run")
        BY <2>1 DEF Answer, CacheTyped, HostTyped, Known, Kinds
      <3>2. TaskOf(c, Answer(p)) \in (Pulls \X Heads) \cup {NoTask}
        BY <3>1, TaskTyping
      <3>3. (heads \in [Runs -> (Pulls \X Heads) \cup {NoTask}])'
        BY <2>4, <3>2 DEF TypeOK
      <3>4. QED
        BY <1>1, <1>2, <1>3, <2>2, <3>3 DEF HeadOf, TypeOK
    <2>5. QED
      BY <1>3, <2>1, <2>3, <2>4 DEF HeadOf
  <1>4. CASE HeadsDone \/ ValidateBatch
    <2>1. Index \in Seq(Runs)
      BY <1>4, IndexAssumption DEF HeadsDone, ValidateBatch, Busy, Index
    <2>2. CASE HeadsDone
      BY <1>1, <1>2, <2>1, <2>2 DEF HeadsDone, TypeOK, PCs
    <2>3. CASE ValidateBatch
      <3>1. NoRow("validator-refused") \in Outcome
        BY NoRowTyping DEF Reasons
      <3>2. QED
        BY <1>1, <1>2, <2>1, <2>3, <3>1 DEF ValidateBatch, TypeOK, PCs
    <2>4. QED
      BY <1>4, <2>2, <2>3
  <1>5. CASE NotChosen \/ NotACandidate
    BY <1>1, <1>2, <1>5, CurrentTyping DEF NotChosen, NotACandidate, TypeOK
  <1>6. CASE DeriveDone \/ BatchDone
    BY <1>1, <1>2, <1>6 DEF DeriveDone, BatchDone, TypeOK, PCs, Visibilities
  <1>7. CASE WithoutRoot
    <2>1. NoRow("visibility-not-public") \in Outcome
      BY NoRowTyping DEF Reasons
    <2>2. QED
      BY <1>1, <1>2, <1>7, <2>1 DEF WithoutRoot, TypeOK, PCs
  <1>8. CASE StreamStep
    <2>1. Current \in Runs /\ Entry[Current] \in EntryType
      BY <1>8, CurrentTyping, EntryAssumption DEF StreamStep
    <2>2. CASE \E reason \in Reasons : Settle(NoRow(reason))
      BY <1>1, <1>2, <1>8, <2>2, NoRowTyping, SettleTyping DEF StreamStep, TypeOK
    <2>3. CASE pc' = "run" /\ UNCHANGED <<queue, got, outcomes>>
      BY <1>1, <1>2, <1>8, <2>3 DEF StreamStep, TypeOK, PCs, Kinds
    <2>4. Then(IF Entry[Current].stream = "settles" THEN "none" ELSE Entry[Current].stream,
               IF Entry[Current].named = "both" THEN "none" ELSE Entry[Current].named)
            \in Reasons
      BY <2>1 DEF EntryType, Then, Reasons
    <2>5. QED
      BY <1>8, <2>2, <2>3, <2>4 DEF StreamStep
  <1>9. CASE Read
    <2>1. PICK e \in Runs : e = Current
      BY <1>9, CurrentTyping DEF Read, Inside
    <2>2. PICK p \in Paths : p = PathOf(pc, Current, got)
      BY <1>9, <2>1, PathOfTyping DEF Read
    <2>3. pc \in Kinds /\ Answer(p) \in Answers /\ queue # << >>
      BY <1>9, <2>2, Keeping, CurrentTyping DEF Read, Inside
    <2>4. CASE \E reason \in Reasons : Settle(NoRow(reason))
      BY <1>1, <1>2, <1>9, <2>3, <2>4, NoRowTyping, SettleTyping DEF Read, TypeOK
    <2>5. CASE /\ got' = [got EXCEPT ![pc] = Answer(p)]
               /\ pc' = NextFetch(pc, Current, got')
               /\ UNCHANGED <<queue, outcomes>>
      <3>1. pc' \in PCs
        BY <2>3, <2>5, NextFetchTyping DEF PCs, Inside
      <3>2. QED
        BY <1>1, <1>2, <1>9, <2>3, <2>5, <3>1 DEF Read, TypeOK
    <2>6. Refusal(pc, Current, [got EXCEPT ![pc] = Answer(p)]) \in Reasons
      BY <2>3, RefusalTyping DEF Derivable
    <2>7. QED
      BY <1>9, <2>2, <2>4, <2>5, <2>6 DEF Read
  <1>10. CASE AssemblyStep
    <2>1. queue # << >> /\ Current \in Runs
      BY <1>10, CurrentTyping DEF AssemblyStep, Inside
    <2>2. CASE Settle(NoRow("publisher-as-agent"))
      <3>1. NoRow("publisher-as-agent") \in Outcome
        BY NoRowTyping DEF Reasons, StreamReasons
      <3>2. QED
        BY <1>1, <1>2, <1>10, <2>1, <2>2, <3>1, SettleTyping DEF AssemblyStep, TypeOK
    <2>3. CASE Settle([NotDerived EXCEPT !.row = RowOf(Current, got)])
      <3>1. RowOf(Current, got) \in Rows
        BY <1>10, Assembled DEF AssemblyStep
      <3>2. [NotDerived EXCEPT !.row = RowOf(Current, got)] \in Outcome
        BY <3>1 DEF NotDerived, Outcome, Reasons
      <3>3. QED
        BY <1>1, <1>2, <1>10, <2>1, <2>3, <3>2, SettleTyping DEF AssemblyStep, TypeOK
    <2>4. QED
      BY <1>10, <2>2, <2>3 DEF AssemblyStep
  <1>11. CASE WriteRow
    <2>1. PICK c \in Runs : c = Current
      BY <1>11, CurrentTyping DEF WriteRow
    <2>2. NoRow("row-exists-differs") \in Outcome
      BY NoRowTyping DEF Reasons
    <2>3. outcomes' \in [Runs -> Outcome]
      <3>1. CASE outcomes' = [outcomes EXCEPT ![c] = NoRow("row-exists-differs")]
        BY <2>2, <3>1 DEF TypeOK
      <3>2. CASE \E state \in {"skip", "new"} : outcomes' = [outcomes EXCEPT ![c].state = state]
        BY <3>2, SMTT(30) DEF TypeOK, Outcome
      <3>3. QED
        BY <1>11, <2>1, <3>1, <3>2 DEF WriteRow
    <2>4. QED
      BY <1>1, <1>2, <1>11, <2>3, CurrentTyping DEF WriteRow, TypeOK
  <1>12. ASSUME NEW status \in {"0", "1", "2", "killed"}, End(status),
                UNCHANGED <<host, declared>>
         PROVE  TypeOK'
    BY <1>1, <1>2, <1>12, EndTyping DEF TypeOK
  <1>13. CASE ReadFails \/ IdentityMismatch \/ Report \/ CacheBreaks
    BY <1>12, <1>13 DEF ReadFails, IdentityMismatch, Report, CacheBreaks
  <1>14. CASE StartRefused \/ Crash \/ CrashInCacheWrite \/ CrashInRowWrite
    BY <1>12, <1>14 DEF StartRefused, Crash, CrashInCacheWrite, CrashInRowWrite
  <1>15. ASSUME NEW commit \in Commits, NEW only \in Runs \cup {All}, NEW privateOut \in BOOLEAN,
                Start(commit, only, privateOut)
         PROVE  TypeOK'
    BY <1>1, <1>2, <1>15, IndexAssumption DEF Start, TypeOK, PCs
  <1>16. ASSUME NEW p \in Paths, HostMoves(p)
         PROVE  TypeOK'
    <2>1. MayBecome[p] \subseteq Answers
      BY HostAssumption
    <2>2. (host \in [Paths -> Answers])'
      BY <1>16, <2>1 DEF HostMoves, TypeOK
    <2>3. QED
      BY <1>1, <1>2, <1>16, <2>2 DEF HostMoves, TypeOK
  <1>17. CASE UNCHANGED vars
    BY <1>17 DEF vars, TypeOK
  <1>18. QED
    BY <1>3, <1>4, <1>5, <1>6, <1>7, <1>8, <1>9, <1>10, <1>11, <1>13, <1>14, <1>15, <1>16,
       <1>17 DEF Next, Producer, Environment

(* Every step keeps the invariant.                                         *)
LEMMA InvStep == Inv /\ [Next]_vars => Inv'
  BY TypeStep, HostTypedStep, CacheGrows, BusyStep, GotIsCachedStep, HasReadStep,
     OutcomesRestStep, FilesRestStep DEF Inv

(* Inv holds of everything the producer, its crashes and its host do.      *)
THEOREM Invariance == Spec => []Inv
  <1>1. Init => Inv
    BY InitInv
  <1>2. Inv /\ [Next]_vars => Inv'
    BY InvStep
  <1>3. QED
    BY <1>1, <1>2, PTL DEF Spec

(* Every variable keeps its type: the memory of an invocation, the cache   *)
(* and the inboxes, whatever is killed in the middle of a write.           *)
THEOREM TypeCorrect == Spec => []TypeOK
  <1>1. Inv => TypeOK
    BY DEF Inv
  <1>2. QED
    BY <1>1, Invariance, PTL

(* Every row, and the place of every torn one, is the derivation of the    *)
(* answers the cache holds now, for every index, every host and every      *)
(* schedule of crashes, moves and re-runs over one cache.                  *)
THEOREM CacheDecides == Spec => []RowsRestOnCache
  <1>1. Inv => RowsRestOnCache
    <2> SUFFICES ASSUME Inv, NEW root \in Visibilities, NEW day \in Days, NEW e \in Runs,
                        Rooted(root, day, e)
                 PROVE  /\ \A k \in Deciding : Cached(Entry[e].path[k])
                        /\ Known(e, "run") # Absent
                        /\ day = StartedAt(Known(e, "jobs"), Known(e, "run"))
                        /\ root = "public" <=> Known(e, "repo") # Absent /\ Known(e, "repo").public
                        /\ inbox[<<root, day, e>>] # Torn =>
                             /\ inbox[<<root, day, e>>].run = e
                             /\ inbox[<<root, day, e>>].head = Known(e, "run").head
                             /\ inbox[<<root, day, e>>].day = day
                             /\ inbox[<<root, day, e>>].visibility = root
      BY DEF RowsRestOnCache, Known, Deciding
    <2>1. /\ \A k \in Deciding : Cached(Entry[e].path[k])
          /\ Known(e, "run") # Absent
          /\ root = Visibility(Known(e, "repo"))
          /\ day = StartedAt(Known(e, "jobs"), Known(e, "run"))
          /\ inbox[<<root, day, e>>] # Torn => Rests(e, inbox[<<root, day, e>>])
      BY DEF Inv, FilesRest
    <2>2. root = "public" <=> Known(e, "repo") # Absent /\ Known(e, "repo").public
      BY <2>1 DEF Visibility
    <2>3. QED
      BY <2>1, <2>2 DEF Rests
  <1>2. QED
    BY <1>1, Invariance, PTL

-----------------------------------------------------------------------------
(* The producer implements the ledger.                                     *)

(* The cache gives a run one inbox and one day, so where that place holds  *)
(* nothing the run is unfiled in all of them.                              *)
LEMMA OnePlacePerRun ==
  ASSUME Inv, NEW e \in Runs, NEW row \in Rows, Rests(e, row),
         inbox[<<row.visibility, row.day, e>>] = NoFile
  PROVE  Ledger!Unfiled(e)
  BY DEF Inv, FilesRest, Rooted, Rests, Ledger!Unfiled

(* The inboxes together are an append-only ledger with one record per      *)
(* execution: each step of the producer appends one record of a run that   *)
(* has none, leaves one torn file, or touches no inbox.                    *)
THEOREM Implementation == Spec => KeepsTheLedger
  <1>1. Init => Ledger!Init
    BY DEF Init, Ledger!Init, Places
  <1>2. ASSUME Inv, [Next]_vars
        PROVE  [Ledger!Next]_inbox
    <2>1. CASE UNCHANGED inbox
      BY <2>1
    <2>2. ASSUME NEW e \in Runs, NEW row \in Rows, NEW file \in {Torn} \cup Rows,
                 Rests(e, row), file \in {row, Torn},
                 inbox[<<row.visibility, row.day, e>>] = NoFile,
                 inbox' = [inbox EXCEPT ![<<row.visibility, row.day, e>>] = file]
          PROVE  Ledger!Next
      <3>1. Ledger!Unfiled(e)
        BY <1>2, <2>2, OnePlacePerRun
      <3>2. row.run = e /\ row.visibility \in Visibilities /\ row.day \in Days
        BY <2>2 DEF Rests, Rows
      <3>3. CASE file = row
        BY <2>2, <3>1, <3>2, <3>3 DEF Ledger!Next, Ledger!Append, Ledger!PlaceOf
      <3>4. CASE file = Torn
        BY <2>2, <3>1, <3>2, <3>4 DEF Ledger!Next, Ledger!Tear
      <3>5. QED
        BY <2>2, <3>3, <3>4
    <2>3. QED
      BY <1>2, <2>1, <2>2, InboxSteps DEF Inv
  <1>3. QED
    BY <1>1, <1>2, Invariance, PTL DEF Spec, KeepsTheLedger, Ledger!Spec

-----------------------------------------------------------------------------
(* No row is filed where the inbox, or the host, says otherwise.           *)

(* While a batch is being written, its inbox has declared it.              *)
Gated == pc = "write" => declared[batch] = batch

FiledAsDeclared ==
  \A root \in Visibilities, day \in Days, e \in Runs :
    Rooted(root, day, e) => declared[root] = root

(* Rows are being written only where the inbox declares what it is for.    *)
LEMMA GatedStep ==
  ASSUME Inv, Gated, [Next]_vars
  PROVE  Gated'
  <1>1. CASE pc' # "write"
    BY <1>1 DEF Gated
  <1>2. CASE UNCHANGED <<pc, batch, declared>>
    BY <1>2 DEF Gated
  <1>3. CASE ValidateBatch
    BY <1>3 DEF ValidateBatch, Gated
  <1>4. CASE HeadOf \/ NotChosen \/ NotACandidate \/ WriteRow
    BY <1>2, <1>4 DEF HeadOf, NotChosen, NotACandidate, WriteRow
  <1>5. CASE HeadsDone \/ StreamStep \/ AssemblyStep \/ DeriveDone \/ WithoutRoot \/ BatchDone
    BY <1>1, <1>5 DEF HeadsDone, StreamStep, AssemblyStep, Settle, DeriveDone, WithoutRoot,
                      BatchDone
  <1>6. CASE Read
    <2>1. CASE pc' = NextFetch(pc, Current, got')
      BY <1>1, <1>6, <2>1, NextFetchTyping DEF Read, Inside, Kinds
    <2>2. QED
      BY <1>1, <1>6, <2>1 DEF Read, Settle
  <1>7. CASE ReadFails \/ IdentityMismatch \/ Report \/ CacheBreaks
    BY <1>1, <1>7 DEF ReadFails, IdentityMismatch, Report, CacheBreaks, End
  <1>8. CASE Environment
    BY <1>1, <1>2, <1>8 DEF Environment, Start, StartRefused, Crash, CrashInCacheWrite,
                            CrashInRowWrite, HostMoves, End
  <1>9. QED
    BY <1>2, <1>3, <1>4, <1>5, <1>6, <1>7, <1>8 DEF Next, Producer, vars

(* A file lies only in an inbox that declares what it is for.              *)
LEMMA FiledAsDeclaredStep ==
  ASSUME Inv, Gated, FiledAsDeclared, [Next]_vars
  PROVE  FiledAsDeclared'
  <1>1. UNCHANGED declared
    <2>1. CASE Producer
      BY <2>1 DEF Producer, HeadOf, HeadsDone, NotChosen, StreamStep, Read, ReadFails,
                  AssemblyStep, DeriveDone, WithoutRoot, IdentityMismatch, ValidateBatch,
                  NotACandidate, WriteRow, BatchDone, Report, CacheBreaks
    <2>2. CASE Environment
      BY <2>2 DEF Environment, Start, StartRefused, Crash, CrashInCacheWrite, CrashInRowWrite,
                  HostMoves
    <2>3. QED
      BY <2>1, <2>2 DEF Next, vars
  <1>2. CASE UNCHANGED inbox
    BY <1>1, <1>2 DEF FiledAsDeclared, Rooted
  <1>3. CASE /\ pc = "write" /\ queue # << >> /\ Candidate(Current)
             /\ \E file : inbox' = [inbox EXCEPT ![PlaceOf(outcomes[Current].row)] = file]
    <2>1. PICK place \in Places : place = PlaceOf(outcomes[Current].row)
      BY <1>3, CandidateTyping DEF Inv
    <2>2. place[1] = batch
      BY <2>1 DEF PlaceOf
    <2>3. \A p \in Places : inbox'[p] = inbox[p] \/ p[1] = batch
      BY <1>3, <2>1, <2>2 DEF Inv, TypeOK
    <2>4. QED
      BY <1>1, <1>3, <2>3 DEF Gated, FiledAsDeclared, Rooted, Places
  <1>4. CASE WriteRow
    BY <1>2, <1>3, <1>4 DEF WriteRow
  <1>5. CASE CrashInRowWrite
    BY <1>3, <1>5 DEF CrashInRowWrite
  <1>6. CASE Producer /\ ~WriteRow
    BY <1>2, <1>6 DEF Producer, HeadOf, HeadsDone, NotChosen, StreamStep, Read, ReadFails,
                      AssemblyStep, DeriveDone, WithoutRoot, IdentityMismatch, ValidateBatch,
                      NotACandidate, BatchDone, Report, CacheBreaks
  <1>7. CASE Environment /\ ~CrashInRowWrite
    BY <1>2, <1>7 DEF Environment, Start, StartRefused, Crash, CrashInCacheWrite, HostMoves
  <1>8. QED
    BY <1>2, <1>4, <1>5, <1>6, <1>7 DEF Next, vars

(* Whatever an inbox declares, and whatever the host comes to say of a     *)
(* repository, a row is only ever in an inbox that declares the row's      *)
(* visibility, and in the public one only over an answer that the          *)
(* repository is public.                                                   *)
THEOREM FailClosed == Spec => []FiledWhereItBelongs
  <1>1. Init => Gated /\ FiledAsDeclared
    BY DEF Init, Gated, FiledAsDeclared, Rooted, Places
  <1>2. Inv /\ Gated /\ FiledAsDeclared /\ [Next]_vars => (Gated /\ FiledAsDeclared)'
    BY GatedStep, FiledAsDeclaredStep
  <1>3. Inv /\ FiledAsDeclared => FiledWhereItBelongs
    <2> SUFFICES ASSUME Inv, FiledAsDeclared, NEW root \in Visibilities, NEW day \in Days,
                        NEW e \in Runs, Rooted(root, day, e)
                 PROVE  /\ declared[root] = root
                        /\ root = "public" => cache[Entry[e].path["repo"]] = [public |-> TRUE]
      BY DEF FiledWhereItBelongs
    <2>1. declared[root] = root
      BY DEF FiledAsDeclared
    <2>2. Cached(Entry[e].path["repo"]) /\ root = Visibility(Known(e, "repo"))
      BY DEF Inv, FilesRest, Deciding
    <2>3. Known(e, "repo") \in {Absent} \cup [public : BOOLEAN]
      BY <2>2 DEF Inv, CacheTyped, AnswersOf, Kinds
    <2>4. root = "public" => Known(e, "repo") = [public |-> TRUE]
      BY <2>2, <2>3 DEF Visibility
    <2>5. QED
      BY <2>1, <2>4 DEF Known
  <1>4. QED
    BY <1>1, <1>2, <1>3, Invariance, PTL DEF Spec

-----------------------------------------------------------------------------
(* Every row has its evidence: the answers are read in one order, none is  *)
(* passed over, and one that cannot carry a row ends the derivation.       *)

(* The order in which derive_one asks.                                     *)
Turn ==
  [run |-> 1, pull |-> 2, commits |-> 3, wrapper |-> 4, template |-> 5, routine |-> 6,
   caller |-> 7, jobs |-> 8, agents |-> 9, settings |-> 10, repo |-> 11, manifest |-> 12,
   vendor |-> 13, comments |-> 14, assembly |-> 15]

(* The comments are asked for or not, and the wrapper is where the run     *)
(* went through one; nothing else is left out, and nothing read refuses    *)
(* the row.                                                                *)
ReadInTurn ==
  pc \in Inside =>
    /\ Entry[Current].stream = "settles"
    /\ \A k \in Kinds \ {"wrapper", "comments"} : Turn[k] < Turn[pc] => got[k] # NotRead
    /\ Turn["wrapper"] < Turn[pc] /\ AsksWrapper(got["run"]) => got["wrapper"] # NotRead
    /\ pc = "wrapper" => AsksWrapper(got["run"])
    /\ \A k \in Kinds \ {"wrapper"} : Turn[k] < Turn[pc] => Refusal(k, Current, got) = "none"
    /\ Turn["wrapper"] < Turn[pc] => ReferenceRefusal(got) = "none"

(* The template was read where its text is.                                *)
TemplateIsCached ==
  pc \in Inside /\ Turn["template"] < Turn[pc] =>
    /\ Cached(PathOf("template", Current, got))
    /\ got["template"] = cache[PathOf("template", Current, got)]

(* The evidence a row about an entry needs, as the cache has it.           *)
Evidence == {"run", "pull", "commits", "routine", "caller", "jobs", "agents", "manifest", "vendor"}

Backed(e) ==
  /\ Entry[e].stream = "settles"
  /\ \A k \in Evidence : Cached(Entry[e].path[k])
  /\ AsksWrapper(Known(e, "run")) => Cached(Entry[e].path["wrapper"])
  /\ \/ Known(e, "run").review = "none" /\ Known(e, "wrapper") # Text("calls-commit")
     \/ Cached(Entry[e].path["template"])
  /\ ReviewedThere(e) /\ Handed(e) /\ Established(e)

OutcomesBacked == \A e \in Runs : outcomes[e].row # NoFile => Backed(e)

FilesBacked ==
  \A root \in Visibilities, day \in Days, e \in Runs : Rooted(root, day, e) => Backed(e)

EvidenceInv == ReadInTurn /\ TemplateIsCached /\ OutcomesBacked /\ FilesBacked

(* No two fetches have one turn.                                           *)
LEMMA Turns ==
  /\ Turn \in [Inside -> Nat]
  /\ \A j, k \in Inside : Turn[j] = Turn[k] => j = k
  /\ Turn["run"] = 1
  /\ Turn["commits"] = 3
  /\ Turn["wrapper"] = 4
  /\ Turn["template"] = 5
  /\ Turn["vendor"] = 13
  /\ Turn["comments"] = 14
  /\ Turn["assembly"] = 15
  BY DEF Turn, Inside, Kinds

(* A fetch is followed by the next in turn, where none is left out.        *)
LEMMA OneTurn ==
  ASSUME NEW k \in Kinds, NEW e, NEW g
  PROVE  \/ Turn[NextFetch(k, e, g)] = Turn[k] + 1
         \/ k = "commits" /\ NextFetch(k, e, g) = "template"
         \/ k = "vendor" /\ NextFetch(k, e, g) = "assembly"
  <1>1. PICK n : n = NextFetch(k, e, g)
    OBVIOUS
  <1>2. \/ <<k, n>> \in {<<"run", "pull">>, <<"pull", "commits">>, <<"wrapper", "template">>,
                        <<"template", "routine">>, <<"routine", "caller">>}
        \/ <<k, n>> \in {<<"caller", "jobs">>, <<"jobs", "agents">>, <<"agents", "settings">>,
                        <<"settings", "repo">>, <<"repo", "manifest">>}
        \/ <<k, n>> \in {<<"manifest", "vendor">>, <<"comments", "assembly">>}
        \/ k = "commits" /\ n \in {"wrapper", "template"}
        \/ k = "vendor" /\ n \in {"comments", "assembly"}
    BY <1>1 DEF NextFetch, Kinds
  <1>3. QED
    BY <1>1, <1>2 DEF Turn

(* What a fetch comes after, and what must have been asked for before it.  *)
LEMMA NextTurn ==
  ASSUME NEW k \in Kinds, NEW e, NEW g, NEW n, n = NextFetch(k, e, g)
  PROVE  /\ \A j \in Kinds \ {"wrapper", "comments"} :
              Turn[j] < Turn[n] => j = k \/ Turn[j] < Turn[k]
         /\ n = "wrapper" => AsksWrapper(g["run"])
         /\ Turn["wrapper"] < Turn[n] =>
              k = "wrapper" \/ Turn["wrapper"] < Turn[k] \/ ~AsksWrapper(g["run"])
         /\ Turn["vendor"] < Turn[n] => k = "vendor" \/ Turn["vendor"] < Turn[k]
  <1>1. k \in Inside /\ Kinds \subseteq Inside
    BY DEF Inside
  <1>2. n = "wrapper" => AsksWrapper(g["run"])
    BY DEF NextFetch, Kinds
  <1>3. k = "commits" /\ n = "template" => ~AsksWrapper(g["run"])
    BY DEF NextFetch
  <1>4. \/ Turn[n] = Turn[k] + 1
        \/ k = "commits" /\ n = "template"
        \/ k = "vendor" /\ n = "assembly"
    BY OneTurn
  <1>5. ASSUME NEW j \in Kinds \ {"wrapper", "comments"}, Turn[j] < Turn[n]
        PROVE  j = k \/ Turn[j] < Turn[k]
    <2>1. j \in Inside /\ Turn[j] \in Nat /\ Turn[k] \in Nat
      BY <1>1, Turns
    <2>2. CASE Turn[n] = Turn[k] + 1
      <3>1. Turn[j] <= Turn[k]
        BY <1>5, <2>1, <2>2
      <3>2. QED
        BY <1>1, <2>1, <3>1, Turns
    <2>3. CASE k = "commits" /\ n = "template"
      <3>1. Turn[j] <= 4 /\ Turn[j] # 4
        BY <1>1, <1>5, <2>1, <2>3, Turns DEF Inside, Kinds
      <3>2. Turn[j] # 3 => Turn[j] < Turn[k]
        BY <2>1, <2>3, <3>1, Turns
      <3>3. QED
        BY <1>1, <2>1, <2>3, <3>2, Turns
    <2>4. CASE k = "vendor" /\ n = "assembly"
      <3>1. Turn[j] <= 14 /\ Turn[j] # 14
        BY <1>1, <1>5, <2>1, <2>4, Turns DEF Inside, Kinds
      <3>2. Turn[j] # 13 => Turn[j] < Turn[k]
        BY <2>1, <2>4, <3>1, Turns
      <3>3. QED
        BY <1>1, <2>1, <2>4, <3>2, Turns
    <2>5. QED
      BY <1>4, <2>2, <2>3, <2>4
  <1>6. Turn["wrapper"] < Turn[n] =>
          k = "wrapper" \/ Turn["wrapper"] < Turn[k] \/ ~AsksWrapper(g["run"])
    <2>1. CASE Turn[n] = Turn[k] + 1
      <3>1. Turn["wrapper"] < Turn[n] => Turn[k] = 4 \/ 4 < Turn[k]
        BY <1>1, <2>1, Turns
      <3>2. QED
        BY <1>1, <3>1, Turns DEF Inside, Kinds
    <2>2. QED
      BY <1>3, <1>4, <2>1, Turns
  <1>7. Turn["vendor"] < Turn[n] => k = "vendor" \/ Turn["vendor"] < Turn[k]
    BY <1>5 DEF Kinds
  <1>8. QED
    BY <1>2, <1>5, <1>6, <1>7

(* What refuses nothing goes on refusing nothing: a test reads no answer   *)
(* that is asked for after it.                                             *)
LEMMA RefusalStays ==
  ASSUME NEW k \in Kinds \ {"wrapper"}, NEW j \in Kinds, Turn[k] < Turn[j], NEW e, NEW g, NEW h,
         \A i \in Kinds \ {j} : h[i] = g[i],
         j = "wrapper" => AsksWrapper(g["run"])
  PROVE  Refusal(k, e, h) = Refusal(k, e, g)
  <1>1. CASE k \in {"run", "template", "routine", "caller", "manifest"}
    <2>1. k # j
      BY Turns DEF Inside
    <2>2. h[k] = g[k]
      BY <2>1
    <2>3. QED
      BY <1>1, <2>2 DEF Refusal
  <1>2. CASE k = "commits"
    <2>1. j \notin {"run", "pull", "commits"}
      BY <1>2 DEF Turn
    <2>2. h["run"] = g["run"] /\ h["pull"] = g["pull"] /\ h["commits"] = g["commits"]
      BY <2>1 DEF Kinds
    <2>3. PullRequestRefusal(h) = PullRequestRefusal(g)
      BY <2>2 DEF PullRequestRefusal
    <2>4. CASE AsksWrapper(g["run"])
      BY <1>2, <2>2, <2>3, <2>4 DEF Refusal
    <2>5. CASE ~AsksWrapper(g["run"])
      <3>1. h["wrapper"] = g["wrapper"]
        BY <2>5 DEF Kinds
      <3>2. ReferenceRefusal(h) = ReferenceRefusal(g)
        BY <2>2, <3>1 DEF ReferenceRefusal, NoText, WrapperRead
      <3>3. QED
        BY <1>2, <2>2, <2>3, <3>2 DEF Refusal
    <2>6. QED
      BY <2>4, <2>5
  <1>3. CASE k = "jobs"
    <2>1. j \notin {"run", "template", "caller", "jobs"}
      BY <1>3 DEF Turn
    <2>2. /\ h["run"] = g["run"] /\ h["template"] = g["template"]
          /\ h["caller"] = g["caller"] /\ h["jobs"] = g["jobs"]
      BY <2>1 DEF Kinds
    <2>3. QED
      BY <1>3, <2>2 DEF Refusal, ScheduleRefusal, PromptRefusal
  <1>4. CASE k = "agents"
    <2>1. j \notin {"template", "agents"}
      BY <1>4 DEF Turn
    <2>2. h["template"] = g["template"] /\ h["agents"] = g["agents"]
      BY <2>1 DEF Kinds
    <2>3. QED
      BY <1>4, <2>2 DEF Refusal, SurfaceRefusal
  <1>5. CASE k = "vendor"
    <2>1. j \notin {"pull", "manifest", "vendor"}
      BY <1>5 DEF Turn
    <2>2. h["pull"] = g["pull"] /\ h["manifest"] = g["manifest"] /\ h["vendor"] = g["vendor"]
      BY <2>1 DEF Kinds
    <2>3. QED
      BY <1>5, <2>2 DEF Refusal, BundleRefusal, ScopeRefusal
  <1>6. CASE k \in {"pull", "settings", "repo", "comments"}
    BY <1>6 DEF Refusal
  <1>7. QED
    BY <1>1, <1>2, <1>3, <1>4, <1>5, <1>6 DEF Kinds

(* derive_one asks in turn, and goes on only over what can carry a row.    *)
LEMMA ReadInTurnStep ==
  ASSUME TypeOK, Busy, GotIsCached, HasRead, ReadInTurn, [Next]_vars
  PROVE  ReadInTurn'
  <1>1. CASE pc' \notin Inside
    BY <1>1 DEF ReadInTurn
  <1>2. CASE UNCHANGED <<pc, got, queue>>
    BY <1>2 DEF ReadInTurn, Current
  <1>3. CASE StreamStep /\ pc' = "run" /\ UNCHANGED <<queue, got>>
    <2>1. Current \in Runs /\ Entry[Current] \in EntryType
      BY <1>3, CurrentTyping, EntryAssumption DEF StreamStep
    <2>2. Entry[Current].stream = "settles"
      BY <1>3, <2>1 DEF StreamStep, Settle, Then, EntryType, StreamReasons
    <2>3. got = NothingRead
      BY <1>3 DEF StreamStep, GotIsCached, Inside, Kinds
    <2>4. \A k \in Kinds : got'[k] = NotRead /\ ~(Turn[k] < Turn["run"])
      BY <1>3, <2>3 DEF NothingRead, Turn, Kinds
    <2>5. QED
      BY <1>3, <2>2, <2>4 DEF ReadInTurn, Current, Kinds
  <1>4. ASSUME Read, NEW a, a \in Answers,
               got' = [got EXCEPT ![pc] = a],
               Refusal(pc, Current, got') = "none",
               pc' = NextFetch(pc, Current, got'),
               UNCHANGED queue
        PROVE  ReadInTurn'
    <2>1. pc \in Kinds /\ pc \in Inside
      BY <1>4 DEF Read, Inside
    <2>2. got'[pc] = a /\ a # NotRead /\ \A k \in Kinds \ {pc} : got'[k] = got[k]
      BY <1>4, <2>1, Typing DEF TypeOK
    <2>3. pc # "run" => got'["run"] = got["run"]
      BY <2>2 DEF Kinds
    <2>4. pc = "wrapper" => AsksWrapper(got'["run"])
      BY <2>1, <2>3 DEF ReadInTurn
    <2>5. pc = "wrapper" => AsksWrapper(got["run"])
      BY <2>1 DEF ReadInTurn
    <2>6. \A k \in Kinds \ {"wrapper"} : Turn[k] < Turn[pc'] => Refusal(k, Current, got') = "none"
      <3> SUFFICES ASSUME NEW k \in Kinds \ {"wrapper"}, Turn[k] < Turn[pc'], k # pc
                   PROVE  Refusal(k, Current, got') = "none"
        BY <1>4
      <3>1. CASE k = "comments"
        BY <3>1 DEF Refusal
      <3>2. CASE k # "comments"
        <4>1. Turn[k] < Turn[pc]
          BY <1>4, <2>1, <3>2, NextTurn
        <4>2. Refusal(k, Current, got) = "none"
          BY <2>1, <4>1 DEF ReadInTurn
        <4>3. Refusal(k, Current, got') = Refusal(k, Current, got)
          BY <2>1, <2>2, <2>5, <4>1, RefusalStays
        <4>4. QED
          BY <4>2, <4>3
      <3>3. QED
        BY <3>1, <3>2
    <2>7. \A k \in Kinds \ {"wrapper", "comments"} : Turn[k] < Turn[pc'] => got'[k] # NotRead
      <3> SUFFICES ASSUME NEW k \in Kinds \ {"wrapper", "comments"}, Turn[k] < Turn[pc'], k # pc
                   PROVE  got'[k] # NotRead
        BY <2>2
      <3>1. Turn[k] < Turn[pc]
        BY <1>4, <2>1, NextTurn
      <3>2. QED
        BY <2>1, <2>2, <3>1 DEF ReadInTurn
    <2>8. Turn["wrapper"] < Turn[pc'] /\ AsksWrapper(got'["run"]) => got'["wrapper"] # NotRead
      <3> SUFFICES ASSUME Turn["wrapper"] < Turn[pc'], AsksWrapper(got'["run"]), pc # "wrapper"
                   PROVE  got'["wrapper"] # NotRead
        BY <2>2
      <3>1. Turn["wrapper"] < Turn[pc]
        BY <1>4, <2>1, NextTurn
      <3>2. pc # "run"
        BY <3>1 DEF Turn
      <3>3. QED
        BY <2>1, <2>2, <2>3, <3>1, <3>2 DEF ReadInTurn, Kinds
    <2>9. pc' = "wrapper" => AsksWrapper(got'["run"])
      BY <1>4, <2>1, NextTurn
    <2>10. Turn["wrapper"] < Turn[pc'] => ReferenceRefusal(got') = "none"
      <3>1. CASE pc = "wrapper"
        BY <1>4, <3>1 DEF Refusal
      <3>2. CASE Turn["wrapper"] < Turn[pc]
        <4>1. pc \notin {"run", "wrapper"}
          BY <3>2 DEF Turn
        <4>2. got'["run"] = got["run"] /\ got'["wrapper"] = got["wrapper"]
          BY <2>2, <4>1 DEF Kinds
        <4>3. ReferenceRefusal(got) = "none"
          BY <2>1, <3>2 DEF ReadInTurn
        <4>4. QED
          BY <4>2, <4>3 DEF ReferenceRefusal, NoText, WrapperRead
      <3>3. CASE Turn["wrapper"] < Turn[pc'] /\ ~AsksWrapper(got'["run"])
                   /\ pc # "wrapper" /\ ~(Turn["wrapper"] < Turn[pc])
        <4>1. pc = "commits"
          <5>1. Turn[pc] <= 3 /\ Turn[pc'] > 4
            BY <2>1, <3>3, Turns, NextFetchTyping, <1>4 DEF Inside, Kinds
          <5>2. QED
            BY <1>4, <2>1, <5>1, OneTurn, Turns DEF Inside, Kinds
        <4>2. Then(PullRequestRefusal(got'), ReferenceRefusal(got')) = "none"
          BY <1>4, <3>3, <4>1 DEF Refusal
        <4>3. QED
          BY <4>2 DEF Then
      <3>4. QED
        BY <1>4, <2>1, <3>1, <3>2, <3>3, NextTurn
    <2>11. Entry[Current'].stream = "settles"
      BY <1>4, <2>1 DEF ReadInTurn, Current
    <2>12. Current' = Current
      BY <1>4 DEF Current
    <2>13. QED
      BY <2>6, <2>7, <2>8, <2>9, <2>10, <2>11, <2>12 DEF ReadInTurn
  <1>5. CASE Read
    <2>1. PICK e \in Runs : e = Current
      BY <1>5, CurrentTyping DEF Read, Inside
    <2>2. PICK p \in Paths : p = PathOf(pc, Current, got)
      BY <1>5, <2>1, PathOfTyping DEF Read
    <2>3. Answer(p) \in Answers
      BY <1>5, <2>2, Keeping DEF Read
    <2>4. CASE pc' = "derive"
      BY <1>1, <2>4 DEF Inside, Kinds
    <2>5. QED
      BY <1>4, <1>5, <2>2, <2>3, <2>4 DEF Read, Settle
  <1>6. CASE StreamStep
    BY <1>1, <1>3, <1>6 DEF StreamStep, Settle, Inside, Kinds
  <1>7. CASE HeadOf \/ HeadsDone \/ NotChosen \/ DeriveDone \/ AssemblyStep
    BY <1>1, <1>7 DEF HeadOf, HeadsDone, NotChosen, DeriveDone, AssemblyStep, Settle, Inside,
                      Kinds
  <1>8. CASE WithoutRoot \/ ValidateBatch \/ NotACandidate \/ WriteRow \/ BatchDone
    BY <1>1, <1>8 DEF WithoutRoot, ValidateBatch, NotACandidate, WriteRow, BatchDone, Inside,
                      Kinds
  <1>9. CASE ReadFails \/ IdentityMismatch \/ Report \/ CacheBreaks
    BY <1>1, <1>9 DEF ReadFails, IdentityMismatch, Report, CacheBreaks, End, Inside, Kinds
  <1>10. CASE Environment
    BY <1>1, <1>2, <1>10 DEF Environment, Start, StartRefused, Crash, CrashInCacheWrite,
                             CrashInRowWrite, HostMoves, End, Inside, Kinds
  <1>11. QED
    BY <1>2, <1>5, <1>6, <1>7, <1>8, <1>9, <1>10 DEF Next, Producer, vars

(* Where the template was read does not change while derive_one goes on.   *)
LEMMA TemplateIsCachedStep ==
  ASSUME TypeOK, HostTyped, CacheTyped, Busy, GotIsCached, HasRead, ReadInTurn, TemplateIsCached,
         [Next]_vars
  PROVE  TemplateIsCached'
  <1>0. \A p \in Paths : Cached(p) => Cached(p)' /\ cache'[p] = cache[p]
    BY CacheGrows
  <1>1. CASE pc' \notin Inside \/ ~(Turn["template"] < Turn[pc'])
    BY <1>1 DEF TemplateIsCached
  <1>2. CASE UNCHANGED <<pc, got, queue>> /\ pc \in Inside
    <2>1. Current \in Runs /\ Current' = Current
      BY <1>2, CurrentTyping DEF Current
    <2>2. PathOf("template", Current, got) \in Paths
      BY <2>1, PathOfTyping DEF Kinds
    <2>3. QED
      BY <1>0, <1>2, <2>1, <2>2 DEF TemplateIsCached
  <1>3. ASSUME Read, pc \in Inside, NEW e \in Runs, e = Current,
               NEW p \in Paths, p = PathOf(pc, e, got), Keep(p),
               got' = [got EXCEPT ![pc] = Answer(p)],
               pc' = NextFetch(pc, e, got'), UNCHANGED queue, Turn["template"] < Turn[pc']
        PROVE  TemplateIsCached'
    <2>1. pc \in Kinds /\ Current' = Current
      BY <1>3 DEF Read, Current
    <2>2. pc = "template" \/ Turn["template"] < Turn[pc]
      BY <1>3, <2>1, NextTurn DEF Kinds
    <2>3. pc \notin {"run", "wrapper"}
      BY <2>2 DEF Turn
    <2>4. got' = [got EXCEPT ![pc] = Answer(p)] /\ got \in [Kinds -> Answers \cup {NotRead}]
      BY <1>3 DEF TypeOK
    <2>5. got'["run"] = got["run"] /\ got'["wrapper"] = got["wrapper"]
      BY <2>3, <2>4 DEF Kinds
    <2>6. PathOf("template", e, got') = PathOf("template", e, got)
      BY <2>5 DEF PathOf, HoldsPrompt
    <2>7. CASE pc = "template"
      <3>1. got'["template"] = Answer(p) /\ cache'[p] = Answer(p) /\ Answer(p) \in Answers
        BY <1>3, <2>1, <2>4, <2>7, Keeping
      <3>2. Cached(p)'
        BY <3>1, Typing DEF Cached
      <3>3. QED
        BY <1>3, <2>1, <2>6, <2>7, <3>1, <3>2 DEF TemplateIsCached
    <2>8. CASE pc # "template"
      <3>1. got'["template"] = got["template"]
        BY <2>4, <2>8 DEF Kinds
      <3>2. PathOf("template", e, got) \in Paths
        BY PathOfTyping DEF Kinds
      <3>3. Cached(PathOf("template", e, got)) /\ got["template"] = cache[PathOf("template", e, got)]
        BY <1>3, <2>2, <2>8 DEF TemplateIsCached
      <3>4. QED
        BY <1>0, <1>3, <2>1, <2>6, <3>1, <3>2, <3>3 DEF TemplateIsCached
    <2>9. QED
      BY <2>7, <2>8
  <1>4. CASE Read
    <2>1. PICK e \in Runs : e = Current
      BY <1>4, CurrentTyping DEF Read, Inside
    <2>2. PICK p \in Paths : p = PathOf(pc, e, got)
      BY <1>4, <2>1, PathOfTyping DEF Read
    <2>3. CASE pc' = "derive"
      BY <1>1, <2>3 DEF Inside, Kinds
    <2>4. QED
      BY <1>1, <1>3, <1>4, <2>1, <2>2, <2>3 DEF Read, Settle, Inside
  <1>5. CASE StreamStep \/ HeadOf \/ HeadsDone \/ NotChosen \/ DeriveDone \/ AssemblyStep
    BY <1>1, <1>5 DEF StreamStep, HeadOf, HeadsDone, NotChosen, DeriveDone, AssemblyStep, Settle,
                      Inside, Kinds, Turn
  <1>6. CASE WithoutRoot \/ ValidateBatch \/ NotACandidate \/ WriteRow \/ BatchDone
    BY <1>1, <1>6 DEF WithoutRoot, ValidateBatch, NotACandidate, WriteRow, BatchDone, Inside,
                      Kinds
  <1>7. CASE ReadFails \/ IdentityMismatch \/ Report \/ CacheBreaks
    BY <1>1, <1>7 DEF ReadFails, IdentityMismatch, Report, CacheBreaks, End, Inside, Kinds
  <1>8. CASE Environment
    BY <1>1, <1>2, <1>8 DEF Environment, Start, StartRefused, Crash, CrashInCacheWrite,
                            CrashInRowWrite, HostMoves, End, Inside, Kinds
  <1>9. QED
    BY <1>1, <1>2, <1>4, <1>5, <1>6, <1>7, <1>8 DEF Next, Producer, vars

(* At the assembly every answer a row needs has been read, and none of     *)
(* them refused it.                                                        *)
LEMMA AssembledBacked ==
  ASSUME GotIsCached, CacheTyped, ReadInTurn, TemplateIsCached, pc = "assembly",
         NEW e \in Runs, e = Current
  PROVE  Backed(e)
  <1>1. pc \in Inside /\ \A k \in Kinds : Turn[k] < Turn[pc]
    BY DEF Inside, Turn, Kinds
  <1>2. \A k \in Kinds \ {"wrapper"} : Refusal(k, e, got) = "none"
    BY <1>1 DEF ReadInTurn
  <1>3. \A k \in Evidence : Cached(Entry[e].path[k]) /\ got[k] = Known(e, k)
    BY <1>1 DEF ReadInTurn, GotIsCached, OwnPath, Evidence, Kinds
  <1>4. AsksWrapper(got["run"]) => Cached(Entry[e].path["wrapper"]) /\ got["wrapper"] = Known(e, "wrapper")
    BY <1>1 DEF ReadInTurn, GotIsCached, OwnPath, Kinds
  <1>5. /\ got["run"] = Known(e, "run") /\ got["pull"] = Known(e, "pull")
        /\ got["commits"] = Known(e, "commits")
    BY <1>3 DEF Evidence
  <1>6. RunRefusal(got["run"]) = "none" /\ PullRequestRefusal(got) = "none"
    <2>1. Refusal("run", e, got) = "none" /\ Refusal("commits", e, got) = "none"
      BY <1>2 DEF Kinds
    <2>2. QED
      BY <2>1 DEF Refusal, Then
  <1>7. ReviewedThere(e)
    <2>1. got["run"] # Absent /\ got["run"].filed /\ got["run"].head # NoHead
      BY <1>6 DEF RunRefusal
    <2>2. /\ got["commits"] # Absent
          /\ \/ got["run"].head \in got["commits"].commits
             \/ got["pull"] # Absent /\ got["pull"].branch = got["run"].branch
      BY <1>6 DEF PullRequestRefusal, HeadBelongsTo
    <2>3. QED
      BY <1>5, <2>1, <2>2 DEF ReviewedThere, Known
  <1>8. ReferenceRefusal(got) = "none"
    BY <1>1 DEF ReadInTurn, Kinds
  <1>9. got["run"].review \in Referenced /\ got["run"].wrapper \in Referenced
    <2>1. got["run"] \in AnswersOf("run")
      BY <1>3, <1>5 DEF CacheTyped, Evidence, Kinds
    <2>2. QED
      BY <1>6, <2>1 DEF AnswersOf, RunRefusal
  <1>10. /\ got["run"].review = "at-commit" \/ (got["run"].review = "none" /\ AsksWrapper(got["run"]))
         /\ got["run"].wrapper # "none" => WrapperRead(got)
         /\ got["run"].review = "none" => got["wrapper"] # Text("calls-branch")
    BY <1>8, <1>9 DEF ReferenceRefusal, NoText, WrapperRead, Referenced
  <1>11. /\ got["template"] \notin {Absent, Unreadable}
         /\ got["routine"] \notin {Absent, Unreadable}
         /\ got["caller"] \notin {Absent, Unreadable, Text("calls-nothing")}
    <2>1. /\ Refusal("template", e, got) = "none" /\ Refusal("routine", e, got) = "none"
          /\ Refusal("caller", e, got) = "none"
      BY <1>2 DEF Kinds
    <2>2. QED
      BY <2>1 DEF Refusal, FileRefusal, CallerRefusal
  <1>12. PromptRefusal(e, got) = "none" /\ SurfaceRefusal(got) = "none"
         /\ BundleRefusal(got) = "none" /\ ScopeRefusal(got) = "none"
    <2>1. /\ Refusal("jobs", e, got) = "none" /\ Refusal("agents", e, got) = "none"
          /\ Refusal("vendor", e, got) = "none"
      BY <1>2 DEF Kinds
    <2>2. QED
      BY <2>1 DEF Refusal, Then
  <1>13. Unreadable \notin {got["agents"], got["manifest"]}
    <2>1. Refusal("agents", e, got) = "none" /\ Refusal("manifest", e, got) = "none"
      BY <1>2 DEF Kinds
    <2>2. /\ FileRefusal(got["agents"], "none", "agents-unreadable") = "none"
          /\ FileRefusal(got["manifest"], "none", "manifest-unreadable") = "none"
      BY <2>1 DEF Refusal, Then
    <2>3. QED
      BY <2>2 DEF FileRefusal, Absent, Unreadable, Text
  <1>14. /\ got["caller"] = Text("calls-gated") => got["jobs"] # Absent /\ got["jobs"].concluded
         /\ got["template"] \notin {Text("prompt-unsupported"), Text("args-unsupported")}
         /\ got["template"] = Text("names-part") => Entry[e].part
    BY <1>12 DEF PromptRefusal, SurfaceRefusal
  <1>15. Established(e)
    <2>1. /\ got["manifest"] # Text("pinned") => got["vendor"] # Absent /\ got["vendor"].named
          /\ got["pull"] # Absent /\ got["pull"].scoped
      BY <1>12 DEF BundleRefusal, ScopeRefusal
    <2>2. /\ got["agents"] = Known(e, "agents") /\ got["manifest"] = Known(e, "manifest")
          /\ got["vendor"] = Known(e, "vendor")
      BY <1>3 DEF Evidence
    <2>3. QED
      BY <1>5, <1>13, <2>1, <2>2 DEF Established, Known
  <1>16. HoldsPrompt(got) <=>
           Known(e, "run").review = "none" /\ Known(e, "wrapper") # Text("calls-commit")
    BY <1>4, <1>5, <1>10 DEF HoldsPrompt
  <1>17. /\ Cached(PathOf("template", e, got))
         /\ got["template"] = IF HoldsPrompt(got) THEN Known(e, "wrapper") ELSE Known(e, "template")
         /\ ~HoldsPrompt(got) => Cached(Entry[e].path["template"])
    BY <1>1 DEF TemplateIsCached, PathOf, Known, Kinds
  <1>18. Handed(e)
    <2>1. /\ got["routine"] = Known(e, "routine") /\ got["caller"] = Known(e, "caller")
          /\ got["jobs"] = Known(e, "jobs")
      BY <1>3 DEF Evidence
    <2>2. /\ Known(e, "run").review = "at-commit"
             \/ (Known(e, "run").review = "none" /\ Known(e, "run").wrapper = "at-commit")
          /\ Known(e, "run").wrapper # "none" =>
               /\ Known(e, "run").wrapper = "at-commit"
               /\ Known(e, "wrapper") \notin {Absent, Unreadable}
          /\ Known(e, "run").review = "none" => Known(e, "wrapper") # Text("calls-branch")
      BY <1>4, <1>5, <1>10 DEF WrapperRead, AsksWrapper
    <2>3. got["template"] = IF /\ Known(e, "run").review = "none"
                               /\ Known(e, "wrapper") # Text("calls-commit")
                            THEN Known(e, "wrapper") ELSE Known(e, "template")
      BY <1>16, <1>17
    <2>4. QED
      BY <1>11, <1>14, <2>1, <2>2, <2>3 DEF Handed, Known
  <1>19. Entry[e].stream = "settles"
    BY <1>1 DEF ReadInTurn
  <1>20. QED
    BY <1>3, <1>4, <1>5, <1>7, <1>15, <1>16, <1>17, <1>18, <1>19 DEF Backed

(* Evidence, once cached, stays.                                           *)
LEMMA BackedStays ==
  ASSUME TypeOK, HostTyped, CacheTyped, Busy, [Next]_vars, NEW e \in Runs, Backed(e)
  PROVE  Backed(e)'
  <1>1. \A k \in Kinds : Cached(Entry[e].path[k]) =>
          Cached(Entry[e].path[k])' /\ Known(e, k)' = Known(e, k)
    BY RestsStays
  <1>2. \A k \in Evidence : Cached(Entry[e].path[k])' /\ Known(e, k)' = Known(e, k)
    BY <1>1 DEF Backed, Evidence, Kinds
  <1>3. /\ Known(e, "run")' = Known(e, "run") /\ Known(e, "pull")' = Known(e, "pull")
        /\ Known(e, "commits")' = Known(e, "commits")
        /\ Known(e, "routine")' = Known(e, "routine")
        /\ Known(e, "caller")' = Known(e, "caller") /\ Known(e, "jobs")' = Known(e, "jobs")
        /\ Known(e, "agents")' = Known(e, "agents")
        /\ Known(e, "manifest")' = Known(e, "manifest")
        /\ Known(e, "vendor")' = Known(e, "vendor")
    BY <1>2 DEF Evidence
  <1>4. AsksWrapper(Known(e, "run")) =>
          Cached(Entry[e].path["wrapper"])' /\ Known(e, "wrapper")' = Known(e, "wrapper")
    BY <1>1 DEF Backed, Kinds
  <1>5. Cached(Entry[e].path["template"]) =>
          Cached(Entry[e].path["template"])' /\ Known(e, "template")' = Known(e, "template")
    BY <1>1 DEF Kinds
  <1>6. Known(e, "run").review = "none" => Known(e, "wrapper")' = Known(e, "wrapper")
    BY <1>4 DEF Backed, Handed, AsksWrapper, Known
  <1>7. /\ AsksWrapper(Known(e, "run"))' => Cached(Entry[e].path["wrapper"])'
        /\ \/ Known(e, "run").review = "none" /\ Known(e, "wrapper") # Text("calls-commit")
           \/ Cached(Entry[e].path["template"])'
    BY <1>3, <1>4, <1>5 DEF Backed, AsksWrapper
  <1>8. ReviewedThere(e)' /\ Established(e)'
    <2>1. ReviewedThere(e) /\ Established(e)
      BY DEF Backed
    <2>2. ReviewedThere(e)'
      BY <1>3, <2>1 DEF ReviewedThere, Known
    <2>3. Established(e)'
      BY <1>3, <2>1 DEF Established, Known
    <2>4. QED
      BY <2>2, <2>3
  <1>9. Handed(e)'
    <2>1. Handed(e)
      BY DEF Backed
    <2>2. Known(e, "run").wrapper # "none" => Known(e, "wrapper")' = Known(e, "wrapper")
      BY <1>4, <2>1 DEF Handed, AsksWrapper, Known
    <2>3. \/ Known(e, "run").review = "none" /\ Known(e, "wrapper") # Text("calls-commit")
          \/ Known(e, "template")' = Known(e, "template")
      BY <1>5 DEF Backed
    <2>4. QED
      BY <1>3, <1>6, <2>1, <2>2, <2>3 DEF Handed, Known
  <1>10. QED
    BY <1>2, <1>3, <1>6, <1>7, <1>8, <1>9 DEF Backed

(* What has a row, in memory or in an inbox, has its evidence.             *)
LEMMA OutcomesBackedStep ==
  ASSUME Inv, ReadInTurn, TemplateIsCached, OutcomesBacked, [Next]_vars
  PROVE  OutcomesBacked'
  <1> SUFFICES ASSUME NEW e \in Runs, outcomes'[e].row # NoFile
               PROVE  Backed(e)'
    BY DEF OutcomesBacked
  <1>1. CASE outcomes'[e].row = outcomes[e].row
    BY <1>1, BackedStays DEF OutcomesBacked, Inv
  <1>2. CASE outcomes'[e].row # outcomes[e].row
    <2>1. AssemblyStep /\ e = Current
      BY <1>2, RowsAppear DEF Inv
    <2>2. Backed(e)
      BY <2>1, AssembledBacked DEF AssemblyStep, Inv
    <2>3. QED
      BY <2>2, BackedStays DEF Inv
  <1>3. QED
    BY <1>1, <1>2

(* A file had its evidence when it was created, and has it still.          *)
LEMMA FilesBackedStep ==
  ASSUME Inv, OutcomesBacked, FilesBacked, [Next]_vars
  PROVE  FilesBacked'
  <1> SUFFICES ASSUME NEW root \in Visibilities, NEW day \in Days, NEW e \in Runs,
                      Rooted(root, day, e)'
               PROVE  Backed(e)'
    BY DEF FilesBacked
  <1>1. CASE inbox'[<<root, day, e>>] = inbox[<<root, day, e>>]
    BY <1>1, BackedStays DEF FilesBacked, Rooted, Inv
  <1>2. CASE inbox'[<<root, day, e>>] # inbox[<<root, day, e>>]
    <2>1. PICK f \in Runs, row \in Rows :
            /\ outcomes[f].row = row
            /\ \E file : inbox' = [inbox EXCEPT ![<<row.visibility, row.day, f>>] = file]
      BY <1>2, InboxSteps DEF Inv
    <2>2. f = e
      BY <1>2, <2>1 DEF Inv, TypeOK, Places
    <2>3. Backed(e)
      BY <2>1, <2>2, Typing DEF OutcomesBacked
    <2>4. QED
      BY <2>3, BackedStays DEF Inv
  <1>3. QED
    BY <1>1, <1>2

(* No step files, or comes to, a row without its evidence.                 *)
LEMMA EvidenceStep == Inv /\ EvidenceInv /\ [Next]_vars => EvidenceInv'
  BY ReadInTurnStep, TemplateIsCachedStep, OutcomesBackedStep, FilesBackedStep
  DEF Inv, EvidenceInv

(* No component of a row is a convenient value: for every index and every  *)
(* schedule of crashes, moves and re-runs, the answers in the cache about  *)
(* an entry with a row place its head in its pull request, fix the text    *)
(* the runner was handed and give each of its parts as text, and establish *)
(* the row's bundle and scope.                                             *)
THEOREM EvidenceDecides == Spec => []RowsRestOnEvidence
  <1>1. Init => EvidenceInv
    BY DEF Init, EvidenceInv, ReadInTurn, TemplateIsCached, OutcomesBacked, FilesBacked, Inside,
           Kinds, NotDerived, Rooted, Places
  <1>2. Inv /\ EvidenceInv /\ [Next]_vars => EvidenceInv'
    BY EvidenceStep
  <1>3. EvidenceInv => RowsRestOnEvidence
    BY DEF EvidenceInv, FilesBacked, Rooted, Recorded, Backed, RowsRestOnEvidence
  <1>4. QED
    BY <1>1, <1>2, <1>3, Invariance, PTL DEF Spec

-----------------------------------------------------------------------------
(* What the log says.                                                      *)

(* How many entries of the index the present loop has passed.              *)
Passed == Len(Index) - Len(queue)

InLoop == {"derive", "write"} \cup Inside

(* A loop goes through the index from its front.                           *)
QueueFollows ==
  pc \in InLoop =>
    /\ Len(queue) <= Len(Index)
    /\ \A i \in DOMAIN queue : queue[i] = Index[Passed + i]

(* Every chosen entry that was passed has come to its outcome.             *)
Derived(i) == Chosen(Index[i]) => outcomes[Index[i]] # NotDerived

AllDerived ==
  /\ pc \in {"derive"} \cup Inside => \A i \in 1 .. Passed : Derived(i)
  /\ pc \in {"batch", "write", "report"} => \A i \in DOMAIN Index : Derived(i)

(* An outcome is a row or a reason, and only a row can have been written.  *)
Shaped ==
  \A e \in Runs : /\ outcomes[e].row # NoFile => outcomes[e].reason = "none"
                  /\ outcomes[e].row = NoFile => outcomes[e].state = "none"

(* What is said to be written or there already is there.                   *)
StatedIsThere ==
  \A e \in Runs :
    LET o == outcomes[e]
    IN /\ o.state # "none" => inbox[<<o.row.visibility, o.row.day, e>>] = o.row
       /\ o.reason = "row-exists-differs" =>
            \E root \in Visibilities, day \in Days : Rooted(root, day, e)

(* A row bound for an inbox has been taken there.                          *)
TakenTo(v, i) ==
  LET o == outcomes[Index[i]]
  IN o.row # NoFile /\ o.row.visibility = v => o.state # "none"

(* The public batch goes first, and each goes through the whole index.     *)
BatchesInTurn ==
  /\ pc \in {"idle", "heads", "derive"} \cup Inside => batch = "public"
  /\ pc \in {"batch", "write"} /\ batch # "public" =>
       \A i \in DOMAIN Index : TakenTo("public", i)
  /\ pc = "write" => \A i \in 1 .. Passed : TakenTo(batch, i)
  /\ pc = "report" => \A i \in DOMAIN Index, v \in Visibilities : TakenTo(v, i)

LogInv == QueueFollows /\ AllDerived /\ Shaped /\ StatedIsThere /\ BatchesInTurn

(* A loop that takes an entry from the front has passed one more.          *)
LEMMA OnePassed ==
  ASSUME NEW q \in Seq(Runs), NEW index \in Seq(Runs), q # << >>, Len(q) <= Len(index),
         \A i \in DOMAIN q : q[i] = index[Len(index) - Len(q) + i]
  PROVE  /\ Len(Tail(q)) = Len(q) - 1
         /\ \A i \in DOMAIN Tail(q) : Tail(q)[i] = index[Len(index) - Len(Tail(q)) + i]
         /\ Len(index) - Len(q) + 1 \in DOMAIN index
         /\ Head(q) = index[Len(index) - Len(q) + 1]
  OBVIOUS

(* A loop starts over the whole index, goes on where it was, or passes one *)
(* entry.                                                                  *)
LEMMA LoopSteps ==
  ASSUME TypeOK, Busy, [Next]_vars, pc' \in InLoop
  PROVE  /\ UNCHANGED args
         /\ \/ (HeadsDone \/ ValidateBatch) /\ queue' = Index
            \/ /\ pc \in InLoop /\ (pc = "write" <=> pc' = "write")
               /\ queue # << >> /\ queue' = Tail(queue)
            \/ /\ pc \in InLoop /\ (pc = "write" <=> pc' = "write")
               /\ UNCHANGED queue
  <1>1. CASE UNCHANGED vars
    BY <1>1 DEF vars
  <1>2. CASE HeadsDone \/ ValidateBatch
    BY <1>2 DEF HeadsDone, ValidateBatch
  <1>3. CASE NotChosen \/ NotACandidate \/ WriteRow
    BY <1>3 DEF NotChosen, NotACandidate, WriteRow, InLoop
  <1>4. CASE StreamStep
    BY <1>4 DEF StreamStep, Settle, InLoop, Inside, Kinds
  <1>5. CASE Read
    <2>1. pc \in InLoop /\ pc \in Kinds
      BY <1>5 DEF Read, InLoop, Inside
    <2>2. PICK g : /\ UNCHANGED args
                   /\ \/ pc' = "derive" /\ queue' = Tail(queue)
                      \/ pc' = NextFetch(pc, Current, g) /\ UNCHANGED queue
      BY <1>5 DEF Read, Settle
    <2>3. QED
      BY <2>1, <2>2, CurrentTyping, NextFetchTyping DEF Inside, Kinds
  <1>6. CASE AssemblyStep
    BY <1>6, CurrentTyping DEF AssemblyStep, Settle, InLoop, Inside, Kinds
  <1>7. CASE HeadOf \/ DeriveDone \/ WithoutRoot \/ BatchDone
    BY <1>7 DEF HeadOf, DeriveDone, WithoutRoot, BatchDone, InLoop, Inside, Kinds
  <1>8. CASE ReadFails \/ IdentityMismatch \/ Report \/ CacheBreaks
    BY <1>8 DEF ReadFails, IdentityMismatch, Report, CacheBreaks, End, InLoop, Inside, Kinds
  <1>9. CASE Environment
    BY <1>9 DEF Environment, Start, StartRefused, Crash, CrashInCacheWrite, CrashInRowWrite,
                HostMoves, End, InLoop, Inside, Kinds
  <1>10. QED
    BY <1>1, <1>2, <1>3, <1>4, <1>5, <1>6, <1>7, <1>8, <1>9 DEF Next, Producer

(* The index of a live invocation is a sequence of runs.                   *)
LEMMA IndexTyping ==
  ASSUME TypeOK, Busy, pc # "idle"
  PROVE  Index \in Seq(Runs) /\ Len(Index) \in Nat
  <1>1. Index \in Seq(Runs)
    BY IndexAssumption DEF Busy, Index
  <1>2. QED
    BY <1>1

(* The entry a loop is at is the first it has not passed.                  *)
LEMMA AtTheFront ==
  ASSUME TypeOK, Busy, QueueFollows, pc \in InLoop, queue # << >>
  PROVE  /\ Passed + 1 \in DOMAIN Index
         /\ Current = Index[Passed + 1]
         /\ Passed \in Nat
         /\ queue' = Tail(queue) /\ UNCHANGED args =>
              /\ Passed' = Passed + 1
              /\ Len(queue') <= Len(Index')
              /\ \A i \in DOMAIN queue' : queue'[i] = Index'[Passed' + i]
  <1>1. pc # "idle" /\ queue \in Seq(Runs) /\ Index \in Seq(Runs)
    BY IndexTyping DEF InLoop, Inside, Kinds, TypeOK
  <1>2. /\ Len(queue) <= Len(Index)
        /\ \A i \in DOMAIN queue : queue[i] = Index[Len(Index) - Len(queue) + i]
    BY DEF QueueFollows, Passed
  <1>3. Len(queue) \in Nat /\ Len(Index) \in Nat
    BY <1>1
  <1>4. /\ Len(Tail(queue)) = Len(queue) - 1
        /\ \A i \in DOMAIN Tail(queue) :
             Tail(queue)[i] = Index[Len(Index) - Len(Tail(queue)) + i]
        /\ Len(Index) - Len(queue) + 1 \in DOMAIN Index
        /\ Head(queue) = Index[Len(Index) - Len(queue) + 1]
    BY <1>1, <1>2, OnePassed
  <1>5. UNCHANGED args => Index' = Index
    BY DEF Index
  <1>6. /\ Passed + 1 \in DOMAIN Index
        /\ Current = Index[Passed + 1]
        /\ Passed \in Nat
    BY <1>2, <1>3, <1>4 DEF Passed, Current
  <1>7. ASSUME queue' = Tail(queue), UNCHANGED args
        PROVE  /\ Passed' = Passed + 1
               /\ Len(queue') <= Len(Index')
               /\ \A i \in DOMAIN queue' : queue'[i] = Index'[Passed' + i]
    <2>1. Passed' = Len(Index) - Len(Tail(queue))
      BY <1>5, <1>7 DEF Passed
    <2>2. Passed' = Passed + 1 /\ Len(Tail(queue)) <= Len(Index)
      BY <1>2, <1>3, <1>4, <2>1 DEF Passed
    <2>3. \A i \in DOMAIN Tail(queue) : Tail(queue)[i] = Index[Passed' + i]
      BY <1>4, <2>1
    <2>4. QED
      BY <1>5, <1>7, <2>2, <2>3
  <1>8. QED
    BY <1>6, <1>7

(* The queue is what a loop has left of the index.                         *)
LEMMA QueueFollowsStep ==
  ASSUME TypeOK, Busy, QueueFollows, [Next]_vars
  PROVE  QueueFollows'
  <1> SUFFICES ASSUME pc' \in InLoop
               PROVE  /\ Len(queue') <= Len(Index')
                      /\ \A i \in DOMAIN queue' : queue'[i] = Index'[Passed' + i]
    BY DEF QueueFollows
  <1>1. UNCHANGED args /\ Index' = Index
    BY LoopSteps DEF Index
  <1>2. CASE (HeadsDone \/ ValidateBatch) /\ queue' = Index
    <2>1. Len(Index) \in Nat
      BY <1>2, IndexTyping DEF HeadsDone, ValidateBatch
    <2>2. Passed' = 0 /\ \A i \in DOMAIN Index : i \in Nat /\ 0 + i = i
      BY <1>1, <1>2, <2>1, IndexTyping DEF Passed, HeadsDone, ValidateBatch
    <2>3. QED
      BY <1>1, <1>2, <2>1, <2>2
  <1>3. CASE pc \in InLoop /\ queue # << >> /\ queue' = Tail(queue)
    BY <1>1, <1>3, AtTheFront
  <1>4. CASE pc \in InLoop /\ UNCHANGED queue
    BY <1>1, <1>4 DEF QueueFollows, Passed
  <1>5. QED
    BY <1>2, <1>3, <1>4, LoopSteps

(* A reason without a row is told from an entry that has not been derived. *)
LEMMA Shapes ==
  ASSUME NEW reason
  PROVE  /\ NoRow(reason).row = NoFile
         /\ NoRow(reason).reason = reason
         /\ NoRow(reason).state = "none"
         /\ reason # "none" => NoRow(reason) # NotDerived
  BY DEF NoRow, NotDerived

(* The steps that change an outcome, and what to.                          *)
Settles(e) ==
  /\ pc \in {"derive"} \cup Inside
  /\ queue # << >>
  /\ e = Current
  /\ \/ \E reason \in Derivable \ {"none"} : Settle(NoRow(reason))
     \/ \E row \in Rows : Settle([NotDerived EXCEPT !.row = row])

Withdraws(e) ==
  /\ WithoutRoot \/ ValidateBatch
  /\ Candidate(e)
  /\ \E reason \in Derivable \ {"none"} : outcomes'[e] = NoRow(reason)

Writes(e) ==
  /\ WriteRow
  /\ e = Current

(* An outcome is cleared at a start, settled, withdrawn, or written over.  *)
LEMMA OutcomeSteps ==
  ASSUME Inv, [Next]_vars, NEW e \in Runs, outcomes'[e] # outcomes[e]
  PROVE  \/ pc' = "idle" /\ outcomes'[e] = NotDerived
         \/ Settles(e)
         \/ Withdraws(e)
         \/ Writes(e)
  <1> USE DEF Inv
  <1>1. ASSUME NEW outcome, Settle(outcome), pc \in {"derive"} \cup Inside, queue # << >>
        PROVE  e = Current
    BY <1>1 DEF Settle, TypeOK
  <1>2. CASE StreamStep
    <2>1. Current \in Runs /\ Entry[Current] \in EntryType
      BY <1>2, CurrentTyping, EntryAssumption DEF StreamStep
    <2>2. PICK reason : /\ reason = Then(IF Entry[Current].stream = "settles" THEN "none"
                                          ELSE Entry[Current].stream,
                                         IF Entry[Current].named = "both" THEN "none"
                                          ELSE Entry[Current].named)
                        /\ reason # "none" /\ Settle(NoRow(reason))
      BY <1>2 DEF StreamStep
    <2>3. reason \in Derivable
      BY <2>1, <2>2 DEF EntryType, Then, Derivable, Reasons, StreamReasons
    <2>4. QED
      BY <1>1, <1>2, <2>2, <2>3 DEF StreamStep, Settles
  <1>3. CASE Read
    <2>1. queue # << >> /\ pc \in Kinds
      BY <1>3, CurrentTyping DEF Read, Inside
    <2>2. PICK g : /\ Refusal(pc, Current, g) # "none"
                   /\ Settle(NoRow(Refusal(pc, Current, g)))
      BY <1>3 DEF Read
    <2>3. QED
      BY <1>1, <2>1, <2>2, RefusalTyping DEF Settles, Inside
  <1>4. CASE AssemblyStep
    <2>1. queue # << >> /\ pc \in Inside
      BY <1>4, CurrentTyping DEF AssemblyStep, Inside
    <2>2. CASE Settle(NoRow("publisher-as-agent"))
      BY <1>1, <2>1, <2>2 DEF Settles, Derivable, Reasons, StreamReasons
    <2>3. CASE Settle([NotDerived EXCEPT !.row = RowOf(Current, got)])
      BY <1>1, <1>4, <2>1, <2>3, Assembled DEF Settles, AssemblyStep
    <2>4. QED
      BY <1>4, <2>2, <2>3 DEF AssemblyStep
  <1>5. CASE WithoutRoot \/ ValidateBatch
    <2>1. {"visibility-not-public", "validator-refused"} \subseteq Derivable \ {"none"}
      BY DEF Derivable, Reasons
    <2>2. QED
      BY <1>5, <2>1 DEF WithoutRoot, ValidateBatch, Withdraws
  <1>6. CASE WriteRow
    BY <1>6 DEF WriteRow, Writes, TypeOK
  <1>7. CASE ReadFails \/ IdentityMismatch \/ Report \/ CacheBreaks
    BY <1>7 DEF ReadFails, IdentityMismatch, Report, CacheBreaks, End
  <1>8. CASE HeadOf \/ HeadsDone \/ NotChosen \/ DeriveDone \/ NotACandidate \/ BatchDone
    BY <1>8 DEF HeadOf, HeadsDone, NotChosen, DeriveDone, NotACandidate, BatchDone
  <1>9. CASE Environment
    BY <1>9 DEF Environment, Start, StartRefused, Crash, CrashInCacheWrite, CrashInRowWrite,
                HostMoves, End
  <1>10. QED
    BY <1>2, <1>3, <1>4, <1>5, <1>6, <1>7, <1>8, <1>9 DEF Next, Producer, vars

(* write_row leaves the row it was given in its place, or gives the run    *)
(* the reason that another file is there.                                  *)
LEMMA Written ==
  ASSUME Inv, NEW e \in Runs, Writes(e), NEW row, row = outcomes[e].row
  PROVE  /\ row \in Rows /\ row.visibility = batch
         /\ \/ /\ outcomes'[e].row = row
               /\ outcomes'[e].reason = outcomes[e].reason
               /\ outcomes'[e].state \in {"new", "skip"}
               /\ inbox'[<<row.visibility, row.day, e>>] = row
            \/ /\ outcomes'[e] = NoRow("row-exists-differs")
               /\ Rooted(row.visibility, row.day, e)'
  <1>1. PICK place \in Places : /\ place = PlaceOf(row)
                                /\ place = <<row.visibility, row.day, e>>
    BY CandidateTyping DEF Inv, Writes, WriteRow
  <1>2. row \in Rows /\ row.visibility = batch
    BY CandidateTyping DEF Inv, Writes, WriteRow, Candidate
  <1>3. row # NoFile
    BY <1>2, Typing
  <1>4. CASE /\ inbox[place] = row /\ UNCHANGED inbox
             /\ outcomes' = [outcomes EXCEPT ![e].state = "skip"]
    BY <1>1, <1>2, <1>4 DEF Inv, TypeOK, Outcome
  <1>5. CASE /\ inbox[place] \notin {row, NoFile} /\ UNCHANGED inbox
             /\ outcomes' = [outcomes EXCEPT ![e] = NoRow("row-exists-differs")]
    BY <1>1, <1>2, <1>5 DEF Inv, TypeOK, Rooted
  <1>6. CASE /\ inbox' = [inbox EXCEPT ![place] = row]
             /\ outcomes' = [outcomes EXCEPT ![e].state = "new"]
    BY <1>1, <1>2, <1>6 DEF Inv, TypeOK, Outcome
  <1>7. QED
    BY <1>1, <1>4, <1>5, <1>6 DEF Writes, WriteRow

(* An entry that came to an outcome keeps one while the invocation lives.  *)
LEMMA DerivedStays ==
  ASSUME Inv, [Next]_vars, NEW e \in Runs, outcomes[e] # NotDerived, pc' # "idle"
  PROVE  outcomes'[e] # NotDerived
  <1>1. CASE outcomes'[e] = outcomes[e]
    BY <1>1
  <1>2. CASE Settles(e)
    <2>1. \A row \in Rows : [NotDerived EXCEPT !.row = row] # NotDerived
      BY Typing DEF NotDerived
    <2>2. outcomes' = [outcomes EXCEPT ![e] = outcomes'[e]]
      BY <1>2 DEF Settles, Settle, Inv, TypeOK
    <2>3. QED
      BY <1>2, <2>1, Shapes DEF Settles, Settle, Inv, TypeOK
  <1>3. CASE Withdraws(e)
    BY <1>3, Shapes DEF Withdraws
  <1>4. CASE Writes(e)
    <2>1. outcomes'[e].row \in Rows \/ outcomes'[e] = NoRow("row-exists-differs")
      BY <1>4, Written
    <2>2. QED
      BY <2>1, Shapes, Typing DEF NotDerived
  <1>5. QED
    BY <1>1, <1>2, <1>3, <1>4, OutcomeSteps

(* A chosen entry is not passed in the first loop without an outcome.      *)
LEMMA PassedDerived ==
  ASSUME Inv, [Next]_vars, pc \in {"derive"} \cup Inside, pc' # "idle", queue # << >>,
         queue' = Tail(queue), Chosen(Current)
  PROVE  outcomes'[Current] # NotDerived
  <1>1. Current \in Runs /\ queue' # queue
    BY CurrentTyping DEF Inv, TypeOK
  <1>2. ASSUME NEW outcome, Settle(outcome)
        PROVE  outcomes'[Current] = outcome
    BY <1>1, <1>2 DEF Settle, Inv, TypeOK
  <1>3. CASE StreamStep
    BY <1>1, <1>2, <1>3, Shapes DEF StreamStep
  <1>4. CASE Read
    BY <1>1, <1>2, <1>4, Shapes DEF Read
  <1>5. CASE AssemblyStep
    <2>1. RowOf(Current, got) # NoFile
      BY <1>5, Assembled, Typing DEF AssemblyStep, Inv
    <2>2. [NotDerived EXCEPT !.row = RowOf(Current, got)] # NotDerived
      BY <2>1 DEF NotDerived
    <2>3. QED
      BY <1>2, <1>5, <2>2, Shapes DEF AssemblyStep
  <1>6. CASE HeadOf \/ HeadsDone \/ NotChosen \/ DeriveDone
    BY <1>6 DEF HeadOf, HeadsDone, NotChosen, DeriveDone, Inside, Kinds
  <1>7. CASE WithoutRoot \/ ValidateBatch \/ NotACandidate \/ WriteRow \/ BatchDone
    BY <1>7 DEF WithoutRoot, ValidateBatch, NotACandidate, WriteRow, BatchDone, Inside, Kinds
  <1>8. CASE ReadFails \/ IdentityMismatch \/ Report \/ CacheBreaks
    BY <1>8 DEF ReadFails, IdentityMismatch, Report, CacheBreaks, End
  <1>9. CASE Environment
    BY <1>1, <1>9 DEF Environment, Start, StartRefused, Crash, CrashInCacheWrite,
                      CrashInRowWrite, HostMoves, End, Inside, Kinds
  <1>10. QED
    BY <1>1, <1>3, <1>4, <1>5, <1>6, <1>7, <1>8, <1>9 DEF Next, Producer, vars

(* The batches come after the first loop, over the same arguments.         *)
Batches == {"batch", "write", "report"}

(* From a batch one comes to a batch, from the first loop by its end only. *)
LEMMA BatchSteps ==
  ASSUME Inv, [Next]_vars, pc' \in Batches
  PROVE  /\ UNCHANGED args
         /\ pc \in Batches \/ DeriveDone
  <1>1. CASE UNCHANGED vars
    BY <1>1 DEF vars
  <1>2. CASE Read
    BY <1>2, NextFetchTyping DEF Read, Settle, Batches, Inside, Kinds
  <1>3. CASE HeadOf \/ HeadsDone \/ NotChosen \/ StreamStep \/ AssemblyStep \/ DeriveDone
    BY <1>3 DEF HeadOf, HeadsDone, NotChosen, StreamStep, AssemblyStep, Settle, DeriveDone,
                Batches
  <1>4. CASE WithoutRoot \/ ValidateBatch \/ NotACandidate \/ WriteRow \/ BatchDone
    BY <1>4 DEF WithoutRoot, ValidateBatch, NotACandidate, WriteRow, BatchDone, Batches
  <1>5. CASE ReadFails \/ IdentityMismatch \/ Report \/ CacheBreaks
    BY <1>5 DEF ReadFails, IdentityMismatch, Report, CacheBreaks, End, Batches
  <1>6. CASE Environment
    BY <1>6 DEF Environment, Start, StartRefused, Crash, CrashInCacheWrite, CrashInRowWrite,
                HostMoves, End, Batches
  <1>7. QED
    BY <1>1, <1>2, <1>3, <1>4, <1>5, <1>6 DEF Next, Producer

(* Every chosen entry comes to its outcome in turn, and keeps one.         *)
LEMMA AllDerivedStep ==
  ASSUME Inv, QueueFollows, AllDerived, [Next]_vars
  PROVE  AllDerived'
  <1>1. ASSUME NEW i \in DOMAIN Index, Derived(i), UNCHANGED args, pc # "idle", pc' # "idle"
        PROVE  Derived(i)'
    <2>1. Index[i] \in Runs /\ Index' = Index
      BY <1>1, IndexTyping DEF Inv, Index
    <2>2. QED
      BY <1>1, <2>1, DerivedStays DEF Derived, Chosen
  <1>2. ASSUME pc' \in {"derive"} \cup Inside, NEW i \in 1 .. Passed'
        PROVE  Derived(i)'
    <2>1. pc' \in InLoop /\ pc' \notin {"idle", "write"}
      BY <1>2 DEF InLoop, Inside, Kinds
    <2>2. UNCHANGED args /\ Index' = Index
      BY <2>1, LoopSteps DEF Inv, Index
    <2>3. CASE (HeadsDone \/ ValidateBatch) /\ queue' = Index
      <3>1. Len(Index) \in Nat
        BY <2>3, IndexTyping DEF HeadsDone, ValidateBatch, Inv
      <3>2. Passed' = 0
        BY <2>2, <2>3, <3>1 DEF Passed
      <3>3. QED
        BY <1>2, <3>2
    <2>4. CASE pc \in InLoop \ {"write"} /\ queue # << >> /\ queue' = Tail(queue)
      <3>1. pc \in {"derive"} \cup Inside /\ pc # "idle"
        BY <2>4 DEF InLoop, Inside, Kinds
      <3>2. /\ Passed \in Nat /\ Passed' = Passed + 1
            /\ Passed + 1 \in DOMAIN Index /\ Current = Index[Passed + 1]
        BY <2>2, <2>4, AtTheFront DEF Inv
      <3>3. CASE i = Passed + 1
        BY <2>1, <2>2, <2>4, <3>1, <3>2, <3>3, PassedDerived DEF Derived, Chosen
      <3>4. CASE i # Passed + 1
        <4>1. i \in 1 .. Passed
          BY <1>2, <3>2, <3>4
        <4>2. i \in DOMAIN Index
          BY <3>1, <3>2, <4>1, IndexTyping DEF Inv
        <4>3. QED
          BY <1>1, <2>1, <2>2, <3>1, <4>1, <4>2 DEF AllDerived
      <3>5. QED
        BY <3>3, <3>4
    <2>5. CASE pc \in InLoop \ {"write"} /\ UNCHANGED queue
      <3>1. pc \in {"derive"} \cup Inside /\ pc # "idle"
        BY <2>5 DEF InLoop, Inside, Kinds
      <3>2. Passed' = Passed
        BY <2>2, <2>5 DEF Passed
      <3>3. i \in DOMAIN Index
        BY <1>2, <2>5, <3>1, <3>2, IndexTyping DEF Inv, TypeOK, Passed
      <3>4. QED
        BY <1>1, <1>2, <2>1, <2>2, <3>1, <3>2, <3>3 DEF AllDerived
    <2>6. QED
      BY <2>1, <2>3, <2>4, <2>5, LoopSteps DEF Inv
  <1>3. ASSUME pc' \in Batches, NEW i \in DOMAIN Index'
        PROVE  Derived(i)'
    <2>1. UNCHANGED args /\ Index' = Index /\ pc' # "idle"
      BY <1>3, BatchSteps DEF Index, Batches
    <2>2. CASE pc \in Batches
      BY <1>1, <1>3, <2>1, <2>2 DEF AllDerived, Batches
    <2>3. CASE DeriveDone
      <3>1. pc = "derive" /\ queue = << >>
        BY <2>3 DEF DeriveDone
      <3>2. Passed = Len(Index) /\ DOMAIN Index = 1 .. Len(Index)
        BY <3>1, IndexTyping DEF Inv, Passed
      <3>3. QED
        BY <1>1, <1>3, <2>1, <3>1, <3>2 DEF AllDerived
    <2>4. QED
      BY <1>3, <2>2, <2>3, BatchSteps
  <1>4. QED
    BY <1>2, <1>3 DEF AllDerived, Batches

(* An entry settles with a reason or with a row.                           *)
LEMMA Settled ==
  ASSUME Inv, NEW e \in Runs, Settles(e)
  PROVE  \/ \E reason \in Derivable \ {"none"} : outcomes'[e] = NoRow(reason)
         \/ \E row \in Rows : outcomes'[e] = [NotDerived EXCEPT !.row = row]
  BY DEF Settles, Settle, Inv, TypeOK

(* No outcome is a row and a reason.                                       *)
LEMMA ShapedStep ==
  ASSUME Inv, Shaped, [Next]_vars
  PROVE  Shaped'
  <1> SUFFICES ASSUME NEW e \in Runs
               PROVE  (/\ outcomes[e].row # NoFile => outcomes[e].reason = "none"
                       /\ outcomes[e].row = NoFile => outcomes[e].state = "none")'
    BY DEF Shaped
  <1>1. CASE outcomes'[e] = outcomes[e]
    BY <1>1 DEF Shaped
  <1>2. CASE outcomes'[e] = NotDerived
    BY <1>2 DEF NotDerived
  <1>3. ASSUME NEW reason, outcomes'[e] = NoRow(reason)
        PROVE  outcomes'[e].row = NoFile /\ outcomes'[e].state = "none"
    BY <1>3, Shapes
  <1>4. CASE Settles(e)
    BY <1>3, <1>4, Settled, Typing DEF NotDerived
  <1>5. CASE Withdraws(e)
    BY <1>3, <1>5 DEF Withdraws
  <1>6. CASE Writes(e)
    <2>1. outcomes[e].row \in Rows
      BY <1>6, Written
    <2>2. outcomes[e].reason = "none"
      BY <2>1, Typing DEF Shaped
    <2>3. QED
      BY <1>3, <1>6, <2>1, <2>2, Written, Typing
  <1>7. QED
    BY <1>1, <1>2, <1>4, <1>5, <1>6, OutcomeSteps

(* What lies in a place stays there.                                       *)
LEMMA FilesStay ==
  ASSUME Inv, [Next]_vars, NEW place, inbox[place] # NoFile, place \in Places
  PROVE  inbox'[place] = inbox[place]
  <1>1. CASE UNCHANGED inbox
    BY <1>1
  <1>2. CASE \E p, file : inbox[p] = NoFile /\ inbox' = [inbox EXCEPT ![p] = file]
    BY <1>2 DEF Inv, TypeOK
  <1>3. QED
    BY <1>1, <1>2, InboxSteps DEF Inv

(* What an outcome says is there was there or has just been written.       *)
LEMMA StatedIsThereStep ==
  ASSUME Inv, Shaped, StatedIsThere, [Next]_vars
  PROVE  StatedIsThere'
  <1> SUFFICES ASSUME NEW e \in Runs
               PROVE  (LET o == outcomes[e]
                       IN /\ o.state # "none" =>
                               inbox[<<o.row.visibility, o.row.day, e>>] = o.row
                          /\ o.reason = "row-exists-differs" =>
                               \E root \in Visibilities, day \in Days : Rooted(root, day, e))'
    BY DEF StatedIsThere
  <1> DEFINE o == outcomes[e]
  <1>1. CASE outcomes'[e] = outcomes[e]
    <2>1. ASSUME o.state # "none"
          PROVE  inbox'[<<o.row.visibility, o.row.day, e>>] = o.row
      <3>1. o.row \in Rows
        BY <2>1 DEF Shaped, Inv, TypeOK, Outcome
      <3>2. <<o.row.visibility, o.row.day, e>> \in Places
        BY <3>1 DEF Rows, Places
      <3>3. inbox[<<o.row.visibility, o.row.day, e>>] = o.row /\ o.row # NoFile
        BY <2>1, <3>1, Typing DEF StatedIsThere
      <3>4. QED
        BY <3>2, <3>3, FilesStay
    <2>2. ASSUME NEW root \in Visibilities, NEW day \in Days, Rooted(root, day, e)
          PROVE  Rooted(root, day, e)'
      BY <2>2, FilesStay DEF Rooted, Places
    <2>3. QED
      BY <1>1, <2>1, <2>2 DEF StatedIsThere
  <1>2. ASSUME o'.state = "none", o'.reason # "row-exists-differs"
        PROVE  (/\ o.state # "none" => inbox[<<o.row.visibility, o.row.day, e>>] = o.row
                /\ o.reason = "row-exists-differs" =>
                     \E root \in Visibilities, day \in Days : Rooted(root, day, e))'
    BY <1>2
  <1>3. CASE outcomes'[e] = NotDerived
    BY <1>2, <1>3 DEF NotDerived
  <1>4. ASSUME NEW reason \in Derivable, outcomes'[e] = NoRow(reason)
        PROVE  o'.state = "none" /\ o'.reason # "row-exists-differs"
    BY <1>4, Shapes DEF Derivable
  <1>5. CASE Settles(e)
    <2>1. ASSUME NEW row \in Rows, outcomes'[e] = [NotDerived EXCEPT !.row = row]
          PROVE  o'.state = "none" /\ o'.reason # "row-exists-differs"
      BY <2>1 DEF NotDerived
    <2>2. QED
      BY <1>2, <1>4, <1>5, <2>1, Settled
  <1>6. CASE Withdraws(e)
    BY <1>2, <1>4, <1>6 DEF Withdraws
  <1>7. CASE Writes(e)
    <2>1. PICK row \in Rows :
            /\ row = outcomes[e].row
            /\ \/ /\ outcomes'[e].row = row
                  /\ outcomes'[e].reason = outcomes[e].reason
                  /\ inbox'[<<row.visibility, row.day, e>>] = row
               \/ /\ outcomes'[e] = NoRow("row-exists-differs")
                  /\ Rooted(row.visibility, row.day, e)'
      BY <1>7, Written
    <2>2. outcomes[e].reason = "none"
      BY <2>1, Typing DEF Shaped
    <2>3. row.visibility \in Visibilities /\ row.day \in Days
      BY DEF Rows
    <2>4. CASE /\ outcomes'[e].row = row
               /\ outcomes'[e].reason = outcomes[e].reason
               /\ inbox'[<<row.visibility, row.day, e>>] = row
      BY <2>2, <2>4
    <2>5. CASE outcomes'[e] = NoRow("row-exists-differs") /\ Rooted(row.visibility, row.day, e)'
      BY <2>3, <2>5, Shapes
    <2>6. QED
      BY <2>1, <2>4, <2>5
  <1>8. QED
    BY <1>1, <1>3, <1>5, <1>6, <1>7, OutcomeSteps

(* What was taken to its inbox has been, while the batches last.           *)
LEMMA TakenStays ==
  ASSUME Inv, [Next]_vars, NEW v, NEW i \in DOMAIN Index, TakenTo(v, i),
         pc \in {"batch", "write"}, pc' # "idle", UNCHANGED args
  PROVE  TakenTo(v, i)'
  <1>1. PICK e \in Runs : e = Index[i] /\ e = Index'[i]
    BY IndexTyping DEF Inv, Index
  <1>2. CASE outcomes'[e] = outcomes[e]
    BY <1>1, <1>2 DEF TakenTo
  <1>3. ASSUME NEW reason, outcomes'[e] = NoRow(reason)
        PROVE  TakenTo(v, i)'
    BY <1>1, <1>3, Shapes DEF TakenTo
  <1>4. CASE Withdraws(e)
    BY <1>3, <1>4 DEF Withdraws
  <1>5. CASE Writes(e)
    <2>1. outcomes'[e].state # "none" \/ outcomes'[e] = NoRow("row-exists-differs")
      BY <1>5, Written
    <2>2. QED
      BY <1>1, <1>3, <2>1 DEF TakenTo
  <1>6. ~Settles(e)
    BY DEF Settles, Inside, Kinds
  <1>7. QED
    BY <1>2, <1>4, <1>5, <1>6, OutcomeSteps

(* Before the batches the public one is the next, and there is a batch or  *)
(* a report only after the steps that make them.                           *)
LEMMA BatchTurns ==
  ASSUME Inv, [Next]_vars
  PROVE  /\ pc' \in {"idle", "heads", "derive"} \cup Inside =>
              \/ pc \in {"idle", "heads", "derive"} \cup Inside /\ UNCHANGED batch
              \/ batch' = "public"
         /\ pc' = "batch" => \/ pc = "batch" /\ UNCHANGED batch
                             \/ DeriveDone
                             \/ BatchDone /\ batch = "public"
         /\ pc' = "write" => \/ ValidateBatch
                             \/ /\ pc = "write" /\ UNCHANGED batch
                                /\ \/ UNCHANGED queue
                                   \/ NotACandidate
                                   \/ WriteRow
         /\ pc' = "report" => \/ pc = "report" /\ UNCHANGED outcomes
                              \/ WithoutRoot
                              \/ BatchDone /\ batch = "enterprise-private"
  <1> USE DEF Inside, Kinds
  <1>1. CASE UNCHANGED vars
    BY <1>1 DEF vars, Inv, TypeOK, PCs
  <1>2. CASE Read
    <2>1. pc \in Inside /\ UNCHANGED batch
      BY <1>2 DEF Read
    <2>2. PICK g : pc' = "derive" \/ pc' = NextFetch(pc, Current, g)
      BY <1>2 DEF Read, Settle
    <2>3. pc' \in {"derive"} \cup Inside
      BY <1>2, <2>2, NextFetchTyping DEF Read
    <2>4. QED
      BY <2>1, <2>3
  <1>3. CASE HeadOf \/ HeadsDone \/ NotChosen \/ StreamStep \/ AssemblyStep \/ DeriveDone
    BY <1>3 DEF HeadOf, HeadsDone, NotChosen, StreamStep, AssemblyStep, Settle, DeriveDone
  <1>4. CASE WithoutRoot \/ ValidateBatch \/ NotACandidate \/ WriteRow
    BY <1>4 DEF WithoutRoot, ValidateBatch, NotACandidate, WriteRow
  <1>5. CASE BatchDone
    BY <1>5 DEF BatchDone, Inv, TypeOK, Visibilities
  <1>6. CASE ReadFails \/ IdentityMismatch \/ Report \/ CacheBreaks
    BY <1>6 DEF ReadFails, IdentityMismatch, Report, CacheBreaks, End
  <1>7. CASE Environment
    BY <1>7 DEF Environment, Start, StartRefused, Crash, CrashInCacheWrite, CrashInRowWrite,
                HostMoves, End, Inv, TypeOK, PCs
  <1>8. QED
    BY <1>1, <1>2, <1>3, <1>4, <1>5, <1>6, <1>7 DEF Next, Producer

(* The second batch follows a whole first one, and the report both.        *)
LEMMA BatchesInTurnStep ==
  ASSUME Inv, QueueFollows, BatchesInTurn, [Next]_vars
  PROVE  BatchesInTurn'
  <1>1. ASSUME pc' \in {"idle", "heads", "derive"} \cup Inside
        PROVE  batch' = "public"
    BY <1>1, BatchTurns DEF BatchesInTurn
  <1>2. ASSUME pc' \in Batches
        PROVE  UNCHANGED args /\ Index' = Index /\ pc' # "idle"
    BY <1>2, BatchSteps DEF Index, Batches
  <1>3. ASSUME pc = "write", queue = << >>, NEW i \in DOMAIN Index
        PROVE  TakenTo(batch, i)
    <2>1. i \in 1 .. Passed
      BY <1>3, IndexTyping DEF Inv, Passed
    <2>2. QED
      BY <1>3, <2>1 DEF BatchesInTurn
  <1>4. ASSUME pc' \in {"batch", "write"}, batch' # "public", NEW i \in DOMAIN Index'
        PROVE  TakenTo("public", i)'
    <2>1. i \in DOMAIN Index /\ UNCHANGED args /\ pc' # "idle"
      BY <1>2, <1>4 DEF Batches
    <2>2. CASE pc \in {"batch", "write"} /\ batch' = batch
      BY <1>4, <2>1, <2>2, TakenStays DEF BatchesInTurn
    <2>3. CASE BatchDone /\ batch = "public"
      BY <1>3, <2>1, <2>3, TakenStays DEF BatchDone
    <2>4. ~DeriveDone
      BY <1>4 DEF DeriveDone, BatchesInTurn
    <2>5. CASE ValidateBatch
      BY <2>2, <2>5 DEF ValidateBatch
    <2>6. QED
      BY <1>4, <2>2, <2>3, <2>4, <2>5, BatchTurns
  <1>5. ASSUME pc' = "write", NEW i \in 1 .. Passed'
        PROVE  TakenTo(batch, i)'
    <2>1. UNCHANGED args /\ Index' = Index
      BY <1>2, <1>5 DEF Batches
    <2>2. CASE ValidateBatch
      <3>1. Passed' = 0
        BY <2>1, <2>2, IndexTyping DEF ValidateBatch, Inv, Passed
      <3>2. QED
        BY <1>5, <3>1
    <2>3. ASSUME pc = "write", UNCHANGED batch, i \in 1 .. Passed, i \in DOMAIN Index
          PROVE  TakenTo(batch, i)'
      <3>1. TakenTo(batch, i)
        BY <2>3 DEF BatchesInTurn
      <3>2. PICK v : v = batch /\ v = batch'
        BY <2>3
      <3>3. TakenTo(v, i)'
        BY <1>5, <2>1, <2>3, <3>1, <3>2, TakenStays
      <3>4. QED
        BY <3>2, <3>3 DEF TakenTo
    <2>4. CASE pc = "write" /\ UNCHANGED <<batch, queue>>
      <3>1. i \in 1 .. Passed
        BY <1>5, <2>1, <2>4 DEF Passed
      <3>2. i \in DOMAIN Index
        BY <2>4, <3>1, IndexTyping DEF Inv, TypeOK, Passed
      <3>3. QED
        BY <2>3, <2>4, <3>1, <3>2
    <2>5. CASE pc = "write" /\ UNCHANGED batch /\ (NotACandidate \/ WriteRow)
      <3>1. queue # << >> /\ queue' = Tail(queue) /\ pc \in InLoop
        BY <2>5 DEF NotACandidate, WriteRow, InLoop
      <3>2. /\ Passed \in Nat /\ Passed' = Passed + 1
            /\ Passed + 1 \in DOMAIN Index /\ Current = Index[Passed + 1]
        BY <2>1, <3>1, AtTheFront DEF Inv
      <3>3. CASE i = Passed + 1
        <4>1. PICK e \in Runs : e = Current /\ e = Index'[i]
          BY <2>1, <3>1, <3>2, <3>3, CurrentTyping DEF Inv
        <4>2. CASE NotACandidate
          BY <2>5, <4>1, <4>2 DEF NotACandidate, Candidate, TakenTo
        <4>3. CASE WriteRow
          <5>1. outcomes'[e].state # "none" \/ outcomes'[e] = NoRow("row-exists-differs")
            BY <4>1, <4>3, Written DEF Writes
          <5>2. QED
            BY <4>1, <5>1, Shapes DEF TakenTo
        <4>4. QED
          BY <2>5, <4>2, <4>3
      <3>4. CASE i # Passed + 1
        <4>1. i \in 1 .. Passed
          BY <1>5, <3>2, <3>4
        <4>2. i \in DOMAIN Index
          BY <2>5, <3>2, <4>1, IndexTyping DEF Inv
        <4>3. QED
          BY <2>3, <2>5, <4>1, <4>2
      <3>5. QED
        BY <3>3, <3>4
    <2>6. QED
      BY <1>5, <2>2, <2>4, <2>5, BatchTurns
  <1>6. ASSUME pc' = "report", NEW i \in DOMAIN Index', NEW v \in Visibilities
        PROVE  TakenTo(v, i)'
    <2>1. i \in DOMAIN Index /\ UNCHANGED args /\ pc' # "idle" /\ Index' = Index
      BY <1>2, <1>6 DEF Batches
    <2>2. CASE pc = "report" /\ UNCHANGED outcomes
      BY <2>1, <2>2 DEF BatchesInTurn, TakenTo
    <2>3. CASE WithoutRoot
      <3>1. CASE v = "public"
        BY <2>1, <2>3, <3>1, TakenStays DEF WithoutRoot, BatchesInTurn
      <3>2. CASE v = "enterprise-private"
        <4>1. PICK e \in Runs : e = Index'[i]
          BY <2>1, <2>3, IndexTyping DEF WithoutRoot, Inv
        <4>2. \/ outcomes'[e] = NoRow("visibility-not-public")
              \/ outcomes'[e] = outcomes[e] /\ ~Candidate(e)
          BY <2>3 DEF WithoutRoot
        <4>3. batch = v
          BY <2>3, <3>2 DEF WithoutRoot
        <4>4. QED
          BY <4>1, <4>2, <4>3, Shapes DEF TakenTo, Candidate
      <3>3. QED
        BY <3>1, <3>2 DEF Visibilities
    <2>4. CASE BatchDone /\ batch = "enterprise-private"
      <3>1. TakenTo("public", i) /\ TakenTo("enterprise-private", i)
        BY <1>3, <2>1, <2>4 DEF BatchDone, BatchesInTurn
      <3>2. UNCHANGED outcomes
        BY <2>4 DEF BatchDone
      <3>3. QED
        BY <2>1, <3>1, <3>2 DEF TakenTo, Visibilities
    <2>5. QED
      BY <1>6, <2>2, <2>3, <2>4, BatchTurns
  <1>7. QED
    BY <1>1, <1>4, <1>5, <1>6 DEF BatchesInTurn

(* No step of the producer makes the log say what the inboxes do not.      *)
LEMMA LogStep == Inv /\ LogInv /\ [Next]_vars => LogInv'
  BY QueueFollowsStep, AllDerivedStep, ShapedStep, StatedIsThereStep, BatchesInTurnStep
     DEF Inv, LogInv

(* What the producer keeps of its loops and outcomes, always.              *)
THEOREM LogInvariance == Spec => [](Inv /\ LogInv)
  <1>1. Init => LogInv
    <2> SUFFICES ASSUME Init PROVE LogInv
      OBVIOUS
    <2>1. pc = "idle" /\ pc \notin InLoop
      BY DEF Init, InLoop, Inside, Kinds
    <2>2. \A e \in Runs : outcomes[e] = NotDerived
      BY DEF Init
    <2>3. Shaped /\ StatedIsThere
      BY <2>2 DEF Shaped, StatedIsThere, NotDerived
    <2>4. QED
      BY <2>1, <2>3 DEF Init, LogInv, QueueFollows, AllDerived, BatchesInTurn, Inside, Kinds
  <1>2. Inv /\ LogInv /\ [Next]_vars => LogInv'
    BY LogStep
  <1>3. QED
    BY <1>1, <1>2, Invariance, PTL DEF Spec

(* What the log says when it is printed is what the inboxes hold, for      *)
(* every index, every choice of --only and --private-out, and whatever     *)
(* earlier invocations, killed ones among them, have left there.           *)
THEOREM LogIsTrue == Spec => []LogMatchesInbox
  <1>1. Inv /\ LogInv => LogMatchesInbox
    <2> SUFFICES ASSUME Inv, LogInv, pc = "report", NEW i \in DOMAIN Index, Chosen(Index[i]),
                        NEW e, e = Index[i], NEW o, o = outcomes[e]
                 PROVE  /\ o.row # NoFile <=> o.reason = "none"
                        /\ o.row # NoFile <=> o.state \in {"new", "skip"}
                        /\ o.row # NoFile => inbox[<<o.row.visibility, o.row.day, e>>] = o.row
                        /\ o.reason = "row-exists-differs" =>
                             \E root \in Visibilities, day \in Days : Rooted(root, day, e)
      BY DEF LogMatchesInbox
    <2>1. e \in Runs /\ o \in Outcome
      BY IndexTyping DEF Inv, TypeOK
    <2>2. o # NotDerived
      BY DEF LogInv, AllDerived, Derived
    <2>3. /\ o.row # NoFile => o.reason = "none"
          /\ o.row = NoFile => o.state = "none"
      BY <2>1 DEF LogInv, Shaped
    <2>4. ~(o.row = NoFile /\ o.reason = "none" /\ o.state = "none")
      BY <2>1, <2>2 DEF Outcome, NotDerived
    <2>5. o.row # NoFile => o.state # "none"
      <3>1. o.row # NoFile => o.row.visibility \in Visibilities
        BY <2>1 DEF Outcome, Rows
      <3>2. QED
        BY <3>1 DEF LogInv, BatchesInTurn, TakenTo
    <2>6. o.state \in {"none", "new", "skip"}
      BY <2>1 DEF Outcome
    <2>7. /\ o.state # "none" => inbox[<<o.row.visibility, o.row.day, e>>] = o.row
          /\ o.reason = "row-exists-differs" =>
               \E root \in Visibilities, day \in Days : Rooted(root, day, e)
      BY <2>1 DEF LogInv, StatedIsThere
    <2>8. QED
      BY <2>3, <2>4, <2>5, <2>6, <2>7
  <1>2. QED
    BY <1>1, LogInvariance, PTL

(* While rows are written, the batch they are of has been validated.       *)
BatchAdmitted == pc = "write" => \A e \in Runs : Candidate(e) => Entry[e].admitted

LEMMA BatchAdmittedStep ==
  ASSUME Inv, BatchAdmitted, [Next]_vars
  PROVE  BatchAdmitted'
  <1>1. CASE pc' # "write"
    BY <1>1 DEF BatchAdmitted
  <1>2. CASE UNCHANGED <<pc, batch, outcomes>>
    BY <1>2 DEF BatchAdmitted, Candidate
  <1>3. CASE ValidateBatch
    BY <1>3 DEF ValidateBatch, BatchAdmitted, Candidate, NoRow, NotDerived
  <1>4. CASE WriteRow
    <2>1. \A e \in Runs : outcomes'[e].row \in {outcomes[e].row, NoFile}
      BY <1>4 DEF WriteRow, NoRow, NotDerived, Inv, TypeOK, Outcome
    <2>2. QED
      BY <1>4, <2>1 DEF WriteRow, BatchAdmitted, Candidate
  <1>5. CASE HeadOf \/ NotChosen \/ NotACandidate
    BY <1>1, <1>2, <1>5 DEF HeadOf, NotChosen, NotACandidate
  <1>6. CASE HeadsDone \/ StreamStep \/ AssemblyStep \/ DeriveDone \/ WithoutRoot \/ BatchDone
    BY <1>1, <1>6 DEF HeadsDone, StreamStep, AssemblyStep, Settle, DeriveDone, WithoutRoot,
                      BatchDone
  <1>7. CASE Read
    <2>1. CASE pc' = NextFetch(pc, Current, got')
      BY <1>1, <1>7, <2>1, NextFetchTyping DEF Read, Inside, Kinds
    <2>2. QED
      BY <1>1, <1>7, <2>1 DEF Read, Settle
  <1>8. CASE ReadFails \/ IdentityMismatch \/ Report \/ CacheBreaks
    BY <1>1, <1>8 DEF ReadFails, IdentityMismatch, Report, CacheBreaks, End
  <1>9. CASE Environment
    BY <1>1, <1>2, <1>9 DEF Environment, Start, StartRefused, Crash, CrashInCacheWrite,
                            CrashInRowWrite, HostMoves, End
  <1>10. QED
    BY <1>2, <1>3, <1>4, <1>5, <1>6, <1>7, <1>8, <1>9 DEF Next, Producer, vars

(* A file is created only after every chosen entry has come to its outcome *)
(* and every row left of its batch is one the validator admits, however    *)
(* long the index is and wherever a call goes unanswered.                  *)
THEOREM WholeBatches == Spec => NoRowFromAPartialBatch
  <1>1. ASSUME Inv, LogInv, BatchAdmitted, [Next]_vars
        PROVE  [inbox' # inbox =>
                  /\ \A i \in DOMAIN Index :
                       Chosen(Index[i]) => outcomes[Index[i]] # NotDerived
                  /\ \A e \in Runs : Candidate(e) => Entry[e].admitted]_vars
    <2>1. inbox' # inbox => pc = "write"
      BY <1>1, InboxSteps DEF Inv
    <2>2. QED
      BY <1>1, <2>1 DEF LogInv, AllDerived, Derived, BatchAdmitted
  <1>2. Init => BatchAdmitted
    BY DEF Init, BatchAdmitted
  <1>3. Inv /\ BatchAdmitted /\ [Next]_vars => BatchAdmitted'
    BY BatchAdmittedStep
  <1>4. QED
    BY <1>1, <1>2, <1>3, LogInvariance, PTL DEF Spec, NoRowFromAPartialBatch

=============================================================================
