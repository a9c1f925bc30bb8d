------------------------------- MODULE Prices -------------------------------
(***************************************************************************)
(* What a run would have been billed.  Price lists are published once they *)
(* pass tools/price_list_validate.py and are never edited; from then on    *)
(* tools/api_equivalent.py prices a run by the list in force on its day,   *)
(* request by request, from whichever file carries the run's events.       *)
(*                                                                         *)
(* A list is [dirs, stem, vendor, effective_date, price_list_id, models]:  *)
(* where it sits and what it says.  `models` gives each model id its tiers *)
(* and a tier is [max, price].  Prices are exact: a number of some unit.   *)
(* An event is a line of a stream, [kind, id, model, usage], and a usage   *)
(* is [input, output, read, written, split].                               *)
(***************************************************************************)
EXTENDS Naturals, Sequences, FiniteSets, FiniteSetsExt, SequencesExt, Functions

CONSTANTS
  Lists,       \* the lists somebody may propose
  Runs,        \* the rows a figure may be asked for
  Row,         \* what each states: [vendor, day]
  Events,      \* the events each run's stream carries
  Unbounded,   \* a tier without a bound
  NotADate,    \* a file name that is no date
  NotAPrice,   \* anything but a non-negative decimal string
  NotACount,   \* anything but a non-negative integer
  NoSplit,     \* a usage that does not say how long the cache was written for
  NoId,        \* a message without an id
  NoVendor,    \* a row whose provider is no vendor's name, or that has no day
  None         \* no list, no figure

CLASSES == {"input", "output", "cache_write_5m", "cache_write_1h", "cache_read"}
SYNTHETIC == "<synthetic>"

Counts(usage) == {usage.input, usage.output, usage.read, usage.written}

(* Whatever a list says, it says of sequences, bounds and days.            *)
ASSUME ListsAssumption ==
  /\ None \notin Lists
  /\ NotADate \notin Nat /\ {Unbounded, NotACount} \cap Nat = {}
  /\ \A l \in Lists :
       /\ l.dirs \in Seq(Range(l.dirs))
       /\ l.stem \in Nat \cup {NotADate}
       /\ l.price_list_id # None
       /\ \A model \in DOMAIN l.models :
            /\ l.models[model] \in Seq(Range(l.models[model]))
            /\ \A i \in DOMAIN l.models[model] :
                 /\ l.models[model][i].max \in Nat \cup {Unbounded, NotACount}
                 /\ \A class \in CLASSES :
                      l.models[model][i].price[class] \in Nat \cup {NotAPrice}

(* A stream ends, and a usage's counts are numbers or no counts at all.    *)
ASSUME RunsAssumption ==
  \A r \in Runs :
    /\ Row[r].vendor = NoVendor \/ Row[r].day \in Nat
    /\ IsFiniteSet(Events[r])
    /\ \A e \in {d \in Events[r] : d.kind = "assistant"} :
         /\ Counts(e.usage) \subseteq Nat \cup {NotACount}
         /\ \/ e.usage.split = NoSplit
            \/ {e.usage.split.five, e.usage.split.hour} \subseteq Nat \cup {NotACount}

-----------------------------------------------------------------------------
(* price_list_validate.py.                                                 *)

Finite(bound) == bound \notin {Unbounded, NotACount}

(* A defect to check against: the label is not compared.                   *)
PlacedAnyLabel(l) == Len(l.dirs) = 1 /\ l.stem = l.effective_date /\ l.dirs[1] = l.vendor

(* A list is found by its vendor and its date, and its label is both.      *)
PlacedRight(l) ==
  /\ Len(l.dirs) = 1
  /\ l.stem = l.effective_date
  /\ l.dirs[1] = l.vendor
  /\ l.price_list_id = <<l.vendor, l.effective_date>>

(* A defect to check against: the last tier may be bounded too.            *)
BoundsAscendOnly(tiers) ==
  /\ tiers # << >>
  /\ \A i \in DOMAIN tiers \ {Len(tiers)} : Finite(tiers[i].max)
  /\ \A i \in 1..(Len(tiers) - 2) : tiers[i].max < tiers[i + 1].max

(* The bounds ascend strictly and only the last tier has none.             *)
BoundsAscend(tiers) ==
  /\ tiers # << >>
  /\ Last(tiers).max = Unbounded
  /\ \A i \in DOMAIN tiers \ {Len(tiers)} : Finite(tiers[i].max)
  /\ \A i \in 1..(Len(tiers) - 2) : tiers[i].max < tiers[i + 1].max

PricesRead(tiers) ==
  \A i \in DOMAIN tiers : \A class \in CLASSES : tiers[i].price[class] # NotAPrice

Valid(l) ==
  /\ PlacedRight(l)
  /\ \A model \in DOMAIN l.models :
       /\ model # SYNTHETIC     \* no id of agent.model_id's spelling
       /\ BoundsAscend(l.models[model])
       /\ PricesRead(l.models[model])

-----------------------------------------------------------------------------
(* api_equivalent.py: the list.                                            *)

(* A vendor's directory, and the names in it that are dates.               *)
Eligible(lists, vendor, day) ==
  {l \in lists : l.dirs = <<vendor>> /\ l.stem # NotADate /\ l.stem <= day}

(* A defect to check against: the latest of all.                           *)
ListAnyDay(lists, vendor, day) ==
  LET dated == {l \in lists : l.dirs = <<vendor>> /\ l.stem # NotADate}
  IN IF dated = {} THEN None ELSE CHOOSE l \in dated : \A k \in dated : k.stem <= l.stem

ListInForce(lists, vendor, day) ==
  LET eligible == Eligible(lists, vendor, day)
  IN IF eligible = {} THEN None
     ELSE CHOOSE l \in eligible : \A k \in eligible : k.stem <= l.stem

(* The first tier whose bound the prompt does not exceed, or none.         *)
PickTier(tiers, prompt) ==
  LET fits == {i \in DOMAIN tiers : tiers[i].max = Unbounded \/ prompt <= tiers[i].max}
  IN IF fits = {} THEN None ELSE Min(fits)

TierLabel(tiers, i) ==
  IF tiers[i].max # Unbounded THEN <<"up to", tiers[i].max>>
  ELSE IF i > 1 THEN <<"above", tiers[i - 1].max>> ELSE <<"all">>

-----------------------------------------------------------------------------
(* api_equivalent.py: one request.                                         *)

(* A cache write without its lifetimes, or whose lifetimes are not what    *)
(* was written, is not guessed at.                                         *)
TokensKnown(usage) ==
  /\ NotACount \notin Counts(usage)
  /\ IF usage.split = NoSplit THEN usage.written = 0
     ELSE /\ NotACount \notin {usage.split.five, usage.split.hour}
          /\ usage.split.five + usage.split.hour = usage.written

TokensOf(usage) ==
  [input          |-> usage.input,
   output         |-> usage.output,
   cache_write_5m |-> IF usage.split = NoSplit THEN 0 ELSE usage.split.five,
   cache_write_1h |-> IF usage.split = NoSplit THEN 0 ELSE usage.split.hour,
   cache_read     |-> usage.read]

Prompt(tokens) ==
  tokens.input + tokens.cache_read + tokens.cache_write_5m + tokens.cache_write_1h

(* A line no model produced, which carries nothing.                        *)
Synthetic(request) ==
  /\ request.model = SYNTHETIC
  /\ TokensKnown(request.usage)
  /\ \A class \in CLASSES : TokensOf(request.usage)[class] = 0

Priced(request, models) ==
  /\ TokensKnown(request.usage)
  /\ request.model \in DOMAIN models
  /\ PickTier(models[request.model], Prompt(TokensOf(request.usage))) # None

-----------------------------------------------------------------------------
(* api_equivalent.py: the sums.                                            *)

NoTally ==
  [total |-> 0, requests |-> 0, by_tier |-> << >>, by_class |-> [class \in CLASSES |-> 0]]

(* A tally's figures by tier, and all that a tally can be.                 *)
Slots ==
  UNION {UNION {{<<model, TierLabel(l.models[model], i)>> : i \in DOMAIN l.models[model]}
                  : model \in DOMAIN l.models} : l \in Lists}

Tallies ==
  [total : Nat, requests : Nat, by_tier : UNION {[slots -> Nat] : slots \in SUBSET Slots},
   by_class : [CLASSES -> Nat]]

(* "None" is no tier and no tally.                                         *)
ASSUME NoneAssumption == None \notin Nat /\ None \notin Tallies

(* A defect to check against: a tier's sum is its latest request's.        *)
InSlotLatest(by_tier, slot, figure) ==
  [s \in DOMAIN by_tier \cup {slot} |-> IF s = slot THEN figure ELSE by_tier[s]]

InSlot(by_tier, slot, figure) ==
  [s \in DOMAIN by_tier \cup {slot} |->
     (IF s \in DOMAIN by_tier THEN by_tier[s] ELSE 0) + (IF s = slot THEN figure ELSE 0)]

Add(request, models, tally) ==
  LET tiers  == models[request.model]
      tokens == TokensOf(request.usage)
      i      == PickTier(tiers, Prompt(tokens))
      part   == [class \in CLASSES |-> tiers[i].price[class] * tokens[class]]
      figure == FoldFunction(+, 0, part)
  IN [total    |-> tally.total + figure,
      requests |-> tally.requests + 1,
      by_tier  |-> InSlot(tally.by_tier, <<request.model, TierLabel(tiers, i)>>, figure),
      by_class |-> [class \in CLASSES |-> tally.by_class[class] + part[class]]]

(* price_requests: all of the requests, or none.                           *)
PriceRequests(found, models) ==
  LET billed == {id \in DOMAIN found : ~Synthetic(found[id])}
  IN IF \E id \in billed : ~Priced(found[id], models) THEN None
     ELSE FoldSet(LAMBDA id, tally : Add(found[id], models, tally), NoTally, billed)
-----------------------------------------------------------------------------
(* Lists are published, and runs are priced while they are.                *)

VARIABLES
  lists,    \* what price-lists/ holds
  run,      \* the run figures are asked for: derivations share nothing
  list,     \* the list in force that it is being priced by, or None
  read,     \* the events its stream has given so far
  found,    \* the requests among them, by id
  figures   \* what has been printed of the run, at any time

vars == <<lists, run, list, read, found, figures>>

Label(l) == IF l = None THEN None ELSE l.price_list_id

TypeOK ==
  /\ lists \subseteq Lists
  /\ run \in Runs
  /\ list \in lists \cup {None}
  /\ read \subseteq Events[run]
  /\ \A id \in DOMAIN found :
       id # NoId /\ \E e \in read : e.id = id /\ found[id] = [model |-> e.model, usage |-> e.usage]
  /\ \A x \in figures : \E l \in lists \cup {None} : x.label = Label(l)

Idle == list = None

Init ==
  /\ lists = {}
  /\ run \in Runs
  /\ list = None
  /\ read = {}
  /\ found = << >>
  /\ figures = {}

(* A list reaches main through a green check, under a path of its own; a   *)
(* published one is never edited and never removed.                        *)
Publish(l) ==
  /\ l \notin lists
  /\ Valid(l)
  /\ \A k \in lists : <<k.dirs, k.stem>> # <<l.dirs, l.stem>>
  /\ lists' = lists \cup {l}
  /\ UNCHANGED <<run, list, read, found, figures>>

(* Something is printed, a figure or a refusal, and the tool ends.         *)
Prints(label, result) ==
  /\ figures' = figures \cup {[label |-> label, result |-> result]}
  /\ list' = None
  /\ read' = {}
  /\ found' = << >>

(* read_row and list_in_force come first, and may refuse.                  *)
Start ==
  LET l == IF Row[run].vendor = NoVendor THEN None
           ELSE ListInForce(lists, Row[run].vendor, Row[run].day)
  IN /\ Idle
     /\ \/ /\ l = None
           /\ Prints(None, None)
        \/ /\ l # None
           /\ list' = l
           /\ UNCHANGED <<read, found, figures>>
     /\ UNCHANGED <<lists, run>>

(* A defect to check against: usage under no id is one more request.       *)
RefusedOfTwo(e) ==
  \/ e.kind = "torn"
  \/ /\ e.kind = "assistant" /\ e.id \in DOMAIN found
     /\ found[e.id] # [model |-> e.model, usage |-> e.usage]

(* A line that is not JSON, usage under no id, and an id with two usages.  *)
Refused(e) ==
  \/ e.kind = "torn"
  \/ /\ e.kind = "assistant"
     /\ \/ e.id = NoId
        \/ e.id \in DOMAIN found /\ found[e.id] # [model |-> e.model, usage |-> e.usage]

Collected(e) ==
  [id \in DOMAIN found \cup {e.id} |->
     IF id = e.id THEN [model |-> e.model, usage |-> e.usage] ELSE found[id]]

(* The next line.  One request is several lines, and the client's log and  *)
(* the published stream order and repeat them each in its own way.         *)
ReadLine(e) ==
  /\ ~Idle
  /\ \/ /\ Refused(e)
        /\ Prints(Label(list), None)
     \/ /\ ~Refused(e)
        /\ read' = read \cup {e}
        /\ found' = IF e.kind = "assistant" THEN Collected(e) ELSE found
        /\ UNCHANGED <<list, figures>>
  /\ UNCHANGED <<lists, run>>

EndOfStream ==
  /\ ~Idle
  /\ read = Events[run]
  /\ Prints(Label(list), PriceRequests(found, list.models))
  /\ UNCHANGED <<lists, run>>

Next ==
  \/ \E l \in Lists : Publish(l)
  \/ Start
  \/ \E e \in Events[run] : ReadLine(e)
  \/ EndOfStream

Spec == Init /\ [][Next]_vars

-----------------------------------------------------------------------------
(* Properties.                                                             *)

(* price-lists/README.md, as a definition over the set of a run's events:  *)
(* every request once, each by the tier whose range holds its prompt.      *)
Requests(events) ==
  {[id |-> e.id, model |-> e.model, usage |-> e.usage] :
     e \in {d \in events : d.kind = "assistant"}}

Holding(tiers, prompt) ==
  {i \in DOMAIN tiers : /\ i > 1 => prompt > tiers[i - 1].max
                        /\ tiers[i].max # Unbounded => prompt <= tiers[i].max}

Billed(request, models) ==
  LET tokens == TokensOf(request.usage)
      tiers  == models[request.model]
      bill(i) == MapThenSumSet(LAMBDA class : tiers[i].price[class] * tokens[class], CLASSES)
  IN MapThenSumSet(bill, Holding(tiers, Prompt(tokens)))

Billable(events, models) ==
  LET requests == Requests(events)
  IN /\ \A e \in events : e.kind # "torn"
     /\ \A q \in requests :
          /\ q.id # NoId
          /\ Synthetic(q) \/ (TokensKnown(q.usage) /\ q.model \in DOMAIN models)
     /\ \A q1, q2 \in requests : q1.id = q2.id => q1 = q2

Bill(events, models) ==
  MapThenSumSet(LAMBDA q : Billed(q, models), {q \in Requests(events) : ~Synthetic(q)})

(* A figure is the bill of the run's events whatever order and repetition  *)
(* they were read in, and a run is refused exactly when there is none: a   *)
(* list that passed its validator leaves no prompt without a tier and none *)
(* with two.                                                               *)
FiguresAreBills ==
  \A x \in figures : x.label # None =>
    LET models == (CHOOSE l \in lists : Label(l) = x.label).models
    IN IF Billable(Events[run], models)
       THEN x.result # None /\ x.result.total = Bill(Events[run], models)
       ELSE x.result = None

(* The two breakdowns of a figure account for the whole of it.             *)
BreakdownsAddUp ==
  \A x \in figures : x.result # None =>
    /\ FoldFunction(+, 0, x.result.by_tier) = x.result.total
    /\ FoldFunction(+, 0, x.result.by_class) = x.result.total

(* "The list names the figure": however many lists are published between   *)
(* two derivations, and from whichever file they read the events, a run    *)
(* has one figure under one label.                                         *)
LabelNamesOneFigure == \A x, y \in figures : x.label = y.label => x = y

(* "A newer list does not reach back": a list dated after a run's day does *)
(* not change what prices it.                                              *)
NewerListsDoNotReachBack ==
  [][/\ Row[run].vendor # NoVendor
     /\ \A l \in lists' \ lists : l.effective_date > Row[run].day
     => ListInForce(lists', Row[run].vendor, Row[run].day)
        = ListInForce(lists, Row[run].vendor, Row[run].day)]_lists

=============================================================================
