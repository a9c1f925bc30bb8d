------------------------------ MODULE MCPrices ------------------------------
(***************************************************************************)
(* Lists of two vendors, of which some must not pass their validator, and  *)
(* runs whose prompts sit on, under and above the bound of a tier.         *)
(***************************************************************************)
EXTENDS Prices, TLC

Price(p) == [class \in CLASSES |->
               CASE class = "input" -> p [] class = "output" -> 5 * p
                 [] class = "cache_write_5m" -> p + 1 [] class = "cache_write_1h" -> 2 * p
                 [] OTHER -> 1]

Tier(max, p) == [max |-> max, price |-> Price(p)]
Tiered(p) == <<Tier(4, p), Tier(Unbounded, 3 * p)>>

List(vendor, date, models) ==
  [dirs |-> <<vendor>>, stem |-> date, vendor |-> vendor, effective_date |-> date,
   price_list_id |-> <<vendor, date>>, models |-> models]

Two(p) == [small |-> Tiered(p), large |-> <<Tier(Unbounded, p)>>]

MCLists ==
  {List("a", 1, Two(2)), List("a", 2, Two(5)), List("a", 4, Two(7)),
   List("b", 1, [other |-> Tiered(3)]),
   [List("a", 3, Two(6)) EXCEPT !.price_list_id = <<"a", 1>>],
   [List("a", 3, Two(6)) EXCEPT !.stem = NotADate],
   [List("a", 3, Two(6)) EXCEPT !.models.small = <<Tier(4, 6), Tier(8, 9)>>],
   [List("a", 3, Two(6)) EXCEPT !.models.small = <<Tier(Unbounded, 6), Tier(4, 9)>>],
   [List("a", 3, Two(6)) EXCEPT !.models.large[1].price["output"] = NotAPrice],
   [List("b", 2, Two(6)) EXCEPT !.dirs = <<"a">>]}

Usage(input, five, hour) ==
  [input |-> input, output |-> 1, read |-> 1, written |-> five + hour,
   split |-> [five |-> five, hour |-> hour]]
Nothing == [input |-> 0, output |-> 0, read |-> 0, written |-> 0, split |-> NoSplit]

Assistant(id, model, usage) == [kind |-> "assistant", id |-> id, model |-> model, usage |-> usage]
Other(kind) == [kind |-> kind, id |-> NoId, model |-> "small", usage |-> Nothing]

(* On the bound, above it, beside another model and a line of no model; a  *)
(* request with two usages; a write of no lifetime; a model of no price.   *)
MCEvents ==
  [r1 |-> {Assistant("q1", "small", Usage(1, 1, 1)), Assistant("q2", "small", Usage(4, 0, 0)),
           Assistant("q3", "small", Usage(9, 2, 0)), Assistant("q4", SYNTHETIC, Nothing),
           Assistant("q5", "large", Usage(2, 0, 1)), Other("other")},
   r2 |-> {Assistant("q1", "small", Usage(1, 0, 0)), Assistant("q1", "small", Usage(2, 0, 0)),
           Assistant("q2", "large", Usage(1, 0, 0))},
   r3 |-> {Assistant("q1", "other", Usage(7, 0, 0)), Assistant("q2", "other", Usage(9, 0, 0))},
   r4 |-> {Assistant("q1", "large", [Usage(1, 0, 0) EXCEPT !.written = 2])},
   r5 |-> {Assistant("q1", "large", Usage(1, 0, 0)), Other("torn")},
   r6 |-> {Assistant("q1", "large", Usage(1, 0, 0)), Assistant(NoId, "large", Usage(1, 0, 0))},
   r7 |-> {Assistant("q1", "large", Usage(1, 0, 0))},
   r8 |-> {Assistant("q1", "unpriced", Usage(1, 0, 0)), Assistant("q2", "large", Usage(1, 0, 0))}]

MCRuns == DOMAIN MCEvents
MCRow ==
  [r \in MCRuns |-> CASE r = "r3" -> [vendor |-> "b", day |-> 1]
                      [] r = "r7" -> [vendor |-> NoVendor, day |-> 1]
                      [] OTHER    -> [vendor |-> "a", day |-> 3]]
=============================================================================
