----------------------------- MODULE LinkVerdict -----------------------------
(***************************************************************************)
(* What the adr_links_resolve gate promises about the link stubs of a      *)
(* checkout, with nothing of how the registry is read: one verdict, which  *)
(* is a pass only where every stub describes its record, a failure only    *)
(* where one does not, and never either over stubs that could not be read  *)
(* against the registry.                                                   *)
(***************************************************************************)
EXTENDS Oracle, Sequences

CONSTANTS
  Registry,  \* Registry[n]: the row of record n, or NoRow
  Own,       \* Own[n]: the titles the bridge may give for record n itself
  NoRow, NoTitle,
  NoVerdict

VARIABLES
  stubs,    \* the link stubs of the checkout
  verdict

(* The titles a stub of record n can be checked against, where the bridge  *)
(* gives own for the record.                                               *)
TitlesOf(n, own) == {Registry[n].title, own} \ {NoTitle}

Describes(stub, own) ==
  /\ stub.names \cap TitlesOf(stub.number, own) # {}
  /\ Registry[stub.number].repo \in stub.links

Known(stub) == stub.readable /\ Registry[stub.number] # NoRow

MayBeRight(stub) == Known(stub) /\ \E own \in Own[stub.number] : Describes(stub, own)

MayBeWrong(stub) ==
  \/ ~Known(stub)
  \/ \E own \in Own[stub.number] :
       TitlesOf(stub.number, own) # {} /\ ~Describes(stub, own)

Verdicts ==
  IF stubs = << >> THEN {NotApplied}
  ELSE {Unavailable}
       \cup {v \in {Passed} : \A i \in DOMAIN stubs : MayBeRight(stubs[i])}
       \cup {v \in {Failed} : \E i \in DOMAIN stubs : MayBeWrong(stubs[i])}

Init == verdict = NoVerdict

Next ==
  /\ verdict = NoVerdict
  /\ verdict' \in Verdicts
  /\ UNCHANGED stubs

Spec == Init /\ [][Next]_<<stubs, verdict>>
=============================================================================
