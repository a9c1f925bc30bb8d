----------------------------- MODULE MCAdrLinks -----------------------------
(***************************************************************************)
(* An instance of the gate for TLC: a record both the row and the bridge   *)
(* title, one whose row has no title, one that has a title nowhere when    *)
(* the bridge refuses it, and a number the registry does not hold; and     *)
(* stubs that are right, wrong by owner, unreadable, and right by the      *)
(* record's own title alone.                                               *)
(***************************************************************************)
EXTENDS AdrLinks, TLC

MCRegistry ==
  1 :> [title |-> "row one", repo |-> "docs"] @@ 2 :> [title |-> NoTitle, repo |-> "docs"]
  @@ 3 :> NoRow

MCOwn == 1 :> {"one", NoTitle} @@ 2 :> {"two", NoTitle} @@ 3 :> {NoTitle}

RightStub(n, name) ==
  [number |-> n, readable |-> TRUE, names |-> {name}, links |-> {"docs"}]

Right == RightStub(1, "row one")
ByOwnTitle == RightStub(1, "one")
Untitled2 == RightStub(2, "two")
Unheld == RightStub(3, "three")
Misowned == [Right EXCEPT !.links = {"elsewhere"}]
Unread == [Right EXCEPT !.readable = FALSE]

(* Two records read one after the other, where the first stub is wrong if  *)
(* its record's own title is not to be had, and nothing can be said of the *)
(* second if it has none; one right and one wrong; and stubs that are      *)
(* judged with no answer about them.                                       *)
MCCheckouts ==
  {<< >>, <<ByOwnTitle, Untitled2>>, <<Right>>, <<Misowned>>, <<Unread, Unheld>>}
=============================================================================
