---------------------------- MODULE InboxLedger ----------------------------
(***************************************************************************)
(* What an inbox promises its readers, with nothing of how a producer      *)
(* keeps the promise: a record is appended once, under the visibility and  *)
(* the day it states, there is one record per execution in all the inboxes *)
(* together, and no record is rewritten or removed.  A producer that is    *)
(* killed while it appends leaves a torn file, which is never a record     *)
(* and which nothing overwrites either.                                    *)
(*                                                                         *)
(* tools/derive_ci_rows.py states the promise where it writes ("`inbox/`   *)
(* is appended to and never rewritten"); DeriveCiRows is shown to keep it. *)
(***************************************************************************)

CONSTANTS
  Roots,   \* the inboxes, each named by the visibility it is meant to hold
  Days,    \* the UTC dates a record can be filed under
  Runs,    \* the executions, each with its run id
  Rows,    \* the records
  NoFile,  \* a place of an inbox that holds nothing
  Torn     \* a file whose writing was cut short

VARIABLE inbox

File == Rows \cup {NoFile, Torn}

TypeOK == inbox \in [Roots \X Days \X Runs -> File]

Init == inbox = [place \in Roots \X Days \X Runs |-> NoFile]

(* An execution nothing has been filed for, torn or whole, in any inbox. *)
Unfiled(run) == \A root \in Roots, day \in Days : inbox[<<root, day, run>>] = NoFile

(* A record states where it is filed.                                      *)
PlaceOf(row) == <<row.visibility, row.day, row.run>>

Append(row) ==
  /\ Unfiled(row.run)
  /\ inbox' = [inbox EXCEPT ![PlaceOf(row)] = row]

Tear(root, day, run) ==
  /\ Unfiled(run)
  /\ inbox' = [inbox EXCEPT ![<<root, day, run>>] = Torn]

Next ==
  \/ \E row \in Rows : Append(row)
  \/ \E root \in Roots, day \in Days, run \in Runs : Tear(root, day, run)

Spec == Init /\ [][Next]_inbox

=============================================================================
