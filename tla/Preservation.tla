---------------------------- MODULE Preservation ----------------------------
(***************************************************************************)
(* The content_preserved gate, oracles/preservation.py.  A run edits the   *)
(* files of a checkout; the gate then reads the blobs that the preserved   *)
(* files had at the base commit out of one stream of git, one after the    *)
(* other, and compares the text below each file's frontmatter.             *)
(*                                                                         *)
(* A file is bytes: a sequence of tokens, of which NL, CR and FENCE matter *)
(* to the gate, and Header(n) is how git announces a blob of n tokens.     *)
(* People write a file as a page: a block or none, blank lines, the text,  *)
(* and how lines end.                                                      *)
(***************************************************************************)
EXTENDS Oracle, Naturals, Sequences, SequencesExt, FiniteSetsExt

CONSTANTS
  Entries,   \* what ls-tree lists: [path, file, matches]
  Bases,     \* the pages each path may have at the base commit
  Pages,     \* the pages a run may leave there
  NL, CR, FENCE, MISSING,
  NoBlock,   \* a page without frontmatter
  Deleted    \* a path the run removed

Paths == {e.path : e \in Range(Entries)}

ASSUME EntriesAssumption ==
  /\ Entries \in Seq(Range(Entries))
  /\ \A e \in Range(Entries) : e.file \in BOOLEAN /\ e.matches \in BOOLEAN

Header(n) == [size |-> n]

(* git announces a size, or that there is none; neither is a newline.      *)
ASSUME TokensAssumption ==
  /\ NL # MISSING /\ \A t \in {NL, MISSING} : t \notin [size : Nat]
  /\ NL # CR /\ FENCE \notin {NL, CR}

-----------------------------------------------------------------------------
(* body                                                                    *)

(* data.replace(b"\r\n", b"\n")                                            *)
OneNewline(bytes) ==
  FlattenSeq([i \in DOMAIN bytes |->
    IF bytes[i] = CR /\ i < Len(bytes) /\ bytes[i + 1] = NL THEN << >> ELSE <<bytes[i]>>])

(* text.split(b"\n"): where a line starts, and where it ends.              *)
Starts(text) == {1} \cup {i + 1 : i \in {j \in DOMAIN text : text[j] = NL}}

LineEnd(text, start) == Min({i \in start..Len(text) : text[i] = NL} \cup {Len(text) + 1})

(* The fence alone on its line; a CR around it is whitespace.              *)
IsFence(text, start) ==
  LET line == start..(LineEnd(text, start) - 1)
  IN \E f \in line : text[f] = FENCE /\ \A i \in line \ {f} : text[i] = CR

Closings(text) == {start \in Starts(text) \ {1} : IsFence(text, start)}

HasBlock(text) == IsFence(text, 1) /\ Closings(text) # {}

AfterBlock(text) == SubSeq(text, LineEnd(text, Min(Closings(text))) + 1, Len(text))

(* lstrip(b"\n")                                                           *)
WithoutLeadingBlanks(bytes) ==
  LET text == {i \in DOMAIN bytes : bytes[i] # NL}
  IN IF text = {} THEN << >> ELSE SubSeq(bytes, Min(text), Len(bytes))

(* A defect to check against: the blank lines after a block stay.          *)
BodyWithBlanks(bytes) ==
  LET text == OneNewline(bytes)
  IN IF HasBlock(text) THEN AfterBlock(text) ELSE text

Body(bytes) ==
  LET text == OneNewline(bytes)
  IN IF HasBlock(text) THEN WithoutLeadingBlanks(AfterBlock(text)) ELSE text

-----------------------------------------------------------------------------
(* What people write, and its bytes.  The text begins below the block, if  *)
(* there is one, and the blank lines; no line of a block is a fence, and a *)
(* CR is only in how lines end.                                            *)

Blank(n) == [i \in 1..n |-> NL]

IsPage(page) ==
  /\ page.blanks \in Nat /\ page.crlf \in BOOLEAN
  /\ page.text \in Seq(Range(page.text)) /\ CR \notin Range(page.text)
  /\ page.text # << >> => page.text[1] # NL
  /\ IF page.block = NoBlock
     THEN ~HasBlock(Blank(page.blanks) \o page.text)
     ELSE /\ page.block \in Seq(Range(page.block)) /\ CR \notin Range(page.block)
          /\ \A start \in Starts(page.block) : ~IsFence(page.block, start)

ASSUME PagesAssumption ==
  /\ DOMAIN Bases = Paths /\ DOMAIN Pages = Paths
  /\ \A p \in Paths : \A page \in Bases[p] \cup Pages[p] : IsPage(page)

WithBlock(page) ==
  IF page.block = NoBlock THEN << >> ELSE <<FENCE, NL>> \o page.block \o <<NL, FENCE, NL>>

LineEnds(bytes, crlf) ==
  FlattenSeq([i \in DOMAIN bytes |->
                IF crlf /\ bytes[i] = NL THEN <<CR, NL>> ELSE <<bytes[i]>>])

Bytes(page) == LineEnds(WithBlock(page) \o Blank(page.blanks) \o page.text, page.crlf)

-----------------------------------------------------------------------------
(* _preserved_at_base and _blobs.  A blob's id is its content.             *)

VARIABLES
  patterns,  \* what the task names: nothing, no glob, globs no file matches, or globs
  base,      \* the pages at the base commit
  readable,  \* the base commit is there, git answers, and the objects it still has
  work,      \* the pages of the working tree
  phase,     \* the run is editing, or what the gate is doing
  out,       \* what git wrote
  at,        \* where the gate is in it, and which id or file is next
  next,
  blobs,     \* the contents read so far
  offences,
  verdict

vars == <<patterns, base, readable, work, phase, out, at, next, blobs, offences, verdict>>

(* Symlinks and gitlinks are no bodies.                                    *)
Preserved ==
  FlattenSeq([i \in DOMAIN Entries |->
    IF Entries[i].file /\ Entries[i].matches THEN <<Entries[i]>> ELSE << >>])

IdOf(path) == Bytes(base[path])
Ids == [i \in DOMAIN Preserved |-> IdOf(Preserved[i].path)]

(* git cat-file --batch, asked for the ids in order: a header, the bytes   *)
(* and a newline each, or that the object is missing.                      *)
Output ==
  FlattenSeq([i \in DOMAIN Ids |->
    IF Ids[i] \in readable.objects THEN <<Header(Len(Ids[i])), NL>> \o Ids[i] \o <<NL>>
    ELSE <<MISSING, NL>>])

TypeOK ==
  /\ phase \in {"editing", "cutting", "comparing", "done"}
  /\ DOMAIN blobs \subseteq Range(Ids)
  /\ phase = "cutting" => DOMAIN blobs = {Ids[i] : i \in 1..(next - 1)}
  /\ at \in 1..(Len(out) + 1)
  /\ next \in 1..(Len(Preserved) + 1)
  /\ offences \subseteq Paths
  /\ verdict \in Gate
  /\ phase # "done" => verdict = Unavailable

Init ==
  /\ patterns \in {"none", "invalid", "unmatched", "globs"}
  /\ base \in {b \in [Paths -> UNION Range(Bases)] : \A p \in Paths : b[p] \in Bases[p]}
  /\ \E objects \in SUBSET Range(Ids) :
       readable \in {[commit |-> c, answers |-> a, objects |-> objects] : c, a \in BOOLEAN}
  /\ work = base
  /\ phase = "editing"
  /\ out = << >>
  /\ at = 1
  /\ next = 1
  /\ blobs = << >>
  /\ offences = {}
  /\ verdict = Unavailable

(* What the run does to a file.                                            *)
Edit(p, page) ==
  /\ phase = "editing"
  /\ work[p] = base[p]   \* each file is left once, as any page
  /\ work' = [work EXCEPT ![p] = page]
  /\ UNCHANGED <<patterns, base, readable, phase, out, at, next, blobs, offences, verdict>>

End(v) == phase' = "done" /\ verdict' = v

(* gate: what was asked for, then whether the base is there, then its      *)
(* files, whose contents git may refuse to give at all.                    *)
NothingToKeep == patterns = "unmatched" \/ Preserved = << >>

Asks ==
  IF patterns = "none" THEN NotApplied
  ELSE IF patterns = "invalid" \/ ~readable.commit THEN Unavailable
  ELSE IF NothingToKeep THEN NotApplied
  ELSE IF readable.answers THEN Passed ELSE Unavailable

Judge ==
  /\ phase = "editing"
  /\ IF Asks = Passed THEN phase' = "cutting" /\ out' = Output /\ UNCHANGED verdict
                      ELSE End(Asks) /\ UNCHANGED out
  /\ UNCHANGED <<patterns, base, readable, work, at, next, blobs, offences>>

EndOfLine == Min({i \in DOMAIN out : i >= at /\ out[i] = NL})

Announced == SubSeq(out, at, EndOfLine - 1)

WithBlob(id, bytes) == [i \in DOMAIN blobs \cup {id} |-> IF i = id THEN bytes ELSE blobs[i]]

(* A defect to check against: the last byte of a blob is left out.         *)
CutShort ==
  /\ phase = "cutting" /\ next <= Len(Ids)
  /\ \E size \in 0..Len(out) :
       LET from == EndOfLine + 1
       IN /\ Announced = <<Header(size)>>
          /\ blobs' = WithBlob(Ids[next], SubSeq(out, from, from + size - 2))
          /\ at' = from + size + 1
  /\ next' = next + 1
  /\ UNCHANGED <<patterns, base, readable, work, phase, out, offences, verdict>>

(* One turn of the loop of _blobs: the sizes alone say where a blob ends.  *)
Cut ==
  /\ phase = "cutting" /\ next <= Len(Ids)
  /\ \E size \in 0..Len(out) :
       LET from == EndOfLine + 1
       IN /\ Announced = <<Header(size)>>
          /\ blobs' = WithBlob(Ids[next], SubSeq(out, from, from + size - 1))
          /\ at' = from + size + 1
  /\ next' = next + 1
  /\ UNCHANGED <<patterns, base, readable, work, phase, out, offences, verdict>>

(* A defect to check against: an object that is missing is passed over.    *)
CutPassesOver ==
  /\ phase = "cutting" /\ next <= Len(Ids)
  /\ ~\E size \in 0..Len(out) : Announced = <<Header(size)>>
  /\ at' = EndOfLine + 1
  /\ next' = next + 1
  /\ UNCHANGED <<patterns, base, readable, work, phase, out, blobs, offences, verdict>>

(* A defect to check against: a missing object means nothing was to keep.  *)
CutGivesUp ==
  /\ phase = "cutting" /\ next <= Len(Ids)
  /\ ~\E size \in 0..Len(out) : Announced = <<Header(size)>>
  /\ End(NotApplied)
  /\ UNCHANGED <<patterns, base, readable, work, out, at, next, blobs, offences>>

(* A line that announces no blob ends the gate without a verdict.          *)
CutFails ==
  /\ phase = "cutting" /\ next <= Len(Ids)
  /\ ~\E size \in 0..Len(out) : Announced = <<Header(size)>>
  /\ End(Unavailable)
  /\ UNCHANGED <<patterns, base, readable, work, out, at, next, blobs, offences>>

CutDone ==
  /\ phase = "cutting" /\ next > Len(Ids)
  /\ phase' = "comparing"
  /\ next' = 1
  /\ UNCHANGED <<patterns, base, readable, work, out, at, blobs, offences, verdict>>

-----------------------------------------------------------------------------
(* _offences and the verdict.                                              *)

Compare ==
  /\ phase = "comparing" /\ next <= Len(Preserved)
  /\ LET path == Preserved[next].path
         kept == /\ work[path] # Deleted
                 /\ Body(blobs[IdOf(path)]) = Body(Bytes(work[path]))
     IN offences' = IF kept THEN offences ELSE offences \cup {path}
  /\ next' = next + 1
  /\ UNCHANGED <<patterns, base, readable, work, phase, out, at, blobs, verdict>>

Conclude ==
  /\ phase = "comparing" /\ next > Len(Preserved)
  /\ End(IF offences = {} THEN Passed ELSE Failed)
  /\ UNCHANGED <<patterns, base, readable, work, out, at, next, blobs, offences>>

Next ==
  \/ \E p \in Paths : \E page \in Pages[p] \cup {Deleted} : Edit(p, page)
  \/ Judge \/ Cut \/ CutFails \/ CutDone \/ Compare \/ Conclude

Spec == Init /\ [][Next]_vars

-----------------------------------------------------------------------------

(* Every id is read as the content it names, whatever the blobs hold: blank *)
(* lines, a line like git's own header, or the same content twice           *)
(* (_blobs).                                                                *)
BlobsAreRight ==
  phase = "comparing" => \A id \in Range(Ids) : id \in DOMAIN blobs /\ blobs[id] = id

(* What a run may do to a preserved page without touching its text.  The    *)
(* blank lines that begin a page without a block are its own; those below  *)
(* a block are the block's layout (body).                                  *)
OwnBlanks(page) == IF page.block = NoBlock THEN page.blanks ELSE 0

SameText(before, after) ==
  after # Deleted /\ after.text = before.text /\ OwnBlanks(after) = OwnBlanks(before)

(* The gate fails exactly where the text of a preserved page was lost or    *)
(* changed, the blank lines that begin a page without a block counted to   *)
(* it: a block put above other text, rewritten or taken away, the blank    *)
(* lines below a block and the way lines end are no change, and no change  *)
(* of the text hides behind one (gate).                                    *)
TextAloneDecides ==
  verdict.result # "not-run" =>
    (verdict = Passed <=> \A e \in Range(Preserved) : SameText(base[e.path], work[e.path]))

(* What the gate's own words promise: "adding, rewriting or removing a      *)
(* frontmatter block is never read as a change to the body".  body sets    *)
(* leading blank lines aside where it found a block and only there, so a   *)
(* block put above a page that begins with a blank line fails the gate.    *)
FrontmatterIsNoChange ==
  verdict = Failed =>
    \E e \in Range(Preserved) :
      LET before == base[e.path]
          after  == work[e.path]
      IN after = Deleted \/ after # [before EXCEPT !.block = after.block]

HadNothing ==
  \/ patterns = "none"
  \/ patterns # "invalid" /\ readable.commit /\ NothingToKeep

(* A gate that says nothing applied had nothing to keep, and one that had   *)
(* something and could not read it all neither passes nor fails: it is     *)
(* unavailable (gate, _blobs).                                             *)
NoPassUnread ==
  /\ verdict = NotApplied => HadNothing
  /\ verdict.result # "not-run" =>
       /\ patterns = "globs" /\ Preserved # << >>
       /\ readable.commit /\ readable.answers /\ Range(Ids) \subseteq readable.objects
=============================================================================
