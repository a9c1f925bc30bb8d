--------------------------- MODULE MCPreservation ---------------------------
(***************************************************************************)
(* Two preserved pages that may hold the same bytes, a symlink and a page  *)
(* no pattern matches; texts with a rule in them, a line like a header of  *)
(* git's and blank lines; a page that begins with a blank line.            *)
(***************************************************************************)
EXTENDS Preservation

CONSTANTS p, q, link, other, key, key2, word, word2

Page(block, blanks, text, crlf) ==
  [block |-> block, blanks |-> blanks, text |-> text, crlf |-> crlf]

Entry(path, file, matches) == [path |-> path, file |-> file, matches |-> matches]
MCEntries == <<Entry(link, FALSE, TRUE), Entry(p, TRUE, TRUE), Entry(other, TRUE, FALSE),
               Entry(q, TRUE, TRUE)>>

Ruled     == <<word, NL, FENCE, NL, word2, NL>>
LikeGit   == <<Header(2), NL, word>>
Plain     == <<word, NL, NL, word2>>
Shortened == <<word, NL>>

BasePages ==
  {Page(NoBlock, 0, Ruled, FALSE), Page(<<key>>, 1, LikeGit, FALSE), Page(<<key>>, 0, Plain, TRUE),
   Page(NoBlock, 2, Plain, FALSE)}

MCBases == [x \in {p, q, link, other} |->
              IF x \in {p, q} THEN BasePages ELSE {Page(NoBlock, 0, Plain, FALSE)}]

(* Each text below another block, none, other blanks or other line ends,   *)
(* and texts that lost something.                                          *)
Left ==
  {Page(<<key, NL, key2>>, n, text, FALSE) : n \in {0, 2}, text \in {Ruled, LikeGit, Plain}}
    \cup {Page(NoBlock, 0, text, TRUE) : text \in {Ruled, LikeGit, Plain, Shortened}}
    \cup {Page(NoBlock, n, Plain, TRUE) : n \in {1, 2}}

MCPages == [x \in {p, q, link, other} |->
              CASE x = p -> Left
                [] x = q -> {Page(<<key2>>, 1, text, FALSE) : text \in {Ruled, LikeGit, << >>}}
                [] x = other -> {Page(NoBlock, 0, Shortened, FALSE)}
                [] OTHER -> {}]
=============================================================================
