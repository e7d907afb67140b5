------------------------------- MODULE Markdown -------------------------------
(***************************************************************************)
(* The lines of a documentation page, reduced to what the regular          *)
(* expressions of markdown-cleaner.ts, html-table.ts and chunker.ts tell   *)
(* apart.  A line has a kind, the number of blockquote markers before it,  *)
(* and its text, for which the position of the raw line it comes from      *)
(* stands (0: a line that the cleaner wrote itself).                       *)
(***************************************************************************)
EXTENDS Integers, Sequences, FiniteSets

Kinds == {"text", "blank",
          "fence",            \* ``` with or without a language
          "page", "section",  \* ### and ####
          "open", "close",    \* <table> and </table>
          "inline",           \* <table> ... </table> on one line, with no row
          "mention",          \* prose with `<table>` in an inline code span
          "head", "cells",    \* a whole <tr> of <th>, or of <td>
          "row",              \* | a | b |
          "switch",           \* @@switch
          "filename"}         \* @@filename(...)

Line == [kind : Kinds, depth : Nat, text : Nat]

Blank(l) == l.kind = "blank"

\* FENCE of the chunker, at any quote depth, and of the cleaner, at none.
FenceMarker(l) == l.kind = "fence"
TopFence(l)    == l.kind = "fence" /\ l.depth = 0

PageHeading(l)    == l.kind = "page" /\ l.depth = 0
SectionHeading(l) == l.kind = "section" /\ l.depth = 0
Heading(l)        == PageHeading(l) \/ SectionHeading(l)

\* TABLE_OPEN is not anchored: it sees the tag in an inline code span too.
TableOpen(l)  == l.kind \in {"open", "inline", "mention"}
TableClose(l) == l.kind \in {"close", "inline"}

\* TABLE_OPEN on the line without its inline code spans.
OpensTable(l) == l.kind \in {"open", "inline"}

MdRow(l) == l.kind = "row" /\ l.depth = 0

TableRow(l)  == l.kind \in {"head", "cells"}
HeaderRow(l) == l.kind = "head"

\* The elements of a sequence at some of its positions, in order.
Nth(positions, n) ==
    CHOOSE k \in positions : Cardinality({j \in positions : j <= k}) = n
Subsequence(s, positions) ==
    [n \in 1..Cardinality(positions) |-> s[Nth(positions, n)]]
===============================================================================
