-------------------------------- MODULE Cleaner -------------------------------
(***************************************************************************)
(* cleanMarkdown: one pass over the lines of a raw page, which drops the   *)
(* directives and the JavaScript half of each example, and hands each      *)
(* HTML table, accumulated in a buffer, to convertHtmlTable.  A step reads *)
(* one line.  Removing figures and banner components, and the rendering of *)
(* a cell, leave the lines as they are here.                               *)
(***************************************************************************)
EXTENDS Markdown

VARIABLES raw,                   \* the page, as a sequence of lines
          read,                  \* how many of them the loop has read
          insideFence,
          skippingSwitchBranch,
          tableBuffer,           \* <<>> for null: a buffer holds its opening line
          output,
          cleaned                \* has cleanMarkdown returned?

cleanVars == <<raw, read, insideFence, skippingSwitchBranch, tableBuffer, output,
               cleaned>>

CleanInit ==
    /\ read = 0
    /\ insideFence = FALSE
    /\ skippingSwitchBranch = FALSE
    /\ tableBuffer = <<>>
    /\ output = <<>>
    /\ cleaned = FALSE

-------------------------------------------------------------------------------
(* convertHtmlTable *)

AsRow(l)  == [kind |-> "row", depth |-> 0, text |-> l.text]
AsItem(l) == [kind |-> "text", depth |-> 0, text |-> l.text]
Separator == [kind |-> "row", depth |-> 0, text |-> 0]

\* A table without rows is left as it is, one without a header row becomes a
\* list, and any other a pipe table with its first header row and its other rows.
Convert(table) ==
    LET rows  == {k \in DOMAIN table : TableRow(table[k])}
        heads == {k \in rows : HeaderRow(table[k])}
    IN  IF rows = {} THEN table
        ELSE IF heads = {} THEN Subsequence([k \in DOMAIN table |-> AsItem(table[k])], rows)
        ELSE <<AsRow(table[Nth(heads, 1)]), Separator>> \o
             Subsequence([k \in DOMAIN table |-> AsRow(table[k])], rows \ heads)

-------------------------------------------------------------------------------
(* The loop over the lines; its branches are tried in this order. *)

Reading == ~cleaned /\ read < Len(raw)
NextRaw == raw[read + 1]
ReadOn  == read' = read + 1 /\ UNCHANGED <<raw, cleaned>>

\* mutant: the end of a fence does not end the JavaScript half
SkipOutlivesFence == skippingSwitchBranch

\* What a fence marker leaves of skippingSwitchBranch.
SkippingAfterFence == skippingSwitchBranch /\ ~insideFence

\* A fence marker is output at once, whatever the buffer holds.
ReadFence ==
    /\ Reading /\ TopFence(NextRaw)
    /\ insideFence' = ~insideFence
    /\ skippingSwitchBranch' = SkippingAfterFence
    /\ output' = Append(output, NextRaw)
    /\ ReadOn /\ UNCHANGED tableBuffer

\* mutant: a second @@switch switches back
SwitchTogglesBack == NextRaw.kind # "switch"

\* Nothing but the end of the fence ends the JavaScript half.
StillSkipping == skippingSwitchBranch

SkipLine ==
    /\ Reading /\ ~TopFence(NextRaw) /\ skippingSwitchBranch
    /\ skippingSwitchBranch' = StillSkipping
    /\ ReadOn /\ UNCHANGED <<insideFence, tableBuffer, output>>

PastSkipping == Reading /\ ~TopFence(NextRaw) /\ ~skippingSwitchBranch

\* The line joins the table; the closing tag converts what was accumulated.
Accumulate ==
    LET table == Append(tableBuffer, NextRaw)
    IN  IF TableClose(NextRaw)
          THEN tableBuffer' = <<>> /\ output' = output \o Convert(table)
          ELSE tableBuffer' = table /\ UNCHANGED output

ReadTable ==
    /\ PastSkipping
    /\ tableBuffer # <<>> \/ (~insideFence /\ OpensTable(NextRaw))
    /\ Accumulate
    /\ ReadOn /\ UNCHANGED <<insideFence, skippingSwitchBranch>>

PastTables ==
    PastSkipping /\ tableBuffer = <<>> /\ (insideFence \/ ~OpensTable(NextRaw))

ReadFilename ==
    /\ PastTables /\ insideFence /\ NextRaw.kind = "filename"
    /\ ReadOn /\ UNCHANGED <<insideFence, skippingSwitchBranch, tableBuffer, output>>

ReadSwitch ==
    /\ PastTables /\ insideFence /\ NextRaw.kind = "switch"
    /\ skippingSwitchBranch' = TRUE
    /\ ReadOn /\ UNCHANGED <<insideFence, tableBuffer, output>>

ReadText ==
    /\ PastTables /\ ~(insideFence /\ NextRaw.kind \in {"filename", "switch"})
    /\ output' = Append(output, NextRaw)
    /\ ReadOn /\ UNCHANGED <<insideFence, skippingSwitchBranch, tableBuffer>>

\* mutant: a table that is never closed is dropped
DropsUnclosed == output

\* What is output after the last line: a table that was never closed, as found.
Remainder == output \o tableBuffer

\* \n{3,} -> \n\n: of the newlines of a run the first two stay.  The newline after
\* line k goes, and the empty line k with it, when two stand right before it.
Collapsed(s) ==
    LET goes(k) == 2 < k /\ k < Len(s) /\ Blank(s[k]) /\ Blank(s[k - 1])
    IN  Subsequence(s, {k \in DOMAIN s : ~goes(k)})

EndOfRaw ==
    /\ ~cleaned /\ read = Len(raw)
    /\ output' = Collapsed(Remainder)
    /\ tableBuffer' = <<>>
    /\ cleaned' = TRUE
    /\ UNCHANGED <<raw, read, insideFence, skippingSwitchBranch>>

CleanNext ==
    \/ ReadFence \/ SkipLine \/ ReadTable \/ ReadFilename \/ ReadSwitch \/ ReadText
    \/ EndOfRaw
===============================================================================
