-------------------------------- MODULE Chunker -------------------------------
(***************************************************************************)
(* chunkMarkdown: the content is split at its headings, sections below the *)
(* minimum are merged with their neighbours, and a merged section above    *)
(* the maximum is cut where it is safe.  A step reads one line, takes one  *)
(* section, or pushes one chunk.                                           *)
(*                                                                         *)
(* A body of text is the set of positions its lines have in the content.   *)
(* Every list of lines in the code is one that only ever grows at its end  *)
(* or is appended to an earlier one; that what is appended does come later *)
(* is part of EveryLineOnceInOrder.                                        *)
(***************************************************************************)
EXTENDS Markdown, SequencesExt

CONSTANTS CountTokens(_, _),    \* of a document, at some positions, joined
          NewlineTokens,        \* what joining a line costs beyond its own tokens
          TargetTokens, MaxTokens, MinTokens,
          TableBound            \* UNCLOSED_TABLE_TOKEN_BOUND

ASSUME ChunkerAssumption ==
    /\ TargetTokens \in Nat \ {0} /\ MaxTokens \in Nat /\ MinTokens \in Int
    /\ TableBound \in Nat /\ NewlineTokens \in Nat

VARIABLES stage,
          content,              \* the cleaned document, as a sequence of lines
          \* splitIntoSections
          line,                 \* lines read
          fence, pageTitle, current, sections,
          \* mergeUndersizedSections
          taken,                \* sections, or merged sections, done with
          pending, groups, merged,
          \* splitOversizedSection
          rest,                 \* lines of the section that the scan has not reached
          buffer, bodies, table, mdTable,
          \* the result
          pushed,               \* bodies done with
          chunks

cutVars   == <<rest, buffer, bodies, table, mdTable>>
mergeVars == <<taken, pending, groups, merged>>
splitVars == <<line, pageTitle, current, sections>>
chunkVars == <<stage, content, splitVars, fence, mergeVars, cutVars, pushed, chunks>>

Section(path, lines) == [path |-> path, lines |-> lines]
NoGroup  == [lines |-> {}, parts |-> <<>>]
NoFence  == [inside |-> FALSE, depth |-> 0]
NoTable  == [inside |-> FALSE, depth |-> 0, tokens |-> 0]
NoRows   == [inside |-> FALSE, tokens |-> 0]

Tokens(S)  == CountTokens(content, S)
HasText(S) == \E i \in S : ~Blank(content[i])

\* trim(), of a body that is not blank.
Trimmed(S) == {i \in S : /\ \E j \in S : j <= i /\ ~Blank(content[j])
                         /\ \E k \in S : i <= k /\ ~Blank(content[k])}

ChunkInit ==
    /\ stage = "waiting"
    /\ content = <<>>
    /\ line = 0 /\ fence = NoFence /\ pageTitle = 0
    /\ current = Section(<<>>, {}) /\ sections = <<>>
    /\ taken = 0 /\ pending = NoGroup /\ groups = <<>> /\ merged = <<>>
    /\ rest = {} /\ buffer = {} /\ bodies = <<>> /\ table = NoTable /\ mdTable = NoRows
    /\ pushed = 0 /\ chunks = <<>>

\* chunkMarkdown(document) is called.
ChunkMarkdown(document) ==
    /\ stage = "waiting"
    /\ content' = document
    /\ stage' = "sections"
    /\ UNCHANGED <<splitVars, fence, mergeVars, cutVars, pushed, chunks>>

-------------------------------------------------------------------------------
(* The trackers: what they hold after consuming a line. *)

\* A fence ends at a marker of its own depth, or with the blockquote it began in.
FenceAfter(f, l) ==
    LET open == f.inside /\ ~(l.depth < f.depth)
    IN  IF ~FenceMarker(l) THEN [f EXCEPT !.inside = open]
        ELSE IF ~open THEN [inside |-> TRUE, depth |-> l.depth]
        ELSE [f EXCEPT !.inside = (l.depth # f.depth)]

\* mutant: a table that is never closed is never given up
NoBound(t) == FALSE

PastBound(t) == t.tokens > TableBound

\* An HTML table ends with the blockquote it began in, or once past the bound.
TableOpened(t, l, mayOpen) ==
    LET stays == t.inside /\ ~(l.depth < t.depth) /\ ~PastBound(t)
    IN  IF ~stays /\ mayOpen /\ TableOpen(l)
          THEN [inside |-> TRUE, depth |-> l.depth, tokens |-> 0]
          ELSE [t EXCEPT !.inside = stays]

\* The line of </table> still belongs to the table.
TableAfter(t, l, n, mayOpen) ==
    LET o == TableOpened(t, l, mayOpen)
    IN  IF o.inside THEN [o EXCEPT !.tokens = @ + n, !.inside = ~TableClose(l)] ELSE o

\* A pipe table is a run of rows, up to the bound.
RowsOpened(t, l, mayOpen) ==
    LET stays == t.inside /\ ~PastBound(t)
    IN  IF ~stays /\ mayOpen /\ MdRow(l) THEN [inside |-> TRUE, tokens |-> 0]
        ELSE [t EXCEPT !.inside = stays /\ MdRow(l)]

RowsAfter(t, l, n, mayOpen) ==
    LET o == RowsOpened(t, l, mayOpen)
    IN  IF o.inside THEN [o EXCEPT !.tokens = @ + n] ELSE o

-------------------------------------------------------------------------------
(* splitIntoSections *)

NextLine == content[line + 1]

\* flush(): a section with nothing but blank lines is dropped.
Flushed == IF HasText(current.lines) THEN Append(sections, current) ELSE sections

ReadNext ==
    /\ stage = "sections" /\ line < Len(content)
    /\ line' = line + 1
    /\ fence' = FenceAfter(fence, NextLine)
    /\ UNCHANGED <<stage, content, mergeVars, cutVars, pushed, chunks>>

\* A heading inside a fence is code, not structure.
Structural == ~FenceMarker(NextLine) /\ ~FenceAfter(fence, NextLine).inside

ReadPage ==
    /\ ReadNext /\ Structural /\ PageHeading(NextLine)
    /\ sections' = Flushed
    /\ pageTitle' = line + 1
    /\ current' = Section(<<line + 1>>, {})

ReadSection ==
    /\ ReadNext /\ Structural /\ SectionHeading(NextLine)
    /\ sections' = Flushed
    /\ current' = Section(IF pageTitle = 0 THEN <<line + 1>>
                                           ELSE <<pageTitle, line + 1>>, {})
    /\ UNCHANGED pageTitle

ReadBody ==
    /\ ReadNext /\ ~(Structural /\ Heading(NextLine))
    /\ current' = [current EXCEPT !.lines = @ \cup {line + 1}]
    /\ UNCHANGED <<pageTitle, sections>>

\* With a minimum of 0 or less nothing is merged.
EndOfContent ==
    /\ stage = "sections" /\ line = Len(content)
    /\ sections' = Flushed
    /\ IF MinTokens <= 0 THEN stage' = "splitting" /\ merged' = Flushed
                         ELSE stage' = "merging" /\ UNCHANGED merged
    /\ UNCHANGED <<content, line, pageTitle, current, fence, taken, pending, groups,
                   cutVars, pushed, chunks>>

-------------------------------------------------------------------------------
(* mergeUndersizedSections *)

\* pending, with section s merged into it.
Grown(s) ==
    [lines |-> pending.lines \cup s.lines,
     parts |-> Append(pending.parts, [path |-> s.path, tokens |-> Tokens(s.lines)])]

GroupSection ==
    /\ stage = "merging" /\ taken < Len(sections)
    /\ LET grown == Grown(sections[taken + 1])
       IN  IF Tokens(grown.lines) >= MinTokens
             THEN groups' = Append(groups, grown) /\ pending' = NoGroup
             ELSE pending' = grown /\ UNCHANGED groups
    /\ taken' = taken + 1
    /\ UNCHANGED <<stage, content, splitVars, fence, merged, cutVars, pushed, chunks>>

\* mutant: a trailing run below the minimum is forgotten
ForgetsPending == groups

\* groupByMinimum's result: a trailing run that never reached the minimum too.
Grouped == IF pending.parts = <<>> THEN groups ELSE Append(groups, pending)

\* mutant: the trailing group stays below the minimum
NeverFolds(gs) == gs

FoldTrailing(gs) ==
    IF Len(gs) < 2 \/ Tokens(Last(gs).lines) >= MinTokens THEN gs
    ELSE LET previous == gs[Len(gs) - 1]
         IN  Append(SubSeq(gs, 1, Len(gs) - 2),
                    [lines |-> previous.lines \cup Last(gs).lines,
                     parts |-> previous.parts \o Last(gs).parts])

\* mutant: the path of whatever comes first
FirstPath(parts) == parts[1].path

\* The path of the first contribution with the most tokens.
DominantPath(parts) ==
    parts[CHOOSE k \in DOMAIN parts :
            \A j \in DOMAIN parts : /\ parts[j].tokens <= parts[k].tokens
                                    /\ j < k => parts[j].tokens < parts[k].tokens].path

FinishGroups ==
    /\ stage = "merging" /\ taken = Len(sections)
    /\ LET folded == FoldTrailing(Grouped)
       IN  merged' = [k \in DOMAIN folded |->
                         Section(DominantPath(folded[k].parts), folded[k].lines)]
    /\ taken' = 0
    /\ stage' = "splitting"
    /\ UNCHANGED <<content, splitVars, fence, pending, groups, cutVars, pushed, chunks>>

-------------------------------------------------------------------------------
(* splitOversizedSection *)

Splitting   == stage = "splitting" /\ taken < Len(merged)
NextSection == merged[taken + 1]

KeepWhole ==
    /\ Splitting
    /\ Tokens(NextSection.lines) <= MaxTokens
    /\ bodies' = <<NextSection.lines>>
    /\ stage' = "pushing"
    /\ UNCHANGED <<content, splitVars, fence, mergeVars, rest, buffer, table, mdTable,
                   pushed, chunks>>

BeginCut ==
    /\ Splitting
    /\ ~(Tokens(NextSection.lines) <= MaxTokens)
    /\ rest' = NextSection.lines
    /\ buffer' = {} /\ bodies' = <<>>
    /\ fence' = NoFence /\ table' = NoTable /\ mdTable' = NoRows
    /\ stage' = "cutting"
    /\ UNCHANGED <<content, splitVars, mergeVars, pushed, chunks>>

\* flush(): a buffer with nothing but blank lines is dropped.
Body(b) == IF HasText(b) THEN <<b>> ELSE <<>>

FenceNow(i) == FenceAfter(fence, content[i])

\* Both gates look at the trackers as they were before this line, but for the fence.
MayOpenTable(i) ==
    ~FenceNow(i).inside /\ ~table.inside /\ ~(mdTable.inside /\ MdRow(content[i]))
MayOpenRows(i) == ~FenceNow(i).inside /\ ~table.inside /\ ~mdTable.inside

Opens(i) == \/ MayOpenTable(i) /\ TableOpen(content[i])
            \/ MayOpenRows(i) /\ MdRow(content[i])

\* A table opens: a buffer that has reached the target is flushed before it.
FlushFirst(i) == Opens(i) /\ buffer # {} /\ Tokens(buffer) >= TargetTokens
BodiesAt(i)   == IF FlushFirst(i) THEN bodies \o Body(buffer) ELSE bodies
BufferAt(i)   == IF FlushFirst(i) THEN {} ELSE buffer

InTable(i) == \/ TableOpened(table, content[i], MayOpenTable(i)).inside
              \/ RowsOpened(mdTable, content[i], MayOpenRows(i)).inside

\* mutant: the marker that ends a fence is a line like any other
AtomicButClosers(i) == FenceNow(i).inside \/ InTable(i)

\* Never a place to break: a fence marker, a line in a fence or in a table.
Atomic(i) == FenceMarker(content[i]) \/ FenceNow(i).inside \/ InTable(i)

CutNext(i) ==
    /\ stage = "cutting"
    /\ i \in rest /\ \A j \in rest : i <= j
    /\ rest' = rest \ {i}
    /\ fence' = FenceNow(i)
    /\ table' = TableAfter(table, content[i], Tokens({i}), MayOpenTable(i))
    /\ mdTable' = RowsAfter(mdTable, content[i], Tokens({i}), MayOpenRows(i))
    /\ UNCHANGED <<stage, content, splitVars, mergeVars, pushed, chunks>>

CutAtomicLine(i) ==
    /\ CutNext(i) /\ Atomic(i)
    /\ bodies' = BodiesAt(i)
    /\ buffer' = BufferAt(i) \cup {i}

\* With this line the buffer would be above the maximum.
Overfull(i) == BufferAt(i) # {} /\ Tokens(BufferAt(i) \cup {i}) > MaxTokens

CutPlainLine(i) ==
    /\ CutNext(i) /\ ~Atomic(i)
    /\ LET before == IF Overfull(i) THEN BodiesAt(i) \o Body(BufferAt(i)) ELSE BodiesAt(i)
           full   == (IF Overfull(i) THEN {} ELSE BufferAt(i)) \cup {i}
           break  == Blank(content[i]) /\ Tokens(full) >= TargetTokens
       IN  /\ bodies' = IF break THEN before \o Body(full) ELSE before
           /\ buffer' = IF break THEN {} ELSE full

\* A last body below the minimum joins the one before it, under the maximum.
FoldShortTrailing(bs) ==
    IF \/ Len(bs) < 2
       \/ Tokens(Last(bs)) >= MinTokens
       \/ Tokens(bs[Len(bs) - 1] \cup Last(bs)) > MaxTokens
    THEN bs
    ELSE Append(SubSeq(bs, 1, Len(bs) - 2), bs[Len(bs) - 1] \cup Last(bs))

EndCut ==
    /\ stage = "cutting" /\ rest = {}
    /\ bodies' = FoldShortTrailing(bodies \o Body(buffer))
    /\ buffer' = {}
    /\ stage' = "pushing"
    /\ UNCHANGED <<content, splitVars, fence, mergeVars, rest, table, mdTable, pushed,
                   chunks>>

-------------------------------------------------------------------------------
(* The chunks *)

\* ordinal is the index of the chunk, counted from 0.
PushChunk ==
    /\ stage = "pushing" /\ pushed < Len(bodies)
    /\ LET trimmed == Trimmed(bodies[pushed + 1])
       IN  chunks' = IF trimmed = {} THEN chunks
                     ELSE Append(chunks, [lines  |-> trimmed,
                                          path   |-> NextSection.path,
                                          tokens |-> Tokens(trimmed)])
    /\ pushed' = pushed + 1
    /\ UNCHANGED <<stage, content, splitVars, fence, mergeVars, cutVars>>

SectionDone ==
    /\ stage = "pushing" /\ pushed = Len(bodies)
    /\ bodies' = <<>> /\ pushed' = 0
    /\ taken' = taken + 1
    /\ stage' = "splitting"
    /\ UNCHANGED <<content, splitVars, fence, pending, groups, merged, rest, buffer,
                   table, mdTable, chunks>>

Return ==
    /\ stage = "splitting" /\ taken = Len(merged)
    /\ stage' = "done"
    /\ UNCHANGED <<content, splitVars, fence, mergeVars, cutVars, pushed, chunks>>

ChunkNext ==
    \/ ReadPage \/ ReadSection \/ ReadBody \/ EndOfContent
    \/ GroupSection \/ FinishGroups
    \/ KeepWhole \/ BeginCut
    \/ \E i \in rest : CutAtomicLine(i) \/ CutPlainLine(i)
    \/ EndCut
    \/ PushChunk \/ SectionDone \/ Return
===============================================================================
