-------------------------------- MODULE Document ------------------------------
(***************************************************************************)
(* parseDocument: a raw page is cleaned, and the cleaned content is cut    *)
(* into chunks.  Anything thrown on the way is caught and the page is      *)
(* skipped; the tokenizer is the one call here that throws.                *)
(***************************************************************************)
EXTENDS Cleaner, Chunker

CONSTANT Pages                   \* raw pages, as sequences of lines

\* A line with a > is not blank.
ASSUME DocumentAssumption ==
    \A page \in Pages :
        /\ page \in Seq(Line)
        /\ \A i \in DOMAIN page : /\ page[i].text = i
                                  /\ Blank(page[i]) => page[i].depth = 0

vars == <<cleanVars, chunkVars>>

Init == raw \in Pages /\ CleanInit /\ ChunkInit

Clean == CleanNext /\ UNCHANGED chunkVars

Chunk == ChunkNext /\ UNCHANGED cleanVars

StartChunking == cleaned /\ ChunkMarkdown(output) /\ UNCHANGED cleanVars

\* The catch: what was built is dropped and null is returned.
ParseFails ==
    /\ stage \in {"merging", "splitting", "cutting", "pushing"}
    /\ stage' = "skipped"
    /\ fence' = NoFence /\ pageTitle' = 0
    /\ current' = Section(<<>>, {}) /\ sections' = <<>>
    /\ taken' = 0 /\ pending' = NoGroup /\ groups' = <<>> /\ merged' = <<>>
    /\ rest' = {} /\ buffer' = {} /\ bodies' = <<>> /\ table' = NoTable /\ mdTable' = NoRows
    /\ pushed' = 0 /\ chunks' = <<>>
    /\ UNCHANGED <<content, line, cleanVars>>

Next == Clean \/ StartChunking \/ Chunk \/ ParseFails

Spec == Init /\ [][Next]_vars

-------------------------------------------------------------------------------
(* Type correctness *)

CleanTypeOK ==
    /\ raw \in Seq(Line)
    /\ read \in 0..Len(raw)
    /\ insideFence \in BOOLEAN
    /\ skippingSwitchBranch \in BOOLEAN
    /\ tableBuffer \in Seq(Line)
    /\ output \in Seq(Line)
    /\ cleaned \in BOOLEAN

Position == 1..Len(content)
Sections == [path : Seq(Position), lines : SUBSET Position]
Groups   == [lines : SUBSET Position, parts : Seq([path : Seq(Position), tokens : Nat])]

ChunkTypeOK ==
    /\ stage \in {"waiting", "sections", "merging", "splitting", "cutting", "pushing",
                  "done", "skipped"}
    /\ content \in Seq(Line)
    /\ line \in 0..Len(content)
    /\ fence \in [inside : BOOLEAN, depth : Nat]
    /\ pageTitle \in 0..Len(content)
    /\ current \in Sections
    /\ sections \in Seq(Sections)
    /\ taken \in 0..Len(IF stage = "merging" THEN sections ELSE merged)
    /\ stage \in {"waiting", "sections"} => taken = 0
    /\ stage \in {"cutting", "pushing"} => taken < Len(merged)
    /\ pending \in Groups
    /\ groups \in Seq(Groups)
    /\ merged \in Seq(Sections)
    /\ rest \in SUBSET Position
    /\ buffer \in SUBSET Position
    /\ bodies \in Seq(SUBSET Position)
    /\ table \in [inside : BOOLEAN, depth : Nat, tokens : Nat]
    /\ mdTable \in [inside : BOOLEAN, tokens : Nat]
    /\ pushed \in 0..Len(bodies)
    /\ stage # "pushing" => pushed = 0
    /\ chunks \in Seq([lines : SUBSET Position, path : Seq(Position), tokens : Nat])

\* Types; only inside a fence is a branch skipped, and what is chunked is what the
\* cleaner returned.
TypeOK ==
    /\ CleanTypeOK
    /\ ChunkTypeOK
    /\ skippingSwitchBranch => insideFence
    /\ stage # "waiting" => cleaned /\ content = output

-------------------------------------------------------------------------------
(* Cleaning *)

JustCleaned == cleaned /\ stage = "waiting"

\* How a reader of the raw page sees it.
Fences(i)  == Cardinality({j \in 1..i : TopFence(raw[j])})
InFence(i) == Fences(i) % 2 = 1
TableAt(a, b) == /\ OpensTable(raw[a]) /\ ~InFence(a)
                 /\ TableClose(raw[b])
                 /\ \A k \in a..(b - 1) : ~TableClose(raw[k])
OpenTable(a, i) == /\ OpensTable(raw[a]) /\ ~InFence(a)
                   /\ \A k \in a..(i - 1) : ~TableClose(raw[k])
OpenTableBefore(i) == \E a \in 1..(i - 1) : OpenTable(a, i)

\* A directive of an example; in an open table it is a line like any other.
Directive(i, kinds) == InFence(i) /\ raw[i].kind \in kinds /\ ~OpenTableBefore(i)

\* From @@switch to the end of the example.
JsHalf(i) == InFence(i) /\ \E j \in 1..i : Directive(j, {"switch"}) /\ Fences(j) = Fences(i)

\* Inside a table a fence marker overtakes the rows, and the first header row any
\* row that stands before it.
Overtakes(i) ==
    \E a \in 1..(i - 1) :
        /\ OpenTable(a, i)
        /\ \/ TopFence(raw[i])
           \/ HeaderRow(raw[i]) /\ \E r \in a..(i - 1) : TableRow(raw[r])

\* What cleaning may leave out: a directive, the JavaScript half, and of a table with
\* rows all that is not a row, and any header row but the first.
MayGo(i) ==
    \/ Blank(raw[i])
    \/ Directive(i, {"filename"})
    \/ JsHalf(i)
    \/ \E a \in 1..i, b \in i..Len(raw) :
          /\ TableAt(a, b)
          /\ \E r \in a..b : TableRow(raw[r])
          /\ TableRow(raw[i]) => /\ HeaderRow(raw[i])
                                 /\ \E r \in a..(i - 1) : HeaderRow(raw[r])

\* The raw lines that are left in a list, and whether they are in their order.
HasLine(s, i)  == \E k \in DOMAIN s : s[k].text = i
Increasing(s)  == \A k, m \in DOMAIN s : k < m /\ s[m].text # 0 => s[k].text < s[m].text
WithoutJs(s)   == \A k \in DOMAIN s : s[k].text # 0 => ~JsHalf(s[k].text)
NoneOvertakes  == ~\E i \in DOMAIN raw : Overtakes(i)

\* A line of the page survives cleaning unless it may go, and the lines that do keep
\* their order, unless one overtakes the table it stands in.
LinesSurviveCleaning ==
    JustCleaned =>
        /\ \A i \in DOMAIN raw : MayGo(i) \/ HasLine(output, i)
        /\ NoneOvertakes => Increasing(output)

\* No line of the JavaScript half of an example is left.
JavaScriptIsDropped == JustCleaned => WithoutJs(output)

-------------------------------------------------------------------------------
(* Chunking *)

Before(S, T) == \A i \in S, j \in T : i < j

\* Every line of the content that is neither blank nor a heading is in one chunk, and
\* the chunks follow the order of the document.
EveryLineOnceInOrder ==
    stage = "done" =>
        /\ \A i \in DOMAIN content :
              \/ Blank(content[i]) \/ Heading(content[i])
              \/ \E c \in DOMAIN chunks : i \in chunks[c].lines
        /\ \A c, d \in DOMAIN chunks : c < d => Before(chunks[c].lines, chunks[d].lines)

HasFence(S) == \E i \in S : FenceMarker(content[i])
HasTable(S) == \E i \in S : TableOpen(content[i]) \/ MdRow(content[i])

\* A buffer is below the target when a table opens, and the table up to its last line
\* within the bound; each line is counted by itself, and so is its newline here.
Newlines(S)   == NewlineTokens * Cardinality(S)
TableLimit(S) == TargetTokens + TableBound + Newlines(S)

WithinCeiling(S) ==
    \/ Tokens(S) <= MaxTokens
    \/ \E i \in S : S = {i}
    \/ HasFence(S)
    \/ /\ HasTable(S)
       /\ \E last \in S : /\ \A j \in S : j <= last
                          /\ Tokens(S \ {last}) < TableLimit(S \ {last})

\* A chunk above the maximum is one line, or holds a fence or a table; if it holds no
\* fence, then what the table brought in is bounded.
CeilingHolds == stage = "done" => \A c \in DOMAIN chunks : WithinCeiling(chunks[c].lines)

\* The lines of the page from a to b lie in one chunk.
OneChunk(a, b) ==
    \A c, d \in DOMAIN chunks :
        \A i \in chunks[c].lines, j \in chunks[d].lines :
            content[i].text \in a..b /\ content[j].text \in a..b => c = d

FenceAt(a, b) == TopFence(raw[a]) /\ TopFence(raw[b]) /\ InFence(a) /\ Fences(b) = Fences(a) + 1

\* A fence of the page lies in one chunk, however long it is, unless a table before it
\* was left open.
FencesStayWhole ==
    stage = "done" => \A a, b \in DOMAIN raw :
        FenceAt(a, b) /\ ~OpenTableBefore(a) => OneChunk(a, b)

\* A mention of <table> before line i that the chunker took for a table, and has seen
\* no end tag since.
MistakenTableBefore(i) ==
    \E m \in 1..(i - 1) :
        /\ raw[m].kind = "mention" /\ ~InFence(m) /\ HasLine(content, m)
        /\ \A k \in DOMAIN content :
              content[k].text \in m..(i - 1) => ~TableClose(content[k])

\* The tokens of some lines of the content, each counted by itself.
LineTokens(S) ==
    LET sum[n \in 0..Len(content)] ==
            IF n = 0 THEN 0 ELSE sum[n - 1] + (IF n \in S THEN Tokens({n}) ELSE 0)
    IN  sum[Len(content)]

\* Rows of a pipe table, and a table that becomes one.
RowsAt(a, b)      == \A k \in a..b : MdRow(raw[k]) /\ ~InFence(k)
PipeTableAt(a, b) == /\ TableAt(a, b)
                     /\ \A k \in a..b : ~TopFence(raw[k])
                     /\ \E k \in a..b : HeaderRow(raw[k])

\* A table that stays as it is: no line of it is shallower than its first, and in a
\* blockquote it holds no fence.
TagTableAt(a, b) ==
    /\ TableAt(a, b)
    /\ \A k \in a..b : /\ ~TableRow(raw[k]) /\ ~TopFence(raw[k]) /\ ~Heading(raw[k])
                       /\ raw[k].depth >= raw[a].depth
                       /\ FenceMarker(raw[k]) => raw[a].depth = 0

RowsWithinBound   == LineTokens({i \in DOMAIN content : MdRow(content[i])}) <= TableBound
WithinBound(a, b) == LineTokens({i \in DOMAIN content : content[i].text \in a..b}) <= TableBound

\* A table, or a run of rows, lies in one chunk, if it is within the bound, or all rows
\* of the page are; unless a table before it was left open, or is one for the chunker
\* only.
TablesStayWhole ==
    stage = "done" => \A a, b \in DOMAIN raw :
        (/\ \/ RowsWithinBound /\ (RowsAt(a, b) \/ PipeTableAt(a, b))
            \/ TagTableAt(a, b) /\ WithinBound(a, b)
         /\ ~OpenTableBefore(a) /\ ~MistakenTableBefore(a))
        => OneChunk(a, b)

Markers(s, i, j) == {k \in i..j : FenceMarker(s[k])}

\* Lines a and b are the markers of a fence in the blockquote that begins with line q:
\* prose may stand before it in the quote, and other such fences.
QuotedPair(s, q, a, b) ==
    /\ q <= a /\ a < b
    /\ q = 1 \/ s[q - 1].depth < s[a].depth
    /\ \A k \in q..b : s[k].depth >= s[a].depth
    /\ FenceMarker(s[a]) /\ FenceMarker(s[b])
    /\ 0 < s[a].depth /\ s[b].depth = s[a].depth
    /\ Markers(s, a + 1, b - 1) = {}
    /\ \A k \in Markers(s, q, a - 1) : s[k].depth = s[a].depth
    /\ Cardinality(Markers(s, q, a - 1)) % 2 = 0

\* A fence in a blockquote of the page, with no table in the quote before its end.  The
\* cleaner does not see such a fence.
QuotedFenceAt(a, b) ==
    \E q \in 1..a : /\ QuotedPair(raw, q, a, b)
                    /\ ~InFence(q) /\ ~OpenTableBefore(q)
                    /\ \A k \in q..b : ~OpensTable(raw[k])

\* A line that is not held back with a table.
AtOnce(i) == ~OpenTableBefore(i) /\ (InFence(i) \/ ~OpensTable(raw[i]))

\* A line of the page at which a quote of depth d ends for the chunker too: it survives
\* cleaning, where it stands, and is no heading.
EndsQuote(k, d) == raw[k].depth < d /\ AtOnce(k) /\ ~MayGo(k) /\ ~Heading(raw[k])

\* A marker in a blockquote before line i that is not one of such a pair, and from which
\* on there is nothing that ends its quote.
LooseFenceBefore(i) ==
    \E m \in 1..(i - 1) :
        /\ FenceMarker(raw[m]) /\ raw[m].depth > 0
        /\ OpenTableBefore(m) \/ ~InFence(m)
        /\ ~\E n \in DOMAIN raw : QuotedFenceAt(m, n) \/ QuotedFenceAt(n, m)
        /\ ~\E k \in (m + 1)..i : EndsQuote(k, raw[m].depth)

\* A quoted fence lies in one chunk, unless a quoted marker without its counterpart is
\* followed by nothing but headings, blank lines and quotes up to it: the headings are
\* gone when the merged section is scanned again, and the one fence may end the other.
QuotedFencesStayWhole ==
    stage = "done" => \A a, b \in DOMAIN raw :
        QuotedFenceAt(a, b) /\ ~LooseFenceBefore(a) => OneChunk(a, b)

\* What a chunk must not tear apart, as far as the code keeps it whole: the fences, the
\* tables and the quoted fences of the page.
RegionsStayWhole == FencesStayWhole /\ TablesStayWhole /\ QuotedFencesStayWhole

WholeSection(S) == \E k \in DOMAIN merged : S = Trimmed(merged[k].lines)

\* A section that is below the minimum, with all that was merged into it, makes a chunk
\* only when that is the only one.
StraySectionsMerge ==
    stage = "done" =>
        \A c \in DOMAIN chunks, k \in DOMAIN merged :
            chunks[c].lines = Trimmed(merged[k].lines) =>
                Len(chunks) = 1 \/ Tokens(merged[k].lines) >= MinTokens

\* A chunk that is not a piece of a longer section bears the heading of a section that
\* lies in it, and of one that is as long as any other in it.
LabelledByLargestPart ==
    stage = "done" =>
        \A c \in DOMAIN chunks :
            LET S == chunks[c].lines
                parts == {k \in DOMAIN sections : sections[k].lines \cap S # {}}
            IN  WholeSection(S) =>
                    \E k \in parts :
                        /\ sections[k].path = chunks[c].path
                        /\ \A j \in parts :
                              Tokens(sections[j].lines) <= Tokens(sections[k].lines)

-------------------------------------------------------------------------------
(***************************************************************************)
(* Why cleaning drops no more than it may: what the flags of the loop say  *)
(* of the page, and where its lines are: gone, output, or in the buffer.   *)
(***************************************************************************)
FlagsInv ==
    /\ insideFence <=> InFence(read)
    /\ skippingSwitchBranch <=> JsHalf(read)
    /\ skippingSwitchBranch => tableBuffer = <<>>
    /\ tableBuffer # <<>> <=> OpenTableBefore(read + 1)

\* The buffer holds lines of the table that opened last, as they are in the page.
BufferInv ==
    /\ \A k \in DOMAIN tableBuffer : /\ tableBuffer[k].text \in 1..read
                                     /\ tableBuffer[k] = raw[tableBuffer[k].text]
    /\ Increasing(tableBuffer)
    /\ tableBuffer # <<>> => OpenTable(tableBuffer[1].text, read + 1)

\* Of the first n lines, one that may not go is output already or still in the buffer.
LinesKept(out, buf, n) ==
    /\ \A k \in DOMAIN out :
          /\ out[k].text \in 0..n
          /\ Blank(out[k]) => out[k].text # 0 /\ Blank(raw[out[k].text])
    /\ \A i \in 1..n : MayGo(i) \/ HasLine(out, i) \/ HasLine(buf, i)
    /\ WithoutJs(out) /\ WithoutJs(buf)
    /\ NoneOvertakes =>
          /\ Increasing(out)
          /\ \A k \in DOMAIN out, m \in DOMAIN buf : out[k].text < buf[m].text

\* The same of the content that is returned.
ContentKept(out) ==
    /\ \A k \in DOMAIN out : Blank(out[k]) => out[k].text # 0 /\ Blank(raw[out[k].text])
    /\ \A i \in DOMAIN raw : MayGo(i) \/ HasLine(out, i)
    /\ NoneOvertakes => Increasing(out)
    /\ WithoutJs(out)

CleanerInv ==
    /\ \A i \in DOMAIN raw : raw[i].text = i
    /\ ~cleaned => FlagsInv /\ BufferInv /\ LinesKept(output, tableBuffer, read)
    /\ cleaned => ContentKept(output)

(***************************************************************************)
(* Why no line is lost: at every stage the lines that count are divided,   *)
(* in the order of the document, among the lists the stage works on.       *)
(***************************************************************************)
Counts == {i \in Position : ~Blank(content[i]) /\ ~Heading(content[i])}

\* Lists of records with lines, and lists of sets, in the order of the document.
InOrder(s)     == \A a, b \in DOMAIN s : a < b => Before(s[a].lines, s[b].lines)
SetsInOrder(s) == \A a, b \in DOMAIN s : a < b => Before(s[a], s[b])

\* Those of a list from its n-th on.
From(s, n) == {k \in DOMAIN s : k >= n}

SectionsInv ==
    /\ InOrder(sections)
    /\ \A k \in DOMAIN sections : Before(sections[k].lines, current.lines)
    /\ \A k \in DOMAIN sections : sections[k].lines \subseteq 1..line
    /\ current.lines \subseteq 1..line
    /\ \A i \in Counts \cap 1..line :
          i \in current.lines \/ \E k \in DOMAIN sections : i \in sections[k].lines

MergingInv ==
    /\ InOrder(sections)
    /\ InOrder(groups)
    /\ \A g \in DOMAIN groups : Before(groups[g].lines, pending.lines)
    /\ \A k \in From(sections, taken + 1) :
          /\ Before(pending.lines, sections[k].lines)
          /\ \A g \in DOMAIN groups : Before(groups[g].lines, sections[k].lines)
    /\ pending.parts = <<>> => pending.lines = {}
    /\ \A i \in Counts :
          \/ i \in pending.lines
          \/ \E g \in DOMAIN groups : i \in groups[g].lines
          \/ \E k \in From(sections, taken + 1) : i \in sections[k].lines

\* The chunks so far, and the merged sections from the n-th on.
MergedInv(n) ==
    /\ InOrder(merged)
    /\ InOrder(chunks)
    /\ \A c \in DOMAIN chunks, k \in From(merged, n) :
          Before(chunks[c].lines, merged[k].lines)

SplittingInv ==
    /\ MergedInv(taken + 1)
    /\ \A i \in Counts :
          \/ \E c \in DOMAIN chunks : i \in chunks[c].lines
          \/ \E k \in From(merged, taken + 1) : i \in merged[k].lines

\* The section being cut is divided into bodies, a buffer and the lines to come.
CutInto(bs, buf, left) ==
    /\ left \cup buf \subseteq NextSection.lines
    /\ \A b \in DOMAIN bs : bs[b] \subseteq NextSection.lines
    /\ SetsInOrder(bs)
    /\ \A b \in DOMAIN bs : Before(bs[b], buf) /\ Before(bs[b], left)
    /\ Before(buf, left)
    /\ \A i \in Counts \cap NextSection.lines :
          i \in left \cup buf \/ \E b \in DOMAIN bs : i \in bs[b]

CuttingInv == SplittingInv /\ CutInto(bodies, buffer, rest)

PushingInv ==
    /\ MergedInv(taken + 2)
    /\ \A b \in DOMAIN bodies : bodies[b] \subseteq NextSection.lines
    /\ SetsInOrder(bodies)
    /\ \A c \in DOMAIN chunks, b \in From(bodies, pushed + 1) :
          Before(chunks[c].lines, bodies[b])
    /\ \A i \in Counts :
          \/ \E c \in DOMAIN chunks : i \in chunks[c].lines
          \/ \E b \in From(bodies, pushed + 1) : i \in bodies[b]
          \/ \E k \in From(merged, taken + 2) : i \in merged[k].lines

\* The inductive invariants: the types, and what holds at each stage.
TypeInv ==
    /\ TypeOK
    /\ stage = "waiting" => ChunkInit
    /\ \A g \in DOMAIN groups : groups[g].parts # <<>>

DocumentInv ==
    /\ stage = "sections" =>
          /\ SectionsInv
          /\ pending = NoGroup /\ groups = <<>> /\ merged = <<>>
          /\ bodies = <<>> /\ chunks = <<>>
    /\ stage = "merging" => MergingInv /\ bodies = <<>> /\ chunks = <<>>
    /\ stage = "splitting" => SplittingInv /\ bodies = <<>>
    /\ stage = "cutting" => CuttingInv
    /\ stage = "pushing" => PushingInv
    /\ EveryLineOnceInOrder

(***************************************************************************)
(* Why headings and sizes are right: where the parts of a merged section   *)
(* come from, and how large a buffer and a table in it may have become.    *)
(***************************************************************************)
Contribution(k) == [path |-> sections[k].path, tokens |-> Tokens(sections[k].lines)]

\* The contributions are those of the sections the lines are made of.
MadeOf(lines, parts) ==
    /\ \A p \in DOMAIN parts : \E k \in DOMAIN sections :
          sections[k].lines \subseteq lines /\ parts[p] = Contribution(k)
    /\ \A k \in DOMAIN sections :
          sections[k].lines \cap lines # {} => \E p \in DOMAIN parts : parts[p] = Contribution(k)

\* The path is that of a section within the lines, and of one as long as any in them.
FittingPath(lines, path) ==
    \E k \in DOMAIN sections :
        /\ sections[k].lines \subseteq lines
        /\ sections[k].path = path
        /\ \A j \in DOMAIN sections :
              sections[j].lines \cap lines # {} =>
                  Tokens(sections[j].lines) <= Tokens(sections[k].lines)

\* Mergers end when there is one section left, or none below the minimum.
MergedFit ==
    /\ InOrder(merged)
    /\ \A m \in DOMAIN merged : FittingPath(merged[m].lines, merged[m].path)
    /\ Len(merged) <= 1 \/ \A m \in DOMAIN merged : Tokens(merged[m].lines) >= MinTokens

\* A chunk lies in a merged section, and bears its heading.
ChunksFit ==
    \A c \in DOMAIN chunks :
        /\ HasText(chunks[c].lines)
        /\ \E m \in DOMAIN merged : /\ chunks[c].lines \subseteq merged[m].lines
                                    /\ chunks[c].path = merged[m].path

MergersInv ==
    /\ \A k \in DOMAIN sections : HasText(sections[k].lines)
    /\ stage = "merging" =>
          /\ MadeOf(pending.lines, pending.parts)
          /\ \A g \in DOMAIN groups : /\ MadeOf(groups[g].lines, groups[g].parts)
                                      /\ Tokens(groups[g].lines) >= MinTokens
    /\ stage \in {"splitting", "cutting", "pushing", "done"} => MergedFit /\ ChunksFit

\* What holds of a body however it is trimmed.
BodyWithinCeiling(S) ==
    \/ Tokens(S) <= MaxTokens
    \/ \E i \in S : S = {i}
    \/ HasFence(S)
    \/ /\ HasTable(S)
       /\ \E last \in S : /\ \A j \in S : j <= last
                          /\ \A U \in SUBSET (S \ {last}) : Tokens(U) < TableLimit(U)

\* Unless it holds a fence, a buffer has less than the target and n tokens more.
TargetAnd(n, S) ==
    HasFence(S) \/ \A U \in SUBSET S : Tokens(U) < TargetTokens + n + Newlines(U)

\* While a table is open the buffer holds its first line, and besides the tokens
\* counted for the table it has less than the target.
SizesInv ==
    /\ stage = "cutting" =>
          /\ BodyWithinCeiling(buffer)
          /\ fence.inside => HasFence(buffer)
          /\ table.inside => HasTable(buffer) /\ TargetAnd(table.tokens, buffer)
          /\ mdTable.inside => HasTable(buffer) /\ TargetAnd(mdTable.tokens, buffer)
    /\ stage \in {"cutting", "pushing"} =>
          \A b \in DOMAIN bodies : BodyWithinCeiling(bodies[b])
    /\ \A c \in DOMAIN chunks : WithinCeiling(chunks[c].lines)

(***************************************************************************)
(* Why regions stay whole.  In the cleaner: where the lines of the page    *)
(* come to stand in what is output.                                        *)
(***************************************************************************)
TopFences(s, k) == Cardinality({j \in 1..k : TopFence(s[j])})

\* A line is as it was in the page, or a row of a table that was converted.
Verbatim(out) ==
    \A k \in DOMAIN out :
        LET i == out[k].text
        IN  IF i = 0 THEN out[k] = Separator
            ELSE /\ i \in DOMAIN raw
                 /\ \/ out[k] = raw[i]
                    \/ /\ TableRow(raw[i]) /\ OpenTableBefore(i)
                       /\ out[k] \in {AsRow(raw[i]), AsItem(raw[i])}

\* A line is held back with its table up to the end tag, or to the end of the page.
Held(i)     == ~AtOnce(i) /\ ~TopFence(raw[i])
Closing(i)  == CHOOSE c \in i..(Len(raw) + 1) :
                  /\ c <= Len(raw) => TableClose(raw[c])
                  /\ \A k \in i..(c - 1) : ~TableClose(raw[k])
OutputAt(i) == IF Held(i) THEN Closing(i) ELSE i

\* Lines that have not been converted are in order; where one is moved, it is with the
\* rest of its table.
Sorted(out) ==
    \A j, k \in DOMAIN out :
        LET a == out[j].text
            b == out[k].text
        IN  j < k /\ a # 0 /\ b # 0 =>
                \/ OutputAt(a) < OutputAt(b)
                \/ /\ OutputAt(a) = OutputAt(b)
                   /\ out[j] = raw[a] /\ out[k] = raw[b] => a < b

\* A line is in a fence, or not, as that is with which it is output.
FencesKept(out) ==
    \A k \in DOMAIN out :
        out[k].text # 0 /\ OutputAt(out[k].text) \in DOMAIN raw =>
            TopFences(out, k) = Fences(OutputAt(out[k].text))

\* A table that is closed is output with its end tag, or, if it has a header row, as
\* rows; a separator is in such a table.
TablesKept(out) ==
    \A k \in DOMAIN out :
        LET i == out[k].text
        IN  /\ i # 0 /\ Held(i) /\ Closing(i) \in DOMAIN raw =>
                  /\ out[k] = raw[i] => HasLine(out, Closing(i))
                  /\ (\E h \in DOMAIN raw : Held(h) /\ Closing(h) = Closing(i) /\ HeaderRow(raw[h]))
                        => MdRow(out[k])
            /\ i = 0 => /\ k > 1 /\ out[k - 1].text # 0
                        /\ Held(out[k - 1].text) /\ TableRow(raw[out[k - 1].text])

\* The line before a quoted one is the one before it in the page, or is not quoted.
QuotesKept(out) ==
    \A k \in DOMAIN out :
        LET i == out[k].text
        IN  i > 1 /\ AtOnce(i) /\ ~InFence(i) /\ ~TopFence(raw[i]) =>
                k > 1 /\ (out[k - 1] = raw[i - 1] \/ out[k - 1].depth = 0)

\* The buffer holds all lines of its table but the fence markers.
BufferWhole ==
    /\ \A k \in DOMAIN tableBuffer : ~TopFence(tableBuffer[k]) /\ ~TableClose(tableBuffer[k])
    /\ tableBuffer # <<>> =>
          /\ ~OpenTableBefore(tableBuffer[1].text)
          /\ \A i \in tableBuffer[1].text..read : TopFence(raw[i]) \/ HasLine(tableBuffer, i)

\* While lines are read.
ReadInv ==
    /\ BufferWhole
    /\ TopFences(output, Len(output)) = Fences(read)
    /\ \A k \in DOMAIN output : output[k].text # 0 => OutputAt(output[k].text) <= read
    /\ read > 0 /\ ~InFence(read) /\ tableBuffer = <<>> =>
          /\ output # <<>>
          /\ output[Len(output)] = raw[read] \/ output[Len(output)].depth = 0

PlacedInv ==
    /\ \A i \in DOMAIN raw : Blank(raw[i]) => raw[i].depth = 0
    /\ Verbatim(output) /\ Sorted(output) /\ FencesKept(output) /\ TablesKept(output)
    /\ QuotesKept(output)
    /\ ~cleaned => ReadInv

(***************************************************************************)
(* In the chunker: which lines of the content are tied to the line before  *)
(* them, and what the trackers say of the line that is scanned next.       *)
(***************************************************************************)
Fenced(k) == TopFences(content, k) % 2 = 1

\* A tag before line p is one of an open table to the chunker.
TagOpenBefore(p) ==
    \E q \in 1..(p - 1) : /\ TableOpen(content[q]) /\ ~Fenced(q)
                          /\ \A k \in q..(p - 1) : ~TableClose(content[k])

RowTied(z) ==
    /\ z > 1 /\ RowsWithinBound
    /\ MdRow(content[z - 1]) /\ MdRow(content[z])
    /\ ~Fenced(z) /\ ~TagOpenBefore(z)

TagTable(q, r) ==
    /\ TableOpen(content[q]) /\ ~Fenced(q) /\ ~TagOpenBefore(q)
    /\ \A k \in q..(r - 1) : ~TableClose(content[k])
    /\ \A k \in q..r : /\ ~TopFence(content[k]) /\ ~Heading(content[k])
                       /\ content[k].depth >= content[q].depth
                       /\ FenceMarker(content[k]) => content[q].depth = 0
    /\ LineTokens(q..r) <= TableBound

QuotePair(x, n) == ~Fenced(x) /\ \E p \in 1..x : QuotedPair(content, p, x, n)

\* A marker in a blockquote that is not one of a pair.
Loose(m) ==
    /\ FenceMarker(content[m]) /\ content[m].depth > 0 /\ ~Fenced(m)
    /\ ~\E n \in Position : QuotePair(m, n) \/ QuotePair(n, m)

\* From line m up to line p no line ends the quote of line m.
Reaches(m, p) ==
    \A k \in (m + 1)..p :
        Blank(content[k]) \/ Heading(content[k]) \/ content[k].depth >= content[m].depth

\* The quote of no loose marker reaches line p.
Quiet(p) == ~\E m \in 1..(p - 1) : Loose(m) /\ Reaches(m, p)

\* Line z may not be parted from the one before it.
Tied(z) ==
    \/ Fenced(z - 1)
    \/ RowTied(z)
    \/ \E q, r \in Position : TagTable(q, r) /\ q < z /\ z <= r
    \/ \E x, n \in Position : QuotePair(x, n) /\ Quiet(x) /\ x < z /\ z <= n

\* Of the lines up to the n-th, a set holds all or none of those tied together.
ClosedUpTo(S, n) == \A z \in 2..n : Tied(z) => (z - 1 \in S <=> z \in S)
Closed(S)        == ClosedUpTo(S, Len(content))

TopIn(f) == f.inside /\ f.depth = 0

\* Before line i a quoted fence is open: one of a pair, or one due to a loose marker.
QuoteOpen(i, f) ==
    \/ \E x, n \in Position : QuotePair(x, n) /\ x < i /\ i <= n /\ f.depth = content[x].depth
    \/ \E m \in 1..(i - 1) : Loose(m) /\ Reaches(m, i - 1) /\ content[m].depth <= f.depth

\* What the trackers hold when line i is scanned next.
FenceSays(i, f) ==
    /\ TopIn(f) <=> Fenced(i - 1)
    /\ f.inside /\ f.depth > 0 => QuoteOpen(i, f)
    /\ \A x, n \in Position : QuotePair(x, n) /\ Quiet(x) /\ x < i /\ i <= n =>
          f.inside /\ f.depth = content[x].depth

TableSays(i, f, t) ==
    /\ t.inside => TagOpenBefore(i)
    /\ \A q, r \in Position : TagTable(q, r) /\ q < i /\ i <= r =>
          \/ /\ t.inside /\ t.depth = content[q].depth
             /\ t.tokens <= LineTokens(q..(i - 1))
          \/ f.inside /\ 0 < f.depth /\ f.depth <= content[q].depth

RowsSay(i, t) ==
    /\ t.inside => t.tokens <= LineTokens({k \in 1..(i - 1) : MdRow(content[k])})
    /\ RowTied(i) => t.inside

Say(i, f, t, m) == FenceSays(i, f) /\ TableSays(i, f, t) /\ RowsSay(i, m)

TrackersAt(i) == Say(i, fence, table, mdTable)

\* The lines of a chunk that are left of a closed set when its ends are trimmed.
TrimmedOf(L) == \E S \in SUBSET Position : Closed(S) /\ L = Trimmed(S)

WholeInv ==
    /\ stage \in {"sections", "merging"} => \A k \in DOMAIN sections : Closed(sections[k].lines)
    /\ stage = "sections" =>
          /\ TopIn(fence) <=> Fenced(line)
          /\ ClosedUpTo(current.lines, line)
          /\ 0 < line /\ line < Len(content) /\ Tied(line + 1) => line \in current.lines
    /\ stage = "merging" =>
          /\ Closed(pending.lines)
          /\ \A g \in DOMAIN groups : Closed(groups[g].lines)
    /\ stage \in {"splitting", "cutting", "pushing"} =>
          \A k \in DOMAIN merged : Closed(merged[k].lines)
    /\ stage = "cutting" =>
          /\ Closed(buffer \cup rest)
          /\ \A i \in rest : (\A j \in rest : i <= j) => TrackersAt(i)
    /\ stage \in {"cutting", "pushing"} => \A b \in DOMAIN bodies : Closed(bodies[b])
    /\ \A c \in DOMAIN chunks : TrimmedOf(chunks[c].lines)
===============================================================================
