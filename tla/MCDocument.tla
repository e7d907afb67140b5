------------------------------ MODULE MCDocument ------------------------------
(***************************************************************************)
(* Small instances of Document for TLC: pages of up to MaxBlocks blocks.   *)
(***************************************************************************)
EXTENDS Document

CONSTANT MaxBlocks               \* bound on the blocks of a page

At(depth, kinds) == [k \in DOMAIN kinds |-> [kind |-> kinds[k], depth |-> depth]]
Plain(kinds)     == At(0, kinds)

Blocks ==
    {Plain(<<"text", "blank">>),
     Plain(<<"text", "text", "text", "blank">>),
     Plain(<<"blank", "blank", "blank">>),
     Plain(<<"page">>),
     Plain(<<"section", "blank">>),
     \* fences: whole, never closed, in a blockquote, and about a table there
     Plain(<<"fence", "filename", "section", "open", "switch", "row", "switch", "text", "fence">>),
     Plain(<<"fence", "text">>),
     At(1, <<"fence", "text", "fence">>),
     At(1, <<"fence", "text">>),
     At(1, <<"fence", "open", "head", "close", "fence">>),
     At(1, <<"text", "fence", "text", "fence", "fence", "text", "fence">>),
     \* tables: with header rows, without one, without rows, never closed
     Plain(<<"open", "head", "cells", "text", "head", "cells", "close">>),
     Plain(<<"open", "cells", "close", "blank">>),
     Plain(<<"open", "text", "blank", "text", "close">>),
     Plain(<<"open", "text", "section", "text", "close">>),
     Plain(<<"open", "cells", "head", "text">>),
     Plain(<<"open", "fence", "switch", "close", "text", "fence">>),
     At(1, <<"open", "head", "close">>),
     At(1, <<"open", "text">>),
     \* tables that stay as they are, at the bound, above it, and in a blockquote
     Plain(<<"open", "text", "text", "text", "close">>),
     Plain(<<"open", "text", "text", "text", "text", "close">>),
     At(1, <<"open", "text", "text", "close">>),
     At(1, <<"fence", "open", "text", "fence", "text", "close">>),
     At(1, <<"open", "fence", "close">>),
     \* pipe tables, and prose about <table>
     Plain(<<"row", "row", "row">>),
     Plain(<<"fence", "fence", "fence", "fence">>),
     Plain(<<"mention">>),
     Plain(<<"inline">>)}

Numbered(lines) ==
    [i \in DOMAIN lines |->
        [kind |-> lines[i].kind, depth |-> lines[i].depth, text |-> i]]

MCPages ==
    UNION {{Numbered(FlattenSeq(page)) : page \in [1..n -> Blocks]} : n \in 1..MaxBlocks}

\* A tokenizer that counts two for a line of prose and one for any other line.
Weight(document, S) ==
    Cardinality(S) + Cardinality({i \in S : document[i].kind = "text"})
===============================================================================
