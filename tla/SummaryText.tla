----------------------------- MODULE SummaryText -----------------------------
(***************************************************************************)
(* The summary text of a live read and the lists it is made from.  Only    *)
(* the parts of a text matter here, what each says and how long it is: a   *)
(* text is cut at a number of characters, and a part that is cut off says  *)
(* nothing.  A list is read page by page while pages carry a token.        *)
(***************************************************************************)
EXTENDS Naturals, SequencesExt, Sublists

CONSTANT SummaryCharLimit  \* LIVE_SUMMARY_CHAR_LIMIT

ASSUME SummaryHasRoom == SummaryCharLimit \in Nat \ {0}

Part(says, chars) == [says |-> says, chars |-> chars]
Chars(parts) == FoldLeft(LAMBDA n, part : n + part.chars, 0, parts)

(* A text too long ends in an ellipsis where its last character would be.  *)
FinalizeSummary(parts) ==
    LET whole == Chars(parts) <= SummaryCharLimit
        Survives(i) == whole \/ Chars(Take(parts, i)) < SummaryCharLimit
    IN  [said |-> {parts[i].says : i \in {j \in DOMAIN parts : Survives(j)}}, cut |-> ~whole]

(* A text of one sentence that is never cut: there was nothing to show.    *)
NothingFound == [said |-> {"nothing"}, cut |-> FALSE]

(* How long the parts of a text are for what Feishu holds: the counts, the *)
(* examples and the note of what is left out.                              *)
Wording == [counts : Nat, examples : Nat, note : Nat]

-----------------------------------------------------------------------------
(* A page of a list has items and perhaps a token for the next page.       *)
Page == [items : Nat, token : BOOLEAN]
Total(pages) == FoldLeft(LAMBDA n, page : n + page.items, 0, pages)

(* Pages are read up to a limit, and as long as the last one has a token.  *)
PagesRead(pages, limit) ==
    Cardinality({i \in DOMAIN pages : i <= limit /\ \A j \in 1 .. i - 1 : pages[j].token})

(* The summary of a list: what was read and, as the last part of the text, *)
(* that there may be more; nothing read is never called a part.            *)
ReadPages(pages, limit, words) ==
    LET n == PagesRead(pages, limit)
        count == Total(Take(pages, n))
        more == n < Len(pages)
        text == IF count = 0 THEN NothingFound
                ELSE FinalizeSummary(<<Part("read", words.counts), Part("examples", words.examples)>>
                                     \o IF more THEN <<Part("more", words.note)>> ELSE <<>>)
    IN  [count |-> count, said |-> text.said, cut |-> text.cut]

=============================================================================
