------------------------------ MODULE LineLayout ------------------------------
(***************************************************************************)
(* What the server makes of one parsed line before it leaves for the printer *)
(* (compiler.ts layOut): the codepage decides which characters may stay      *)
(* (charset.ts), the fills take up the columns the text leaves (fill.ts), and *)
(* the wrapper splits the line into rows of paper (wrapper.ts).  The agent's *)
(* console does the same to the lines it reads itself, without hanging       *)
(* indents.                                                                 *)
(*                                                                         *)
(* A line is written a cell at a time and laid out for some paper.  A cell is *)
(* a character with the width its style gives it: of a style nothing else    *)
(* matters here.  `at` tells the cells of a line apart, as no code does.     *)
(***************************************************************************)
EXTENDS Integers, Sequences, FiniteSets
LOCAL INSTANCE SequencesExt

CONSTANTS
    Alphabets,     \* a sequence of records [texts, fills, longest, depths]: the <<ch, width>> a line may be
                   \* written with, how many of them, and how many columns a list sets its
                   \* entries' text in, 0 for a line of no list
    Papers         \* widths of paper, in columns

VARIABLES
    alphabet,      \* which of them this line uses
    line,          \* [spans, fills, indent]: a fill stands after so many spans
    laid           \* what the line was laid out to, once it was

layoutVars == <<alphabet, line, laid>>

Policies == {"REJECT", "REPLACE", "STRIP"}

CharOf(pair, at) == [ch |-> pair[1], width |-> pair[2], at |-> at]
IsSpace(c)     == c.ch = "space"
CanEncode(c)   == c.ch # "odd"                    \* canEncode: the printer's table has it
Joined(seqs)   == FoldLeft(LAMBDA a, b : a \o b, <<>>, seqs)
WidthOf(row)   == FoldLeft(LAMBDA sum, c : sum + c.width, 0, row)
Text(l)        == Joined(l.spans)                 \* flatten

-----------------------------------------------------------------------------
(* The codepage                                                             *)

\* convert, convertCharacter: none of it is printed as it stands under REJECT.
Converted(seq, policy) ==
    LET one(c) == IF CanEncode(c) THEN <<c>>
                  ELSE IF policy = "REPLACE" THEN <<[c EXCEPT !.ch = "?"]>> ELSE <<>>
    IN  Joined([i \in DOMAIN seq |-> one(seq[i])])

Refused(l, policy) ==
    policy = "REJECT" /\ \E c \in ToSet(Text(l)) \cup ToSet(l.fills) : ~CanEncode(c)

\* The mutant: a fill keeps its number when a span before it is dropped.
MistakeEncoded(l, policy) ==
    LET spans == [s \in DOMAIN l.spans |-> Converted(l.spans[s], policy)]
    IN  [l EXCEPT !.spans = SelectSeq(spans, LAMBDA s : s # <<>>), !.fills = Converted(@, policy)]

\* validateCharset: an emptied span is dropped and the fills after it renumbered.
Encoded(l, policy) ==
    LET spans        == [s \in DOMAIN l.spans |-> Converted(l.spans[s], policy)]
        survivors(n) == Len(SelectSeq(SubSeq(spans, 1, n), LAMBDA s : s # <<>>))
        fills        == Converted(l.fills, policy)
    IN  [l EXCEPT !.spans = SelectSeq(spans, LAMBDA s : s # <<>>),
                  !.fills = [f \in DOMAIN fills |-> [fills[f] EXCEPT !.after = survivors(@)]]]

-----------------------------------------------------------------------------
(* The fills                                                                *)

\* share, padFor
Share(slack, count, f) == (slack \div count) + (IF f <= slack % count THEN 1 ELSE 0)
PadFor(fill, budget) ==
    [i \in 1 .. budget \div fill.width |-> [ch |-> fill.ch, width |-> fill.width, at |-> fill.at]]

\* resolveFills, as the cells of the line it gives.
Resolved(l, columns) ==
    LET slack   == IF WidthOf(Text(l)) < columns THEN columns - WidthOf(Text(l)) ELSE 0
        pads(n) == Joined([f \in DOMAIN l.fills |->
                       IF l.fills[f].after = n THEN PadFor(l.fills[f], Share(slack, Len(l.fills), f)) ELSE <<>>])
    IN  pads(0) \o Joined([s \in DOMAIN l.spans |-> l.spans[s] \o pads(s)])

-----------------------------------------------------------------------------
(* The wrapper                                                              *)

\* A layout under way: the rows that are full, the row being filled, and where
\* in it the last space stands.
Available(w, columns, indent) == IF w.rows = <<>> THEN columns ELSE columns - indent
Broken(w) == [rows |-> Append(w.rows, w.row), row |-> <<>>, lastSpace |-> 0]
Carried(w) ==
    IF w.lastSpace = 0 THEN Broken(w)
    ELSE [rows |-> Append(w.rows, SubSeq(w.row, 1, w.lastSpace - 1)),
          row |-> SubSeq(w.row, w.lastSpace + 1, Len(w.row)), lastSpace |-> 0]

\* layOut, one cell: after a break the cell is looked at again, and a word that
\* was moved down may have to be broken once more before there is room.
Put(w, c, columns, indent) ==
    LET overflows(v) == WidthOf(v.row) + c.width > Available(v, columns, indent)
        room(v)      == IF v.row # <<>> /\ overflows(v) THEN Carried(v) ELSE v
        placed(v)    == [v EXCEPT !.row = Append(@, c)]
    IN  IF ~IsSpace(c) THEN placed(room(room(w)))
        ELSE IF w.row = <<>> /\ w.rows # <<>> THEN w
        ELSE IF overflows(w) THEN Broken(w)
        ELSE [placed(w) EXCEPT !.lastSpace = Len(w.row) + 1]

\* trim
Unspaced(row) ==
    LET kept == {i \in DOMAIN row : \A j \in i .. Len(row) : IsSpace(row[j])}
    IN  SubSeq(row, 1, Len(row) - Cardinality(kept))
Trim(rows) ==
    LET last == {i \in DOMAIN rows : \E j \in i .. Len(rows) : rows[j] # <<>>}
    IN  SubSeq(rows, 1, IF last = {} THEN 1 ELSE Cardinality(last))

\* layOut
Rows(text, columns, indent) ==
    LET w == FoldLeft(LAMBDA v, c : Put(v, c, columns, indent),
                      [rows |-> <<>>, row |-> <<>>, lastSpace |-> 0], text)
        rows == Append(w.rows, w.row)
    IN  Trim([r \in DOMAIN rows |-> Unspaced(rows[r])])

\* toLines: a continuation hangs under the first row; what the line does besides
\* printing, it does after its last row.
Hanging(indent) == [i \in 1 .. indent |-> [ch |-> "space", width |-> 1, at |-> 0]]
ToLines(rows, indent, directives) ==
    [r \in DOMAIN rows |-> [text |-> (IF r = 1 THEN <<>> ELSE Hanging(indent)) \o rows[r],
                            directives |-> IF r = Len(rows) THEN directives ELSE <<>>]]

\* wrapLine
Wrapped(text, columns, indent, directives) ==
    IF text = <<>> THEN <<[text |-> <<>>, directives |-> directives]>>
    ELSE LET hanging == IF indent < columns THEN indent ELSE columns - 1
         IN  ToLines(Rows(text, columns, hanging), hanging, directives)

-----------------------------------------------------------------------------
\* expandList, marker: the first row of an entry's line starts with as many columns
\* as its later rows hang, the last of them a space.  A marker is set right in its
\* column; what follows a nested list has none.
Lead(indent, body) ==
    [i \in 1 .. indent |-> [ch |-> IF i \in indent - body .. indent - 1 THEN "glyph" ELSE "space",
                           width |-> 1, at |-> i]]

LayoutInit ==
    /\ alphabet \in DOMAIN Alphabets
    /\ \E indent \in Alphabets[alphabet].depths : \E body \in 0 .. (IF indent = 0 THEN 0 ELSE indent - 1) :
           line = [spans |-> IF indent = 0 THEN <<>> ELSE <<Lead(indent, body)>>,
                   fills |-> <<>>, indent |-> indent]
    /\ laid = <<>>

Size == Len(Text(line)) + Len(line.fills)
Writing == laid = <<>> /\ Size < Alphabets[alphabet].longest + line.indent

\* A character in the style of the last, with nothing between them, is of its span.
WriteChar(pair) ==
    LET c    == CharOf(pair, Size + 1)
        n    == Len(line.spans)
        same == n > 0 /\ line.spans[n][1].width = c.width /\ \A f \in ToSet(line.fills) : f.after < n
    IN  /\ Writing
        /\ line' = IF same THEN [line EXCEPT !.spans[n] = Append(@, c)]
                   ELSE [line EXCEPT !.spans = Append(@, <<c>>)]
        /\ UNCHANGED <<alphabet, laid>>

WriteFill(pair) ==
    /\ Writing
    /\ line' = [line EXCEPT !.fills = Append(@, [ch |-> pair[1], width |-> pair[2], at |-> Size + 1, after |-> Len(line.spans)])]
    /\ UNCHANGED <<alphabet, laid>>

\* layOut, one line.
LayOut(columns, wrap, policy, directives) ==
    LET text == Resolved(Encoded(line, policy), columns)
    IN  /\ laid = <<>> /\ Size > 0
        /\ laid' = [columns |-> columns, indent |-> IF line.indent < columns THEN line.indent ELSE columns - 1,
                    wrap |-> wrap, policy |-> policy, directives |-> directives, text |-> text,
                    rows |-> IF Refused(line, policy) THEN <<>>
                             ELSE IF wrap THEN Wrapped(text, columns, line.indent, directives)
                             ELSE <<[text |-> text, directives |-> directives]>>]
        /\ UNCHANGED <<alphabet, line>>

LayoutNext ==
    \/ \E pair \in Alphabets[alphabet].texts : WriteChar(pair)
    \/ \E pair \in Alphabets[alphabet].fills : WriteFill(pair)
    \/ \E columns \in Papers, wrap \in BOOLEAN, policy \in Policies :
          /\ policy = "STRIP" \/ \E c \in ToSet(Text(line)) \cup ToSet(line.fills) : ~CanEncode(c)
          /\ LayOut(columns, wrap, policy, <<"cut">>)

(***************************************************************************)
(* Properties                                                               *)
(***************************************************************************)

Printed       == laid.rows # <<>>
Visible(text) == SelectSeq(text, LAMBDA c : ~IsSpace(c))
Own(r)        == SelectSeq(laid.rows[r].text, LAMBDA c : c.at # 0)
Ats(text)     == [i \in DOMAIN text |-> text[i].at]

\* Nothing overflows the paper but a cell that is wider than all of it.
FitsThePaper ==
    laid.wrap => \A r \in DOMAIN laid.rows :
        \/ WidthOf(laid.rows[r].text) <= laid.columns
        \/ Len(Own(r)) = 1 /\ Own(r)[1].width > laid.columns - laid.indent

\* What can be read is what was written, in order, each character in its own
\* style: all of it, but what a codepage lacks, and what a fill had no room for.
NothingLost ==
    LET wrote == SelectSeq(Text(line), LAMBDA c : ~IsSpace(c) /\ (CanEncode(c) \/ laid.policy # "STRIP"))
        read  == Visible(Joined([r \in DOMAIN laid.rows |-> laid.rows[r].text]))
        fills == {f.at : f \in ToSet(line.fills)}
    IN  /\ Ats(SelectSeq(read, LAMBDA c : c.at \notin fills)) = Ats(wrote)
        /\ \A i \in DOMAIN read : CanEncode(read[i])
        /\ \A i, j \in DOMAIN read : i < j => read[i].at <= read[j].at

\* Rows are filled: the row before a break has no room for the first word of the
\* next, and a word is broken only when it stands alone on its row.
Greedy ==
    LET text     == laid.text
        shown    == {i \in DOMAIN text : ~IsSpace(text[i])}
        place(k) == CHOOSE i \in shown : Cardinality({j \in shown : j <= i}) = k
        upTo(r)  == Cardinality({<<q, i>> \in (1 .. r) \X (1 .. Len(text)) :
                                     i <= Len(Own(q)) /\ ~IsSpace(Own(q)[i])})
        first(r) == IF r = 1 THEN 1 ELSE place(upTo(r - 1) + 1)
        word(i)  == CHOOSE e \in i .. Len(text) :
                        /\ \A j \in i .. e : j \in shown
                        /\ e = Len(text) \/ e + 1 \notin shown
    IN  laid.wrap => \A r \in 1 .. Len(laid.rows) - 1 :
            LET next   == first(r + 1)
                splits == next > 1 /\ next - 1 \in shown
                room   == IF r = 1 THEN laid.columns ELSE laid.columns - laid.indent
            IN  /\ WidthOf(SubSeq(text, first(r), IF splits THEN next ELSE word(next))) > room
                /\ splits => first(r) .. next \subseteq shown

\* A fill never pushes the text over the edge, and in ordinary type reaches it.
FillsReachTheEdge ==
    LET encoded == Encoded(line, laid.policy)
        width   == WidthOf(Text(encoded))
    IN  encoded.fills # <<>> =>
            /\ width >= laid.columns => WidthOf(laid.text) = width
            /\ width < laid.columns => WidthOf(laid.text) <= laid.columns
            /\ width < laid.columns /\ (\A f \in ToSet(encoded.fills) : f.width = 1)
                  => WidthOf(laid.text) = laid.columns

\* What the line does besides printing is done once, after all of it.
DirectivesLast ==
    /\ \A r \in DOMAIN laid.rows : laid.rows[r].directives = IF r = Len(laid.rows) THEN laid.directives ELSE <<>>
    /\ Len(laid.rows) > 1 => Own(Len(laid.rows)) # <<>>

\* A line becomes the rows its author would draw by hand: see the five above.
LaysOutTheLine ==
    laid # <<>> /\ laid.rows # <<>> =>
        FitsThePaper /\ NothingLost /\ Greedy /\ FillsReachTheEdge /\ DirectivesLast
=============================================================================
