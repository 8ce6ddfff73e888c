------------------------------ MODULE DrawnText ------------------------------
(***************************************************************************)
(* The same line drawn: in a box, a chart or a line of a face of its own the *)
(* printer has no columns, and lib/raster/text.ts restates in dots what      *)
(* charset.ts, fill.ts and wrapper.ts do in columns, so that a drawn line     *)
(* sits right beside the printed ones (text.ts:16-20, fonts.ts:12-18).       *)
(*                                                                         *)
(* The face is the built-in one, every glyph as many dots wide as a column    *)
(* for each column of its style, and lacks what the codepage lacks.  Rows are *)
(* aligned left.  Images, checkboxes, heights and the dots themselves are     *)
(* left out.                                                                *)
(***************************************************************************)
EXTENDS LineLayout
LOCAL INSTANCE SequencesExt

CONSTANT Dots    \* dots in a column

ASSUME DrawnAssumption == Dots \in Nat \ {0}

\* measure, substitute: a fill is weightless, and without a glyph costs nothing.
Glyph(c) == [ch |-> c.ch, at |-> c.at, width |-> c.width * Dots, fill |-> FALSE, cell |-> 0]
FillAtom(f, policy) ==
    [ch |-> IF CanEncode(f) THEN f.ch ELSE "?", at |-> f.at, width |-> 0, fill |-> TRUE,
     cell |-> IF CanEncode(f) \/ policy = "REPLACE" THEN f.width * Dots ELSE 0]

Atoms(l, policy) ==
    LET glyphs(seq) == [i \in DOMAIN Converted(seq, policy) |-> Glyph(Converted(seq, policy)[i])]
        fills(n)    == LET here == SelectSeq(l.fills, LAMBDA f : f.after = n)
                       IN  [f \in DOMAIN here |-> FillAtom(here[f], policy)]
    IN  fills(0) \o Joined([s \in DOMAIN l.spans |-> glyphs(l.spans[s]) \o fills(s)])

\* breakRows: flush, to the last space or whole.
Ended(w) ==
    IF w.lastSpace = 0 THEN [rows |-> Append(w.rows, w.row), row |-> <<>>, lastSpace |-> 0]
    ELSE [rows |-> Append(w.rows, SubSeq(w.row, 1, w.lastSpace - 1)),
          row |-> SubSeq(w.row, w.lastSpace + 1, Len(w.row)), lastSpace |-> 0]

\* The mutant of RoomOn: a row that hangs is broken as if it did not.
MistakeRoomOn(w, available, indent) == available

RoomOn(w, available, indent) == IF w.rows = <<>> THEN available ELSE available - indent

\* breakRows, one atom.  A space that opens the line is no place to break at.
Laid(w, a, available, indent) ==
    LET overflows(v) == WidthOf(v.row) + a.width > RoomOn(v, available, indent)
        broken(v)    == IF v.row # <<>> /\ overflows(v) THEN Ended(v) ELSE v
        placed(v)    == [v EXCEPT !.row = Append(@, a)]
    IN  IF ~IsSpace(a) \/ a.fill THEN placed(broken(broken(w)))
        ELSE IF w.row = <<>> THEN (IF w.rows = <<>> THEN placed(w) ELSE w)
        ELSE IF overflows(w) THEN Ended([w EXCEPT !.lastSpace = 0])
        ELSE [placed(w) EXCEPT !.lastSpace = Len(w.row) + 1]

BreakRows(atoms, available, wrap, indent) ==
    LET w == FoldLeft(LAMBDA v, a : Laid(v, a, available, indent),
                      [rows |-> <<>>, row |-> <<>>, lastSpace |-> 0], atoms)
    IN  IF ~wrap THEN <<atoms>>
        ELSE IF w.row # <<>> \/ w.rows = <<>> THEN Append(w.rows, w.row) ELSE w.rows

\* trimTrailingSpaces
Unpadded(row) ==
    LET space(i) == IsSpace(row[i]) /\ ~row[i].fill
    IN  SubSeq(row, 1, Len(row) - Cardinality({i \in DOMAIN row : \A j \in i .. Len(row) : space(j)}))

\* spendFills
Spent(row, available) ==
    LET fills  == {i \in DOMAIN row : row[i].fill}
        slack  == IF WidthOf(row) < available THEN available - WidthOf(row) ELSE 0
        nth(i) == Cardinality({j \in fills : j <= i})
        share(i) == Share(slack, Cardinality(fills), nth(i))
    IN  [i \in DOMAIN row |->
            IF row[i].fill /\ row[i].cell > 0
            THEN [row[i] EXCEPT !.width = (share(i) \div row[i].cell) * row[i].cell] ELSE row[i]]

\* buildRow, aligned left, and what painting it marks: which character at which dot.
Marks(row, offset) ==
    LET x(i) == offset + WidthOf(SubSeq(row, 1, i - 1))
        shown == {i \in DOMAIN row : ~IsSpace(row[i])}
    IN  UNION {IF row[i].fill
               THEN {<<row[i].at, x(i) + k * row[i].cell>> :
                        k \in 0 .. (IF row[i].cell = 0 THEN 0 ELSE row[i].width \div row[i].cell) - 1}
               ELSE {<<row[i].at, x(i)>>} : i \in shown}

\* layoutText
LayoutText(l, available, wrap, policy, indent) ==
    LET hanging == IF indent < available THEN indent ELSE available - 1
        rows    == BreakRows(Atoms(l, policy), available, wrap, hanging)
        from(r) == IF r = 1 THEN 0 ELSE hanging
    IN  [r \in DOMAIN rows |-> Marks(Spent(Unpadded(rows[r]), available - from(r)), from(r))]

(***************************************************************************)
(* Property                                                                 *)
(***************************************************************************)

PrintedMarks(text) ==
    {<<text[i].at, WidthOf(SubSeq(text, 1, i - 1)) * Dots>> : i \in {j \in DOMAIN text : ~IsSpace(text[j])}}

Kept  == Encoded(line, laid.policy)
Slack == laid.columns - WidthOf(Text(Kept))

\* A word too long for the row behind one leading space: the wrapper breaks at that
\* space and leaves an empty row, a drawn line breaks the word.
PushedDown == laid.wrap /\ laid.text # <<>> /\ IsSpace(laid.text[1]) /\ Visible(laid.rows[1].text) = <<>>

\* Fills get the same room if the line takes one row (drawn, each row has its own
\* to share), none of them lacks its glyph (drawn, it keeps its share), no space
\* ends the line (drawn, it is gone before they share), and the room splits into
\* whole columns (drawn, dots are shared, and what makes no glyph is left blank).
FillsAlike ==
    line.fills # <<>> =>
        /\ Len(Kept.fills) = Len(line.fills)
        /\ IF Slack < 0 THEN ~laid.wrap ELSE Slack % Len(line.fills) = 0
        /\ Text(Kept) # <<>> /\ IsSpace(Last(Text(Kept)))
              => \E f \in ToSet(Kept.fills) : f.at > Last(Text(Kept)).at

\* A line that is drawn gets the rows it would be printed in, its characters where
\* they would stand, but for the lines the two operators above tell of, and for an
\* entry's indent that leaves no column, which is cut to a dot less than the paper.
DrawnAsPrinted ==
    laid # <<>> /\ laid.rows # <<>> /\ FillsAlike /\ ~PushedDown =>
        LET drawn   == LayoutText(line, laid.columns * Dots, laid.wrap, laid.policy, line.indent * Dots)
            printed == [r \in DOMAIN laid.rows |-> PrintedMarks(laid.rows[r].text)]
            which(rows) == [r \in DOMAIN rows |-> {m[1] : m \in rows[r]}]
        IN  /\ which(drawn) = which(printed)
            /\ line.indent < laid.columns => drawn = printed

\* A line comes out as it was written, printed or drawn.
LinesComeOutRight == LaysOutTheLine /\ DrawnAsPrinted
=============================================================================
