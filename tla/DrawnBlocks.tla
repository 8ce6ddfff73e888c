------------------------------ MODULE DrawnBlocks ------------------------------
(***************************************************************************)
(* Regions of a drawn line: lib/raster/layout.ts measures boxes, tables,     *)
(* gauges and charts, one in another, and then draws them where they were     *)
(* measured to go.  Every node is asked twice, for its size and to be drawn,  *)
(* and is told its width both times.                                        *)
(*                                                                         *)
(* Dots are the code's own.  A text is one word of the built-in face, its     *)
(* rows are aligned left (DrawnText has the rest of them); a chart is as high *)
(* as its tag says (DrawnChart).  Shades and which dots are inked are left    *)
(* out; what is drawn is a rectangle.                                       *)
(***************************************************************************)
EXTENDS Integers, Sequences, FiniteSets
LOCAL INSTANCE SequencesExt
LOCAL INSTANCE FiniteSetsExt
LOCAL INSTANCE TLC

CONSTANTS
    Offers,       \* a sequence of records [papers, leaves, tags, most]: widths in dots, what may stand in a
                  \* flow, the boxes, tables, rows and cells it is put in, how many of all
    MaxNesting    \* bound: tags open at one time

VARIABLES
    offer,        \* which of them this line is made of
    nest,         \* the tags open, outermost first, each with its kids; none if refused
    written       \* how many nodes the line has

blockVars == <<offer, nest, written>>

GlyphDots == 12
RowDots   == 24
PadDots   == 6
RuleDots  == 1
GroupDots == 3
GaugeGap  == 12
Inset     == [single |-> 1, double |-> 4, thick |-> 3, none |-> 0]

NotBelow(n, low) == IF n < low THEN low ELSE n
Most(S)          == Max(S \cup {0})
Summed(seq)      == FoldLeft(LAMBDA a, b : a + b, 0, seq)
Portion(w, percent) == (w * percent) \div 100

(***************************************************************************)
(* Measuring                                                                *)
(***************************************************************************)

InsetOf(node)  == Inset[node.border] + (IF node.k = "box" THEN node.pad * PadDots ELSE 0)
CellWidth(column) == NotBelow(column - 2 * PadDots, 0)

\* What the first row's cells claim, in percent; 0 where one claims nothing.
Claims(table) ==
    LET count == Most({Len(r.kids) : r \in ToSet(table.kids)})
    IN  [i \in 1 .. count |-> IF i <= Len(table.kids[1].kids) THEN table.kids[1].kids[i].width ELSE 0]

\* columnWidths: the claims, and equal shares of the rest, a dot more for the first.
ColumnWidths(table, inner) ==
    LET claims  == Claims(table)
        unsized == {i \in DOMAIN claims : claims[i] = 0}
        left    == NotBelow(inner - Summed([i \in DOMAIN claims |-> Portion(inner, claims[i])]), 0)
        nth(i)  == Cardinality({j \in unsized : j <= i})
        share(i) == left \div Cardinality(unsized) + (IF nth(i) <= left % Cardinality(unsized) THEN 1 ELSE 0)
    IN  [i \in DOMAIN claims |-> IF i \in unsized THEN share(i) ELSE Portion(inner, claims[i])]

\* layoutText, of one word.
WordRows(text, w) ==
    LET across == IF text.wrap THEN NotBelow(w \div GlyphDots, 1) ELSE text.n
    IN  [w |-> GlyphDots * (IF text.n < across THEN text.n ELSE across),
         h |-> RowDots * ((text.n + across - 1) \div across)]

SizeOf(grid) == [w |-> grid.w, h |-> grid.h]

RECURSIVE Measure(_, _)

\* stack
Stacked(kids, w) ==
    [w |-> Most({Measure(k, w).w : k \in ToSet(kids)}),
     h |-> Summed([i \in DOMAIN kids |-> Measure(kids[i], w).h])]

\* layOut: a row is as high as its highest cell, and rules stand between rows only.
RowHeights(table, columns) ==
    LET high(row) == Most({Stacked(row.kids[i].kids, CellWidth(columns[i])).h : i \in DOMAIN row.kids})
    IN  [r \in DOMAIN table.kids |-> high(table.kids[r]) + 2 * PadDots]
GridOf(inset, columns, rows) ==
    [columns |-> columns, rows |-> rows, w |-> 2 * inset + Summed(columns),
     h |-> 2 * inset + Summed(rows) + NotBelow(Len(rows) - 1, 0) * RuleDots]
Grid(table, w) ==
    LET inset   == InsetOf(table)
        columns == ColumnWidths(table, NotBelow(Portion(w, table.width) - 2 * inset, 0))
    IN  GridOf(inset, columns, RowHeights(table, columns))

\* The mutant of BoxInner: border and padding are taken off one side only.
MistakeBoxInner(box, w) == NotBelow(Portion(w, box.width) - InsetOf(box), 0)

BoxInner(box, w) == NotBelow(Portion(w, box.width) - 2 * InsetOf(box), 0)

Measure(node, w) ==
    CASE node.k = "text"             -> WordRows(node, w)
      [] node.k \in {"hr", "blank"}  -> [w |-> w, h |-> RowDots]
      [] node.k = "bar"              -> [w |-> Portion(w, node.width), h |-> RowDots]
      [] node.k = "chart"            -> [w |-> Portion(w, node.width), h |-> node.height * RowDots]
      [] node.k = "box"              -> [w |-> Portion(w, node.width),
                                         h |-> Stacked(node.kids, BoxInner(node, w)).h + 2 * InsetOf(node)]
      [] node.k = "table"            -> SizeOf(Grid(node, w))

(***************************************************************************)
(* Drawing: the rectangles inked, each with the node it is of               *)
(***************************************************************************)

Rect(x, y, w, h) == [x |-> x, y |-> y, w |-> w, h |-> h]
\* fits: whether what was offered takes it.
Inked(path, what, rect, fits) == {rect @@ [path |-> path, what |-> what, fits |-> fits]}

\* Canvas.rect, paintBorder
Outline(r, thick) ==
    {Rect(r.x, r.y, r.w, thick), Rect(r.x, r.y + r.h - thick, r.w, thick),
     Rect(r.x, r.y, thick, r.h), Rect(r.x + r.w - thick, r.y, thick, r.h)}
Border(r, border) ==
    CASE border = "none"   -> {}
      [] border = "single" -> Outline(r, 1)
      [] border = "thick"  -> Outline(r, 3)
      [] border = "double" -> Outline(r, 1) \cup Outline(Rect(r.x + 3, r.y + 3, r.w - 6, r.h - 6), 1)
Strokes(path, rects, fits) == UNION {Inked(Append(path, 0), "stroke", r, fits) : r \in rects}

\* tracks: where the rules between rows or columns fall.
Tracks(sizes, start, gap) ==
    [i \in 1 .. Len(sizes) - 1 |-> start + Summed(SubSeq(sizes, 1, i)) + (i - 1) * gap]
Grouped(table, i) == table.group > 0 /\ i % table.group = 0

RECURSIVE Drawn(_, _, _, _, _)

\* stack: a block narrower than its place stands in it as it is aligned.
DrawnStack(kids, x, y, w, path) ==
    LET top(i)  == y + Summed([j \in 1 .. i - 1 |-> Measure(kids[j], w).h])
        room(i) == w - Measure(kids[i], w).w
        offset(i) == IF "align" \notin DOMAIN kids[i] THEN 0
                     ELSE CASE kids[i].align = "left" -> 0
                            [] kids[i].align = "center" -> room(i) \div 2
                            [] kids[i].align = "right" -> room(i)
    IN  UNION {Drawn(kids[i], x + offset(i), top(i), w, Append(path, i)) : i \in DOMAIN kids}

\* paintCell
DrawnCell(cell, x, y, width, height, path) ==
    LET w      == CellWidth(width)
        h      == NotBelow(height - 2 * PadDots, 0)
        slack  == NotBelow(h - Stacked(cell.kids, w).h, 0)
        offset == CASE cell.valign = "top" -> 0 [] cell.valign = "middle" -> slack \div 2
                    [] cell.valign = "bottom" -> slack
    IN  Inked(path, "region", Rect(x + PadDots, y + PadDots, w, h), width >= 2 * PadDots)
        \cup DrawnStack(cell.kids, x + PadDots, y + PadDots + offset, w, path)

\* TableNode.paint
DrawnTable(table, grid, x, y, w, path) ==
    LET inset == InsetOf(table)
        left  == x + inset
        top   == y + inset
        across == grid.w - 2 * inset
        down  == grid.h - 2 * inset
        rows  == Tracks(grid.rows, top, RuleDots)
        columns == Tracks(grid.columns, left, 0)
        cellTop(r)  == IF r = 1 THEN top ELSE rows[r - 1] + RuleDots
        cellLeft(c) == IF c = 1 THEN left ELSE columns[c - 1]
        fits  == Portion(w, table.width) >= 2 * inset
        rules == {Rect(left, rows[r], across, RuleDots) : r \in DOMAIN rows}
                 \cup {Rect(columns[c], top, RuleDots, down) : c \in DOMAIN columns}
                 \cup {Rect(left, rows[r] - 1, across, GroupDots) : r \in {i \in DOMAIN rows : Grouped(table, i)}}
                 \cup {Rect(columns[c] - 1, top, GroupDots, down) : c \in {i \in DOMAIN columns : Grouped(table, i)}}
        cells(r) == table.kids[r].kids
    IN  Inked(path, "region", Rect(x, y, grid.w, grid.h), fits)
        \cup Strokes(path, Border(Rect(x, y, grid.w, grid.h), table.border) \cup rules, fits)
        \cup UNION {UNION {DrawnCell(cells(r)[c], cellLeft(c), cellTop(r), grid.columns[c], grid.rows[r],
                                     path \o <<r, c>>) : c \in DOMAIN cells(r)} : r \in DOMAIN table.kids}

\* BoxNode.paint
DrawnBox(box, size, x, y, w, path) ==
    LET whole == Rect(x, y, size.w, size.h)
        fits  == whole.w >= 2 * InsetOf(box)
    IN  Inked(path, "region", whole, fits) \cup Strokes(path, Border(whole, box.border), fits)
        \cup DrawnStack(box.kids, x + InsetOf(box), y + InsetOf(box), BoxInner(box, w), path)

\* GaugeNode.paint: an outlined bar, and its number after a gap.
DrawnBar(bar, x, y, w, path) ==
    LET number == bar.digits * GlyphDots
        room   == Portion(w, bar.width) - number - GaugeGap
    IN  Inked(path, "mark", Rect(x, y, NotBelow(room, 0), RowDots), room >= 0)
        \cup Inked(path, "mark", Rect(x + NotBelow(room, 0) + GaugeGap, y, number, RowDots), room >= 0)

\* Each node's paint, of the size it was measured to have.
DrawnAs(node, size, x, y, w, path) ==
    CASE node.k = "text"  -> Inked(path, "mark", Rect(x, y, size.w, size.h), size.w <= w)
      [] node.k = "hr"    -> Inked(path, "mark", Rect(x, y + RowDots \div 2, w, 1), TRUE)
      [] node.k = "blank" -> {}
      [] node.k = "bar"   -> DrawnBar(node, x, y, w, path)
      [] node.k = "chart" -> Inked(path, "mark", Rect(x, y, size.w, size.h), TRUE)
      [] node.k = "box"   -> DrawnBox(node, size, x, y, w, path)
      [] node.k = "table" -> DrawnTable(node, Grid(node, w), x, y, w, path)
Drawn(node, x, y, w, path) == DrawnAs(node, Measure(node, w), x, y, w, path)

(***************************************************************************)
(* The line being written, tag by tag                                       *)
(***************************************************************************)

BlocksInit == offer \in DOMAIN Offers /\ nest = <<[k |-> "line", kids |-> <<>>]>> /\ written = 0

Filled == Last(nest)
Holds(frame) == CASE frame.k = "table" -> {"row"} [] frame.k = "row" -> {"cell"}
                  [] OTHER -> {"text", "hr", "blank", "bar", "chart", "box", "table"}
With(frames, node) == [frames EXCEPT ![Len(frames)].kids = Append(@, node)]

Takes(node) ==
    /\ nest # <<>> /\ node.k \in Holds(Filled)
    /\ written < Offers[offer].most /\ written' = written + 1
    /\ UNCHANGED offer

PutLeaf(node) == Takes(node) /\ nest' = With(nest, node)
OpenBlock(node) ==
    /\ Takes(node) /\ Len(nest) <= MaxNesting
    /\ nest' = Append(nest, node @@ [kids |-> <<>>])

\* The sized columns of a table claim no more than all of it, or the line is refused.
Overclaimed(node) == node.k = "table" /\ Summed(Claims(node)) > 100
CloseBlock ==
    /\ Len(nest) > 1
    /\ nest' = IF Overclaimed(Filled) THEN <<>> ELSE With(Front(nest), Filled)
    /\ UNCHANGED <<offer, written>>

BlocksNext == (\E n \in Offers[offer].leaves : PutLeaf(n)) \/ (\E n \in Offers[offer].tags : OpenBlock(n)) \/ CloseBlock

(***************************************************************************)
(* Property                                                                 *)
(***************************************************************************)

Enclosed(a, b) == a.x >= b.x /\ a.x + a.w <= b.x + b.w /\ a.y >= b.y /\ a.y + a.h <= b.y + b.h
ClearOf(a, b)  ==
    \/ a.x + a.w <= b.x \/ b.x + b.w <= a.x \/ a.y + a.h <= b.y \/ b.y + b.h <= a.y
    \/ 0 \in {a.w, a.h, b.w, b.h}

\* What is inked on a page keeps its place there.
KeepApart(inked, page) ==
    LET outer(a, b) == a.what = "region" /\ IsStrictPrefix(a.path, b.path)
    IN  (\A a \in inked : a.fits) =>
            /\ \A a \in inked : Enclosed(a, page)
            /\ \A a, b \in inked :
                  IF outer(a, b) THEN Enclosed(b, a)
                  ELSE outer(b, a) \/ a = b \/ ClearOf(a, b)
                         \/ (a.what = "stroke" /\ b.what = "stroke" /\ a.path = b.path)

\* What a line draws keeps to its place: on the paper it was measured to take, inside
\* every region around it, clear of what stands beside it and of every border and
\* rule.  That is, if nothing is narrower than its content: a box than its frame, a
\* column than its padding, a row of text than a glyph or than a word that may not
\* break, a gauge than its number.
BlocksKeepApart ==
    Len(nest) = 1 =>
        \A paper \in Offers[offer].papers :
            KeepApart(DrawnStack(nest[1].kids, 0, 0, paper, <<>>),
                      Rect(0, 0, paper, Stacked(nest[1].kids, paper).h))
=============================================================================
