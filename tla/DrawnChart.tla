------------------------------ MODULE DrawnChart ------------------------------
(***************************************************************************)
(* A chart: lib/raster/charts.ts divides the dots it is given between a      *)
(* title, two axes, a legend and a plot, and draws the numbers the markup     *)
(* tree read (tree.ts, readChart) into the plot.                             *)
(*                                                                         *)
(* Dots are the code's own.  A number is in tenths, an axis of whole numbers  *)
(* needing no finer mark.  A text is how many characters it has: the title in *)
(* font A, all else in font B.  A point's y is its value; its x matters in a  *)
(* scatter.  Which dots a pattern inks, how markers look, the area under a     *)
(* line and the slices of a pie are left out.                                *)
(***************************************************************************)
EXTENDS Integers, Sequences, FiniteSets

CONSTANTS
    ChartTags,     \* the tags and papers: [type, width, height, title, legend]
    ChartSupplies  \* what is written between them: a sequence of [types, names, numbers, across, series,
                   \* points, labels], the last three the most of each

ChartTypes  == {"bar", "line", "pie", "scatter"}
LegendModes == {"auto", "on", "off"}
Reach       == -2000 .. 2000   \* the numbers a chart is checked with, as far as Step's marks reach

\* A chart is three lines high at least (lib/markup/tags.ts).
ASSUME ChartAssumption ==
    /\ ChartTags \subseteq [type: ChartTypes, width: Nat, height: Nat \ 0 .. 2, title: Nat, legend: LegendModes]
    /\ \A s \in DOMAIN ChartSupplies :
          /\ ChartSupplies[s].names \subseteq Nat
          /\ ChartSupplies[s].numbers \cup ChartSupplies[s].across \subseteq Reach

VARIABLES
    chart,         \* a tag's fields; series: Seq([name, values: Seq(<<x, y>>)]); labels
    supply         \* which of them this chart is written with

chartVars == <<chart, supply>>

LetterDots == 9
LabelCell  == 17
TitleCell  == 24
LineDots   == 24
TitleGap   == 4
AxisGap    == 4
Swatch     == 12
SwatchGap  == 4
LegendGap  == 8
EntryGap   == 2
MinPlot    == 200
TickCount  == 5
CategoryMargin == 4
BarGap     == 2
PieMargin  == 2

Larger(a, b)   == IF a > b THEN a ELSE b
Smaller(a, b)  == IF a < b THEN a ELSE b
Rounded(p, q)  == (2 * p + q) \div (2 * q)
Highest(S)     == CHOOSE x \in S : \A y \in S : y <= x
Lowest(S)      == CHOOSE x \in S : \A y \in S : x <= y
WidestOf(S)    == Highest(S \cup {0})
TextDots(n)    == n * LetterDots

ChartHeight(c) == c.height * LineDots
Places(c)      == UNION {{s} \X DOMAIN c.series[s].values : s \in DOMAIN c.series}
PointAt(c, p)  == c.series[p[1]].values[p[2]]
Ys(c)          == {PointAt(c, p)[2] : p \in Places(c)}
Xs(c)          == {PointAt(c, p)[1] : p \in Places(c)}
Categories(c)  == WidestOf({Len(c.series[s].values) : s \in DOMAIN c.series})

(***************************************************************************)
(* Axes                                                                     *)
(***************************************************************************)

\* The first of 1, 2, 5 and 10 times a power of ten that spans the range in count - 1.
Step(range, count) == Lowest({s \in {1, 2, 5, 10, 20, 50, 100, 200, 500, 1000} : s * (count - 1) >= range})

\* ticks
Ticks(low, high, count) ==
    LET step == Step(high - low, count)
        from == (low \div step) * step
        upto == -((-high) \div step) * step
    IN  IF high = low THEN <<low, low + 10>>
        ELSE [i \in 1 .. (upto - from) \div step + 1 |-> from + (i - 1) * step]

TicksOf(values) == Ticks(Lowest(values \cup {0}), Highest(values \cup {0}), TickCount)
ChartTicks(c)  == TicksOf(Ys(c))
AcrossTicks(c) == TicksOf(Xs(c))
LastOf(marks)  == marks[Len(marks)]
ZeroOf(marks)  == Smaller(Larger(0, marks[1]), LastOf(marks))

\* format: a mark's sign, its digits, and a half if it has one.
Digits(n)  == IF n >= 100 THEN 3 ELSE IF n >= 10 THEN 2 ELSE 1
Shown(mark) ==
    LET size == IF mark < 0 THEN -mark ELSE mark
    IN  Digits(size \div 10) + (IF mark < 0 THEN 1 ELSE 0) + (IF size % 10 = 0 THEN 0 ELSE 2)

\* scale, acrossScale
Down(marks, top, height, v) == top + height - Rounded((v - marks[1]) * height, LastOf(marks) - marks[1])
Across(marks, left, width, v) ==
    left + Rounded((v - marks[1]) * Larger(0, width - 1), LastOf(marks) - marks[1])

(***************************************************************************)
(* The frame                                                                *)
(***************************************************************************)

EntryHeight == Larger(Swatch, LabelCell) + EntryGap
ShowsLegend(c) == c.legend # "off" /\ (c.legend = "on" \/ Len(c.series) > 1 \/ c.type = "pie")

\* legendEntries: the names, as many as the chart is high.  Without a name, a number.
LegendEntries(c) ==
    LET named(i) == IF c.type = "pie" THEN (IF i <= Len(c.labels) THEN c.labels[i] ELSE 2)
                    ELSE IF c.series[i].name = 0 THEN 1 ELSE c.series[i].name
        all      == IF c.type = "pie" THEN Len(c.series[1].values) ELSE Len(c.series)
    IN  IF ShowsLegend(c) THEN [i \in 1 .. Smaller(all, ChartHeight(c) \div EntryHeight) |-> named(i)]
        ELSE <<>>

TitleHeight(c) == IF c.title = 0 THEN 0 ELSE TitleCell + TitleGap
AxisWidth(c)   == IF c.type = "pie" THEN 0
                  ELSE TextDots(WidestOf({Shown(ChartTicks(c)[m]) : m \in DOMAIN ChartTicks(c)})) + AxisGap
AxisHeight(c)  == IF c.type = "pie" THEN 0 ELSE LabelCell + AxisGap
Besides(c)     == c.width - AxisWidth(c) - LegendGap - c.width \div 2 >= MinPlot

\* chartFrame: what the plot leaves to a legend of these entries, beside it or below.
LegendWidth(entries)  == Swatch + SwatchGap + TextDots(WidestOf({entries[i] : i \in DOMAIN entries}))
LegendHeight(entries) == Len(entries) * EntryHeight
PlotIn(c, axis, wide, high) ==
    [x |-> axis, y |-> TitleHeight(c), w |-> Larger(0, c.width - axis - wide),
     h |-> Larger(0, ChartHeight(c) - TitleHeight(c) - AxisHeight(c) - high)]
FrameOf(c, plot, entries, beside) ==
    [plot |-> plot,
     legend |-> IF entries = <<>> THEN {}
                ELSE {[x |-> IF beside THEN plot.x + plot.w + LegendGap ELSE plot.x,
                       y |-> IF beside THEN plot.y ELSE plot.y + plot.h + AxisHeight(c),
                       w |-> LegendWidth(entries), h |-> LegendHeight(entries)]}]
Frame(c) ==
    LET entries == LegendEntries(c)
    IN  FrameOf(c, PlotIn(c, AxisWidth(c),
                          IF entries # <<>> /\ Besides(c) THEN LegendWidth(entries) + LegendGap ELSE 0,
                          IF Besides(c) THEN 0 ELSE LegendHeight(entries)),
                entries, Besides(c))

(***************************************************************************)
(* What is drawn in it                                                      *)
(***************************************************************************)

\* pointX
PointX(plot, i, count) ==
    IF count < 2 THEN plot.x ELSE plot.x + Rounded((i - 1) * (plot.w - 1), count - 1)

\* paintBars: one rectangle for each value, or none where there is no dot for each.
Bars(c, plot, marks) ==
    LET n     == Len(c.series)
        room  == plot.w \div Categories(c) - 2 * CategoryMargin - BarGap * (n - 1)
        width == room \div n
        at(v) == Down(marks, plot.y, plot.h, v)
        base  == at(ZeroOf(marks))
        bar(p) ==
            LET top == at(PointAt(c, p)[2])
            IN  [series |-> p[1], category |-> p[2], value |-> PointAt(c, p)[2],
                 x |-> plot.x + ((p[2] - 1) * plot.w) \div Categories(c) + CategoryMargin
                           + (p[1] - 1) * (width + BarGap),
                 y |-> Smaller(top, base), w |-> width, h |-> Larger(base - top, top - base)]
    IN  IF plot.w = 0 \/ width < 1 THEN {} ELSE {bar(p) : p \in Places(c)}

\* paintLines and paintScatter: where a marker is centred.
Points(c, plot, marks) ==
    LET x(p) == IF c.type = "scatter" THEN Across(AcrossTicks(c), plot.x, plot.w, PointAt(c, p)[1])
                ELSE PointX(plot, p[2], Len(c.series[p[1]].values))
        point(p) == [series |-> p[1], at |-> p[2], value |-> PointAt(c, p), x |-> x(p),
                     y |-> Down(marks, plot.y, plot.h, PointAt(c, p)[2])]
    IN  IF plot.w = 0 THEN {} ELSE {point(p) : p \in Places(c)}

\* The mutant of Elide: a label longer than its room runs on.
MistakeElide(n, room) == n

\* elide: as many characters as fit with the ellipsis after them.
Elide(n, room) ==
    IF TextDots(n) <= room THEN n
    ELSE IF room \div LetterDots < 2 THEN 0 ELSE room \div LetterDots

\* paintUnder, labelCentre: the name under each category, held inside the chart.
Under(n, centre, width) ==
    [x |-> Larger(0, Smaller(centre - TextDots(n) \div 2, width - TextDots(n))), w |-> TextDots(n)]
Names(c, plot) ==
    LET all  == Len(c.labels)
        centre(i) == IF c.type = "bar" THEN plot.x + ((2 * i - 1) * plot.w) \div (2 * all)
                     ELSE PointX(plot, i, all)
    IN  [i \in 1 .. all |-> Under(Elide(c.labels[i], plot.w \div all), centre(i), c.width)]

\* paintPie: how far its rim is from the middle of the plot.
Radius(plot) == Smaller(plot.w, plot.h) \div 2 - PieMargin

(***************************************************************************)
(* Writing one                                                              *)
(***************************************************************************)

ChartInit ==
    /\ supply \in DOMAIN ChartSupplies
    /\ \E t \in ChartTags : t.type \in ChartSupplies[supply].types /\
           chart = [type |-> t.type, width |-> t.width, height |-> t.height, title |-> t.title,
                    legend |-> t.legend, series |-> <<>>, labels |-> <<>>]

NewSeries(name) ==
    /\ Len(chart.series) < ChartSupplies[supply].series
    /\ chart' = [chart EXCEPT !.series = Append(@, [name |-> name, values |-> <<>>])]
Value(x, y) ==
    /\ chart.series # <<>> /\ Cardinality(Places(chart)) < ChartSupplies[supply].points
    /\ chart' = [chart EXCEPT !.series[Len(chart.series)].values = Append(@, <<x, y>>)]
\* Labels are read apart from series, so these come first.
Label(n) ==
    /\ chart.series = <<>> /\ Len(chart.labels) < ChartSupplies[supply].labels
    /\ chart' = [chart EXCEPT !.labels = Append(@, n)]

ChartNext ==
    /\ \/ \E n \in ChartSupplies[supply].names \cup {0} : NewSeries(n)
       \/ \E x \in ChartSupplies[supply].across, y \in ChartSupplies[supply].numbers : Value(x, y)
       \/ \E n \in ChartSupplies[supply].names : Label(n)
    /\ UNCHANGED supply

ChartSpec == ChartInit /\ [][ChartNext]_chartVars

\* readChart: what the tree takes for a chart.
Readable(c) ==
    /\ c.type = "pie" => Len(c.series) = 1 /\ \A y \in Ys(c) : y > 0
    /\ Places(c) # {}
    /\ c.type = "scatter" => c.labels = <<>>
    /\ Len(c.labels) <= Categories(c)

(***************************************************************************)
(* Property                                                                 *)
(***************************************************************************)

Contained(a, b) == a.x >= b.x /\ a.x + a.w <= b.x + b.w /\ a.y >= b.y /\ a.y + a.h <= b.y + b.h
Beside(a, b) == a.x + a.w <= b.x \/ b.x + b.w <= a.x
Apart(a, b)  == Beside(a, b) \/ a.y + a.h <= b.y \/ b.y + b.h <= a.y
Magnitude(v)      == IF v < 0 THEN -v ELSE v

\* The marks climb by one step, zero is one of them and every value is between two.
MarksSpan(marks, values) ==
    /\ Len(marks) \in 2 .. TickCount + 1
    /\ \A i \in 1 .. Len(marks) - 1 : marks[i + 1] - marks[i] = marks[2] - marks[1]
    /\ \A v \in values \cup {0} : marks[1] <= v /\ v <= LastOf(marks)
    /\ \E i \in DOMAIN marks : marks[i] = 0

\* All bars or none; each stands on the axis, as high as its value to within a dot,
\* and clear of the others.
BarsTell(bars, plot, marks) ==
    LET span  == LastOf(marks) - marks[1]
    IN  /\ \A b \in bars :
              /\ Contained(b, plot)
              /\ (IF b.value < 0 THEN b.y ELSE b.y + b.h) = Down(marks, plot.y, plot.h, 0)
              /\ Magnitude(b.h * span - Magnitude(b.value) * plot.h) <= span
        /\ \A a, b \in bars :
              /\ a.value <= b.value => a.y + a.h >= b.y + b.h /\ a.y >= b.y
              /\ a # b => Beside(a, b)
              /\ a.category < b.category => a.x + a.w + 2 * CategoryMargin <= b.x

\* Points stand in the order of their values, on the dots of the plot.
PointsTell(type, points, plot) ==
    \A p \in points :
        /\ plot.x <= p.x /\ p.x < plot.x + plot.w /\ plot.y <= p.y /\ p.y <= plot.y + plot.h
        /\ \A q \in points :
              /\ p.value[2] <= q.value[2] => p.y >= q.y
              /\ type = "scatter" /\ p.value[1] <= q.value[1] => p.x <= q.x
              /\ type = "line" /\ p.series = q.series /\ p.at < q.at => p.x <= q.x

\* Names do not run into each other, and a bar's is under its share of the plot.  The
\* first and the last name of a line may be held by the chart's edge, over the next one.
NamesStandApart(c, names, plot) ==
    LET held(j, i) ==
            /\ c.type = "line"
            /\ \/ j = 1 /\ names[j].x = 0
               \/ i = Len(names) /\ names[i].x + names[i].w = c.width
    IN  \A i \in DOMAIN names :
            /\ names[i].w <= plot.w => names[i].x + names[i].w <= c.width
            /\ \A j \in 1 .. i - 1 : names[i].w > 0 /\ names[j].w > 0 /\ ~held(j, i) =>
                  names[j].x + names[j].w <= names[i].x
            /\ c.type = "bar" /\ Len(names) = Categories(c) /\ names[i].w > 0 =>
                  /\ plot.x + ((i - 1) * plot.w) \div Len(names) <= names[i].x
                  /\ names[i].x + names[i].w <= plot.x + (i * plot.w + Len(names) - 1) \div Len(names)

\* A legend that is wider than half the chart, or with the heads and axis higher than it.
Crowded(c, legend) ==
    \E l \in legend :
        \/ l.w > (IF Besides(c) THEN c.width \div 2 ELSE c.width - AxisWidth(c))
        \/ TitleHeight(c) + l.h + (IF Besides(c) THEN 0 ELSE AxisHeight(c)) > ChartHeight(c)

\* The plot, what is written under it and the legend each have dots of their own.
PartsKeepApart(c, plot, legend) ==
    LET whole == [x |-> 0, y |-> 0, w |-> c.width, h |-> ChartHeight(c)]
        under == [x |-> plot.x, y |-> plot.y + plot.h, w |-> plot.w, h |-> AxisHeight(c)]
    IN  AxisWidth(c) <= c.width /\ ~Crowded(c, legend) =>
            /\ Contained(plot, whole) /\ plot.y >= TitleHeight(c)
            /\ Contained(under, whole)
            /\ \A l \in legend :
                  /\ Contained(l, whole) /\ Apart(l, plot) /\ Apart(l, under)
                  /\ Besides(c) => plot.w >= MinPlot

ReadsTrue(c, plot, legend, marks) ==
    /\ PartsKeepApart(c, plot, legend)
    /\ c.type # "pie" => MarksSpan(marks, Ys(c)) /\ NamesStandApart(c, Names(c, plot), plot)
    /\ c.type = "scatter" => MarksSpan(AcrossTicks(c), Xs(c))
    /\ c.type = "bar" => BarsTell(Bars(c, plot, marks), plot, marks)
    /\ c.type \in {"line", "scatter"} => PointsTell(c.type, Points(c, plot, marks), plot)

\* A chart shows its numbers: each mark where the axes say, each name at its own.
ChartReadsTrue ==
    Readable(chart) =>
        LET frame == Frame(chart) IN ReadsTrue(chart, frame.plot, frame.legend, ChartTicks(chart))
=============================================================================
