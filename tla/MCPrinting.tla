------------------------------ MODULE MCPrinting ------------------------------
(***************************************************************************)
(* From a document to paper, on small instances: the markup two parsers read, *)
(* the layout of a line, in columns and in dots, of drawn blocks and charts, *)
(* the commands the printer is sent, and the queue of jobs that carries them  *)
(* to a port.  They share no variable, so a behaviour of one with the others  *)
(* at rest shows all there is to see.                                       *)
(***************************************************************************)
EXTENDS PrintQueue, Markup, DrawnText, DrawnBlocks, DrawnChart, EscPos, TLC

VARIABLE part   \* which of them this behaviour is about

\* Native text, styled and then aligned; tables; lists; charts in a box; gauges.
TheVocabularies ==
    <<{"bold", "wide", "qr", "hr", "cut"},
     {"bold", "center", "nowrap", "fill", "qr"},
     {"center", "table", "row", "cell", "hr"},
     {"bold", "box", "list", "item", "hr"},
     {"chart", "series", "box", "tall", "drawer"},
     {"right", "wrap", "list", "item", "bar", "fill"}>>

\* Words in an entry of a list or outside one; what a codepage lacks, and fills.
TheAlphabets ==
    <<[texts |-> {<<"space", 1>>, <<"glyph", 1>>, <<"glyph", 2>>}, fills |-> {},
      longest |-> 5, depths |-> {0, 2}],
     [texts |-> {<<"space", 1>>, <<"glyph", 1>>, <<"odd", 1>>, <<"odd", 2>>},
      fills |-> {<<"space", 1>>, <<"glyph", 2>>, <<"odd", 1>>}, longest |-> 4, depths |-> {0}]>>

\* Boxes in boxes; tables with sized columns and grouped ones; gauges; charts in boxes.
Word(n, wrap)    == [k |-> "text", n |-> n, wrap |-> wrap]
Box(w, b, p, a)   == [k |-> "box", width |-> w, border |-> b, pad |-> p, align |-> a]
Table(w, b, g, a) == [k |-> "table", width |-> w, border |-> b, group |-> g, align |-> a]
Cell(w, v)        == [k |-> "cell", width |-> w, valign |-> v]
TheOffers ==
    <<[papers |-> {96, 200}, most |-> 4, leaves |-> {Word(7, TRUE), [k |-> "hr"]},
      tags |-> {Box(100, "single", 1, "left"), Box(55, "double", 0, "center"), Box(90, "thick", 2, "right")}],
     [papers |-> {120}, most |-> 6, leaves |-> {Word(5, TRUE)},
      tags |-> {Table(90, "double", 1, "center"), [k |-> "row"], Cell(0, "top"), Cell(30, "bottom")}],
     [papers |-> {160}, most |-> 5,
      leaves |-> {[k |-> "bar", width |-> 60, digits |-> 3, align |-> "right"], [k |-> "blank"]},
      tags |-> {Box(100, "none", 1, "left"), Table(100, "thick", 2, "left"), [k |-> "row"], Cell(60, "middle")}],
     [papers |-> {160}, most |-> 5,
      leaves |-> {[k |-> "chart", width |-> 50, height |-> 3, align |-> "right"], Word(2, FALSE)},
      tags |-> {Box(50, "single", 1, "center")}]>>

\* Two papers, and places too narrow for bars or for an axis; with and without names.
TheTags ==
    {[type |-> t, width |-> f[1], height |-> f[2], title |-> f[3], legend |-> f[4]] :
        t \in {"bar", "line", "pie", "scatter"},
        f \in {<<384, 4, 10, "auto">>, <<576, 8, 0, "on">>, <<60, 8, 0, "off">>, <<24, 3, 0, "off">>}}
TheSupplies ==
    <<[types |-> {"bar", "line"}, names |-> {20}, numbers |-> {-30, 0, 70}, across |-> {0},
      series |-> 2, points |-> 3, labels |-> 2],
     [types |-> {"bar", "line", "pie"}, names |-> {2, 12}, numbers |-> {40}, across |-> {0},
      series |-> 1, points |-> 5, labels |-> 5],
     [types |-> {"scatter"}, names |-> {20}, numbers |-> {-30, 450}, across |-> {-20, 1200},
      series |-> 2, points |-> 3, labels |-> 0]>>

PrintingInit ==
    /\ Init /\ MarkupInit /\ LayoutInit /\ BlocksInit /\ ChartInit /\ EscInit
    /\ part \in {"queue", "markup", "layout", "blocks", "chart", "commands"}
    /\ part # "markup" => words = 1
    /\ part # "layout" => alphabet = 2 /\ line.indent = 0
    /\ part # "blocks" => offer = 1
    /\ part # "chart" => supply = 3 /\ chart.width = 384
    /\ part # "commands" => printer.style = "plain" /\ printer.align = "left"

In(p) == part = p /\ UNCHANGED part

OnQueue    == In("queue") /\ UNCHANGED <<markupVars, layoutVars, blockVars, chartVars, escVars>> /\ Next
OnMarkup   == In("markup") /\ UNCHANGED <<vars, layoutVars, blockVars, chartVars, escVars>> /\ MarkupNext
OnLayout   == In("layout") /\ UNCHANGED <<vars, markupVars, blockVars, chartVars, escVars>> /\ LayoutNext
OnBlocks   == In("blocks") /\ UNCHANGED <<vars, markupVars, layoutVars, chartVars, escVars>> /\ BlocksNext
OnChart    == In("chart") /\ UNCHANGED <<vars, markupVars, layoutVars, blockVars, escVars>> /\ ChartNext
OnCommands == In("commands") /\ UNCHANGED <<vars, markupVars, layoutVars, blockVars, chartVars>> /\ EscNext

PrintingSpec ==
    PrintingInit /\ [][OnQueue \/ OnMarkup \/ OnLayout \/ OnBlocks \/ OnChart \/ OnCommands]_<<vars,
        markupVars, layoutVars, blockVars, chartVars, escVars, part>>

Symmetry == Permutations(Jobs)
=============================================================================
