-------------------------------- MODULE EscPos --------------------------------
(***************************************************************************)
(* The last stage: lines become printer commands (EscPosRenderer.java).  A   *)
(* line reaches the renderer from the server, which turns a rule into text    *)
(* (compiler.ts toWireLine, IrRenderer.java), or from the agent's own         *)
(* console, where the rule is still a directive.                            *)
(*                                                                         *)
(* The renderer writes a style only when it is not the one in effect, which   *)
(* it keeps in a cache of its own; the printer (external) keeps what it was   *)
(* last told, through jobs cut short on the wire too.  A step renders one     *)
(* line and the printer works through it.                                   *)
(***************************************************************************)
EXTENDS Integers, Sequences

CONSTANTS
    SpanStyles,    \* styles a span may have; "plain" is one
    LineAligns,    \* alignments; "left" is one
    Emitted,       \* what a line may do besides printing text
    RowWidth,      \* cells a row of paper takes, which is how many spans a line may have
    MaxDirectives  \* bound: directives of one line

\* A symbol stands for every other, for an image and for a line drawn in dots.
Solo  == {"qr"}      \* justified and printed by a command of their own
Alone == Solo \cup {"rule"}

ASSUME EscAssumption ==
    /\ "plain" \in SpanStyles /\ "none" \notin SpanStyles /\ "left" \in LineAligns
    /\ Emitted \subseteq Alone \cup {"feed", "cut", "drawer"}
    /\ RowWidth \in Nat \ {0} /\ MaxDirectives \in Nat

VARIABLES
    rendering,     \* the job being rendered: where from, its linefeed; Idle between jobs
    cache,         \* RenderState.activeStyle, NotKnown if null
    printer,       \* the printer: style, alignment, the row in its buffer
    input,         \* the line being printed, if any
    printed        \* what the printer did with it

escVars == <<rendering, cache, printer, input, printed>>

NotKnown == [style |-> "none", align |-> "none"]
Idle     == [from |-> "none", linefeed |-> "none"]

\* What is printed stands for the style its author gave it.
SpanIn(style) == [style |-> style, text |-> style]

-----------------------------------------------------------------------------
(* The renderer                                                             *)

WithoutRules(s) ==
    LET kept[n \in 0 .. Len(s)] ==
            IF n = 0 THEN <<>> ELSE IF s[n] = "rule" THEN kept[n - 1] ELSE Append(kept[n - 1], s[n])
    IN  kept[Len(s)]

\* toWireLine: the server expands a rule, since only it knows the paper.
ToWireLine(l) ==
    IF \E i \in DOMAIN l.directives : l.directives[i] = "rule"
    THEN [l EXCEPT !.spans = <<[style |-> "plain", text |-> "rule"]>>,
                   !.directives = WithoutRules(@)]
    ELSE l

IsDirectiveOnly(l) == l.spans = <<>> /\ l.directives # <<>>

\* A rendering under way: the commands written, and the style in effect.
Wrote(r, command) == [r EXCEPT !.commands = Append(@, command)]

\* writeStyled
WriteStyled(r, style, align, text) ==
    LET config == [style |-> style, align |-> align]
        styled == IF r.active = config THEN r
                  ELSE [Wrote(r, [do |-> "style", style |-> style, align |-> align]) EXCEPT !.active = config]
    IN  Wrote(styled, [do |-> "text", text |-> text])

\* The mutant: the cache outlives a feed.
MistakeForgets(directive) == directive \in Solo

\* Whether what is in effect afterwards is not what the cache says.
Forgets(directive) == directive \in Solo \cup {"feed"}

\* emit: the library's feed begins with a style of its own, and a symbol sets
\* its own justification.
Emit(r, directive, align) ==
    LET done == CASE directive = "feed" -> Wrote(Wrote(r, [do |-> "style", style |-> "plain", align |-> "left"]), [do |-> "feed"])
                  [] directive \in Solo -> Wrote(Wrote(r, [do |-> "align", align |-> align]),
                                                [do |-> "symbol", what |-> directive])
                  [] directive = "rule" -> Wrote(WriteStyled(r, "plain", align, "rule"), [do |-> "lf"])
                  [] OTHER              -> Wrote(r, [do |-> directive])
    IN  IF Forgets(directive) THEN [done EXCEPT !.active = NotKnown] ELSE done

\* renderLine: the spans, the linefeed, the directives.
SpansOf(l, active) ==
    LET at[n \in 0 .. Len(l.spans)] ==
            IF n = 0 THEN [commands |-> <<>>, active |-> active]
            ELSE WriteStyled(at[n - 1], l.spans[n].style, l.align, l.spans[n].text)
    IN  at[Len(l.spans)]
DirectivesOf(l, begun) ==
    LET at[n \in 0 .. Len(l.directives)] ==
            IF n = 0 THEN begun ELSE Emit(at[n - 1], l.directives[n], l.align)
    IN  at[Len(l.directives)]
RenderLine(l, active, linefeed) ==
    LET text == SpansOf(l, active)
    IN  DirectivesOf(l, IF IsDirectiveOnly(l) \/ linefeed = "NONE" THEN text ELSE Wrote(text, [do |-> "lf"]))

-----------------------------------------------------------------------------
(* The printer: external                                                    *)

\* What is on the paper is in `out`; an alignment counts from the next row on.
RowOut(p)       == [p EXCEPT !.out = Append(@, [align |-> p.align, row |-> p.row]), !.row = <<>>]
Aligned(p, to)  == [p EXCEPT !.align = IF p.row = <<>> THEN to ELSE @]
Does(p, c) ==
    CASE c.do = "style"  -> [Aligned(p, c.align) EXCEPT !.style = c.style]
      [] c.do = "align"  -> Aligned(p, c.align)
      [] c.do = "text"   -> [(IF Len(p.row) = RowWidth THEN RowOut(p) ELSE p) EXCEPT
                                 !.row = Append(@, [text |-> c.text, style |-> p.style])]
      [] c.do = "lf"     -> RowOut(p)
      [] c.do = "feed"   -> IF p.row = <<>> THEN p ELSE RowOut(p)
      [] c.do = "symbol" -> [p EXCEPT !.out = Append(@, [align |-> p.align, row |-> <<SpanIn(c.what)>>])]
      [] OTHER           -> p
Works(commands) ==
    LET at[n \in 0 .. Len(commands)] ==
            IF n = 0 THEN [style |-> printer.style, align |-> printer.align, row |-> printer.row, out |-> <<>>]
            ELSE Does(at[n - 1], commands[n])
    IN  at[Len(commands)]

-----------------------------------------------------------------------------
\* A line of the grammar: what claims all of it shares it with a drawer's pulse at
\* most.
UpTo(n, S) == UNION {[1 .. m -> S] : m \in 0 .. n}
Lines ==
    {l \in [spans : UpTo(RowWidth, {SpanIn(style) : style \in SpanStyles}), align : LineAligns,
            directives : UpTo(MaxDirectives, Emitted)] :
        \A i \in DOMAIN l.directives : l.directives[i] \in Alone =>
            l.spans = <<>> /\ \A j \in DOMAIN l.directives : j # i => l.directives[j] = "drawer"}

EscInit ==
    /\ rendering = Idle /\ cache = NotKnown
    /\ printer \in [style : SpanStyles, align : LineAligns, row : {<<>>}]
    /\ input = <<>> /\ printed = <<>>

\* render, to its loop: ESC @ undoes what a job before left behind.
StartJob(from, linefeed) ==
    /\ rendering = Idle
    /\ rendering' = [from |-> from, linefeed |-> linefeed]
    /\ printer' = [style |-> "plain", align |-> "left", row |-> <<>>] /\ cache' = NotKnown
    /\ input' = <<>> /\ printed' = <<>>

Rendered(l) == RenderLine(IF rendering.from = "server" THEN ToWireLine(l) ELSE l, cache, rendering.linefeed)
Leaves(commands) ==
    LET p == Works(commands)
    IN  /\ printer' = [style |-> p.style, align |-> p.align, row |-> p.row]
        /\ printed' = p.out

PrintLine(l) ==
    /\ rendering # Idle /\ input = <<>>
    /\ input' = <<l>> /\ cache' = Rendered(l).active
    /\ Leaves(Rendered(l).commands)
    /\ UNCHANGED rendering

\* The port is lost, or the job is cancelled, after some of a line's commands.
CutShort(l) ==
    /\ rendering # Idle /\ input = <<>>
    /\ \E n \in 0 .. Len(Rendered(l).commands) : Leaves(SubSeq(Rendered(l).commands, 1, n))
    /\ rendering' = Idle /\ cache' = NotKnown /\ input' = <<l>>

LineOver ==
    /\ rendering # Idle /\ input # <<>>
    /\ input' = <<>> /\ printed' = <<>>
    /\ UNCHANGED <<rendering, cache, printer>>

EscNext ==
    \/ \E from \in {"server", "console"}, linefeed \in {"LF", "NONE"} : StartJob(from, linefeed)
    \/ \E l \in Lines : PrintLine(l) \/ CutShort(l)
    \/ LineOver

EscSpec == EscInit /\ [][EscNext]_escVars

(***************************************************************************)
(* Properties                                                               *)
(***************************************************************************)

\* What of a line claims all of it, if anything does.
Claimants(l) == {i \in DOMAIN l.directives : l.directives[i] \in Alone}

\* lineCost
LineCost(l) == IF l.spans # <<>> \/ Claimants(l) # {} THEN 1 ELSE 0

\* The rows a line should be: its text, or the rule, or the symbol.
Due(l) ==
    IF \E i \in Claimants(l) : l.directives[i] = "rule" THEN <<<<[text |-> "rule", style |-> "plain"]>>>>
    ELSE IF Claimants(l) # {} THEN <<<<SpanIn(l.directives[CHOOSE i \in Claimants(l) : TRUE])>>>>
    ELSE IF IsDirectiveOnly(l) THEN <<>>
    ELSE <<l.spans>>

\* Whatever was printed before, a job cut short on the wire included, a line puts
\* its own rows on paper, each under the line's alignment and each cell in
\* the style its author gave it, wherever it was compiled; and it was charged for
\* them unless they are blank.  Without linefeeds only the styles are promised.
PrintsAsWritten ==
    /\ \A r \in DOMAIN printed : \A i \in DOMAIN printed[r].row :
          printed[r].row[i].style = printed[r].row[i].text \/ printed[r].row[i] = [text |-> "rule", style |-> "plain"]
    /\ rendering.linefeed = "LF" /\ input # <<>> =>
          /\ [r \in DOMAIN printed |-> printed[r].row] = Due(input[1])
          /\ \A r \in DOMAIN printed :
                printed[r].row # <<>> => printed[r].align = input[1].align /\ LineCost(input[1]) > 0
=============================================================================
