-------------------------------- MODULE Markup --------------------------------
(***************************************************************************)
(* One markup language, read by two parsers: the server's tree builder       *)
(* (lib/markup/tree.ts, with the lines flatten.ts makes of the tree) and the *)
(* parser of the agent's console (MarkupParser.java).                       *)
(*                                                                         *)
(* A step reads one token, whichever the language has, with both.  A printed *)
(* line is forgotten when the next begins, so documents of any length are   *)
(* read on a finite graph.  The server keeps what it has seen of the line    *)
(* being written in a LineState per region and checks it at every break;    *)
(* the tree then drops the breaks that only lay a scope out, where the agent *)
(* looks at the tokens around a break first.                                *)
(*                                                                         *)
(* Left out: attributes other than a direction and a size, what a symbol or  *)
(* a chart holds, images and stored fonts (the agent has neither).          *)
(***************************************************************************)
EXTENDS Integers, Sequences

CONSTANTS
    Vocabularies,   \* a sequence of sets of the tags below, of which a document uses one
    MaxFrames,      \* bound: tags open at one time
    MaxOnLine,      \* bound: things on one line
    MaxDepth        \* maxBlockDepth

Styles  == {"bold", "wide", "tall"}          \* <bold>, <size width=2>, <size height=2>
Aligns  == {"center", "right"}               \* <align to=...>
Wraps   == {"wrap", "nowrap"}
Scopes  == Styles \cup Aligns \cup Wraps     \* LINE_SCOPES
Symbols == {"qr"}
Data    == {"series"}                        \* encloses data, and is a block
Blocks  == {"box", "table", "row", "cell", "chart"} \cup Data
Regions == Blocks \cup {"list", "item"}
Voids   == {"fill", "hr", "cut", "drawer", "bar"}

SharesALine    == {"row", "cell", "series", "bar", "item"}
PrinterDrawn   == Symbols \cup {"cut", "drawer"}
NotInAnItem    == Blocks \cup {"bar", "hr"}
RequiredParent == [row |-> "table", cell |-> "row", series |-> "chart", item |-> "list"]
HoldsOnly      == [table |-> "row", row |-> "cell", chart |-> "series", list |-> "item"]

ASSUME VocabulariesAssumption ==
    \A n \in DOMAIN Vocabularies : Vocabularies[n] \subseteq Scopes \cup Symbols \cup Regions \cup Voids

ServerTags == Regions \cup {"bar", "drawer"}    \* the agent refuses these
WholeLine  == Symbols \cup (Regions \ SharesALine) \cup {"hr"}

VARIABLES
    words,     \* which vocabulary this document uses
    tree,      \* the server: frames, a LineState for each region and the top, the printed line
    parser,    \* the agent, and whether every token so far is one it knows
    before,    \* the token read last: "break", "open" of a line scope, "text", or another "tag"
    due,       \* what is known of the next: "close" of a line scope, "not close", "break"
    ruled,     \* verdicts, once the document is over: of the server and of the agent
    ended      \* of the printed line that ended with the last token, whether something shared
               \* a line it must have alone, and whether a dropped break had hushed that

markupVars == <<words, tree, parser, before, due, ruled, ended>>

Last(s)   == s[Len(s)]
Front(s)  == SubSeq(s, 1, Len(s) - 1)
Plainly   == [bold |-> FALSE, size |-> "normal"]
Patch(style, tag) == IF tag = "bold" THEN [style EXCEPT !.bold = TRUE] ELSE [style EXCEPT !.size = tag]

-----------------------------------------------------------------------------
(* The server                                                               *)

FreshLine ==
    [content |-> FALSE, textSeen |-> FALSE, fills |-> FALSE, printing |-> 0, alignSeen |-> FALSE,
     wrapSeen |-> FALSE, sole |-> FALSE, closed |-> "no", spaceOnly |-> TRUE, blockSeen |-> FALSE]
BlockLine == [FreshLine EXCEPT !.blockSeen = TRUE]

Frames    == tree.frames
Top       == IF Frames = <<>> THEN "none" ELSE Last(Frames)
Owner     == Last(tree.owners)
InData    == Top \in Symbols \cup Data
OnPaper   == Len(tree.owners) = 1    \* no region is open: what comes is on the printed line

\* enclosingRegion; and the frames inside the innermost block, which is where
\* lineOwnerOpen and insideStyling stop looking.
Inside  == LET at == {i \in DOMAIN Frames : Frames[i] \in Regions}
           IN  IF at = {} THEN "none" ELSE Frames[CHOOSE i \in at : \A j \in at : j <= i]
InBlock == {i \in DOMAIN Frames : \A j \in i .. Len(Frames) : Frames[j] \notin Blocks}
Within(kinds) == \E i \in InBlock : Frames[i] \in kinds

\* The line state after something that is not text was placed on it.
Placed(state, prints) ==
    [state EXCEPT !.content = TRUE, !.spaceOnly = FALSE, !.printing = IF prints /\ @ < 2 THEN @ + 1 ELSE @]

PlacedBlock(state, tag) ==
    [Placed(state, TRUE) EXCEPT !.blockSeen = TRUE,
                                !.closed = IF tag \in SharesALine THEN @ ELSE "block"]

\* endLineOf: what claimed the whole line must be all there is on it.
AloneOn(state) == state.sole => ~state.textSeen /\ ~state.fills /\ state.printing = 1

\* requirePlacement
MayStand(tag) ==
    /\ Inside # "none" => tag \notin PrinterDrawn
    /\ Inside = "item" => tag \notin NotInAnItem
    /\ tag \in DOMAIN RequiredParent => Inside = RequiredParent[tag]
    /\ Inside \in DOMAIN HoldsOnly => tag = HoldsOnly[Inside]

\* requireLineOwnerCanOpen, requireBlockCanOpen
OwnerCanOpen == ~Owner.content /\ ~Within(Styles)
BlockCanOpen == Owner.spaceOnly /\ ~Within(Styles)
Depth        == Len(tree.owners)

ServerTakesText(blank) ==
    /\ Owner.closed = "no" \/ (blank /\ Owner.closed = "block")
    /\ blank \/ InData \/ Inside \notin DOMAIN HoldsOnly

ServerTakesOpen(tag) ==
    /\ ~InData /\ MayStand(tag) /\ Owner.closed = "no"
    /\ tag \in Aligns => ~Owner.alignSeen /\ ~Within(Aligns) /\ OwnerCanOpen
    /\ tag \in Wraps => ~Owner.wrapSeen /\ ~Within(Wraps) /\ OwnerCanOpen
    /\ tag \in Regions => Depth <= MaxDepth
    /\ tag \in Regions \ SharesALine => BlockCanOpen
    /\ tag = "bar" => Depth <= MaxDepth

ServerTakesClose(tag) == Top = tag /\ (tag \in Regions => AloneOn(Owner))

\* With the line state of the innermost region changed.
Owning(state) == [tree EXCEPT !.owners[Depth] = state]

\* What is placed outside every region is on the printed line, in the style of
\* the scopes around it; spaces beside a block print nothing.
StyleOf(tags) ==
    LET at[n \in 0 .. Len(tags)] ==
            IF n = 0 THEN Plainly
            ELSE IF tags[n] \in Styles THEN Patch(at[n - 1], tags[n]) ELSE at[n - 1]
    IN  at[Len(tags)]
StyleHere == StyleOf(Frames)
Printing(t, what) ==
    IF ~OnPaper THEN t
    ELSE IF what \in WholeLine \cup {"cut", "drawer", "bar"}
         THEN [t EXCEPT !.line.directives = Append(@, what)]
         ELSE [t EXCEPT !.line.cells = Append(@, [what |-> what, style |-> StyleHere])]

\* An <align> or <wrap> is copied onto every line it spans.
OwnerOf(kinds) == IF \E i \in DOMAIN Frames : Frames[i] \in kinds
                  THEN Frames[CHOOSE i \in DOMAIN Frames : Frames[i] \in kinds] ELSE "none"
NextLine == [align |-> OwnerOf(Aligns), wrap |-> OwnerOf(Wraps), cells |-> <<>>, directives |-> <<>>,
             hushed |-> FALSE, late |-> FALSE]

Things(line) == Len(line.cells) + Len(line.directives)
Blank(line)  == \A i \in DOMAIN line.cells : line.cells[i].what = "space"

\* readText
ServerText(blank) ==
    IF InData THEN tree
    ELSE Printing(Owning([Owner EXCEPT !.content = TRUE, !.textSeen = TRUE, !.spaceOnly = @ /\ blank]),
                  IF blank THEN "space" ELSE "text")

\* appendFill, appendRule, appendVoid, appendGauge
ServerVoid(tag) ==
    Printing(Owning(CASE tag = "fill"   -> [Placed(Owner, FALSE) EXCEPT !.fills = TRUE]
                      [] tag = "hr"     -> [Placed(Owner, TRUE) EXCEPT !.sole = TRUE]
                      [] tag = "bar"    -> PlacedBlock(Owner, tag)
                      [] tag = "cut"    -> Placed(Owner, TRUE)
                      [] tag = "drawer" -> Placed(Owner, FALSE)), tag)

\* openScope, openAlign, openWrap, openContent, openRegion, openList, enter
ServerOpen(tag) ==
    LET t == CASE tag \in Aligns  -> Owning([Owner EXCEPT !.alignSeen = TRUE])
               [] tag \in Wraps   -> Owning([Owner EXCEPT !.wrapSeen = TRUE])
               [] tag \in Symbols -> Owning([Owner EXCEPT !.sole = TRUE])
               [] tag \in Regions ->
                      [tree EXCEPT !.owners = Append(@, IF tag = "item" THEN FreshLine ELSE BlockLine)]
               [] OTHER -> tree
        u == [t EXCEPT !.frames = Append(@, tag)]
    IN  IF ~OnPaper \/ tag \notin Aligns \cup Wraps THEN u
        ELSE [u EXCEPT !.line.late = @ \/ Things(tree.line) > 0,
                       !.line.align = IF tag \in Aligns THEN tag ELSE @,
                       !.line.wrap = IF tag \in Wraps THEN tag ELSE @]

\* closeTag, closeRegion, closeList, closeContent, releaseLineOwner
ServerClose(tag) ==
    LET t == [tree EXCEPT !.frames = Front(@)]
        u == [t EXCEPT !.owners = Front(@)]
    IN  CASE tag \in Symbols -> Printing([t EXCEPT !.owners[Depth] = Placed(@, TRUE)], tag)
          [] tag \in Regions ->
                 LET v == [u EXCEPT !.owners[Depth - 1] = PlacedBlock(@, tag)]
                 IN  IF Depth = 2 THEN [v EXCEPT !.line.directives = Append(@, tag)] ELSE v
          [] tag \in Aligns  -> [t EXCEPT !.owners[Depth].closed = "align"]
          [] tag \in Wraps   -> [t EXCEPT !.owners[Depth].closed = "wrap"]
          [] OTHER -> t

-----------------------------------------------------------------------------
(* The agent                                                                *)

ConsoleLine == [align |-> parser.align, wrap |-> parser.wrap,
                cells |-> parser.cells \o parser.pending, directives |-> parser.directives]

\* flushPending: what was collected is a span in the style of now.
Flushed == [parser EXCEPT !.cells = @ \o [i \in DOMAIN parser.pending |->
                                [parser.pending[i] EXCEPT !.style = parser.style]], !.pending = <<>>]

AgentTakesText == ~parser.closed

AgentTakesOpen(tag) ==
    /\ ~parser.block /\ ~parser.closed
    /\ tag \in Aligns => ~parser.alignSeen
    /\ tag \in Wraps => ~parser.wrapSeen
    /\ tag \in Aligns \cup Wraps =>
          /\ parser.pending = <<>> /\ \A i \in DOMAIN parser.cells : parser.cells[i].what = "fill"
          /\ parser.directives = <<>>
          /\ \A i \in DOMAIN parser.open : parser.open[i].tag \in Aligns \cup Wraps

AgentTakesClose(tag) == parser.open # <<>> /\ Last(parser.open).tag = tag

\* verifyBlockScope
AgentAlone == LET line == ConsoleLine IN
    parser.sole => line.cells = <<>> /\ Len(line.directives) = 1

AgentText(blank) ==
    IF parser.block THEN parser
    ELSE [parser EXCEPT !.pending = Append(@, [what |-> IF blank THEN "space" ELSE "text",
                                                style |-> parser.style])]

\* appendFill; appendDirective, which leaves what is pending where it is
AgentVoid(tag) ==
    IF tag = "fill" THEN [Flushed EXCEPT !.cells = Append(@, [what |-> tag, style |-> parser.style])]
    ELSE [parser EXCEPT !.directives = Append(@, tag), !.sole = @ \/ tag = "hr"]

AgentOpen(tag) ==
    LET c == [Flushed EXCEPT !.open = Append(@, [tag |-> tag, style |-> parser.style])]
    IN  CASE tag \in Aligns  -> [c EXCEPT !.align = tag, !.alignSeen = TRUE]
          [] tag \in Wraps   -> [c EXCEPT !.wrap = tag, !.wrapSeen = TRUE]
          [] tag \in Symbols -> [c EXCEPT !.block = TRUE]
          [] tag \in Styles  -> [c EXCEPT !.style = Patch(@, tag)]

AgentClose(tag) ==
    LET c == [Flushed EXCEPT !.open = Front(@), !.style = Last(parser.open).style]
    IN  CASE tag \in Aligns  -> [c EXCEPT !.closed = TRUE, !.alignSeen = FALSE, !.resetAlign = TRUE]
          [] tag \in Wraps   -> [c EXCEPT !.closed = TRUE, !.wrapSeen = FALSE, !.resetWrap = TRUE]
          [] tag \in Symbols -> [c EXCEPT !.block = FALSE, !.sole = TRUE, !.directives = Append(@, tag)]
          [] tag \in Styles  -> c

\* endLine
AgentEnds ==
    [parser EXCEPT !.cells = <<>>, !.pending = <<>>, !.directives = <<>>, !.sole = FALSE, !.closed = FALSE,
                    !.align = IF parser.resetAlign THEN "none" ELSE @, !.resetAlign = FALSE,
                    !.wrap = IF parser.resetWrap THEN "none" ELSE @, !.resetWrap = FALSE]

-----------------------------------------------------------------------------
(* Reading                                                                  *)

MarkupInit ==
    /\ words \in DOMAIN Vocabularies
    /\ tree = [frames |-> <<>>, owners |-> <<FreshLine>>,
               line |-> [align |-> "none", wrap |-> "none", cells |-> <<>>, directives |-> <<>>,
                         hushed |-> FALSE, late |-> FALSE]]
    /\ parser = [known |-> TRUE, open |-> <<>>, style |-> Plainly, align |-> "none", wrap |-> "none",
                  alignSeen |-> FALSE, wrapSeen |-> FALSE, resetAlign |-> FALSE, resetWrap |-> FALSE,
                  closed |-> FALSE, block |-> FALSE, sole |-> FALSE,
                  cells |-> <<>>, pending |-> <<>>, directives |-> <<>>]
    /\ before = "break" /\ due = "any"
    /\ ruled = [server |-> "reading", agent |-> "reading"]
    /\ ended = [shared |-> FALSE, hushed |-> FALSE]

\* Both rule on a token, and the first refusal ends the document.
Ruled(server, agent) ==
    LET heard == parser'.known IN
    /\ ruled' = IF server /\ (agent \/ ~heard) THEN ruled
                ELSE [server |-> IF server THEN "taken" ELSE "refused",
                      agent |-> IF ~heard THEN "reading" ELSE IF agent THEN "taken" ELSE "refused"]
Reading == ruled.server = "reading"
Nothing == ended' = [shared |-> FALSE, hushed |-> FALSE]
AgentHears(tag) == parser.known /\ tag \notin ServerTags
Unheard == [parser EXCEPT !.known = FALSE, !.open = <<>>, !.cells = <<>>, !.pending = <<>>, !.directives = <<>>]

\* Text, or spaces alone: two texts in a row are an entity or a variable beside
\* text; spaces that begin a line are skipped unless the line ends with them.
ReadText(blank) ==
    /\ Reading /\ due \in {"any", "not close"}
    /\ blank => before # "text"
    /\ Things(tree.line) < MaxOnLine
    /\ IF ServerTakesText(blank) THEN tree' = ServerText(blank) ELSE UNCHANGED tree
    /\ IF parser.known /\ AgentTakesText THEN parser' = AgentText(blank) ELSE UNCHANGED parser
    /\ Ruled(ServerTakesText(blank), AgentTakesText)
    /\ before' = "text" /\ due' = IF blank /\ before = "break" THEN "break" ELSE "any"
    /\ Nothing

ReadVoid(tag) ==
    /\ Reading /\ due \in {"any", "not close"} /\ Things(tree.line) < MaxOnLine
    /\ IF ServerTakesOpen(tag) THEN tree' = ServerVoid(tag) ELSE UNCHANGED tree
    /\ parser' = IF ~AgentHears(tag) THEN Unheard
                  ELSE IF AgentTakesOpen(tag) THEN AgentVoid(tag) ELSE parser
    /\ Ruled(ServerTakesOpen(tag), AgentTakesOpen(tag))
    /\ before' = "tag" /\ due' = "any" /\ Nothing

ReadOpen(tag) ==
    /\ Reading /\ due \in {"any", "not close"}
    /\ Len(Frames) < MaxFrames /\ (tag \in Scopes \/ Things(tree.line) < MaxOnLine)
    /\ IF ServerTakesOpen(tag) THEN tree' = ServerOpen(tag) ELSE UNCHANGED tree
    /\ parser' = IF ~AgentHears(tag) THEN Unheard
                  ELSE IF AgentTakesOpen(tag) THEN AgentOpen(tag) ELSE parser
    /\ Ruled(ServerTakesOpen(tag), AgentTakesOpen(tag))
    /\ before' = IF tag \in Scopes THEN "open" ELSE "tag"
    /\ due' = "any" /\ Nothing

ReadClose(tag) ==
    /\ Reading /\ due # "break"
    /\ due = "close" => tag \in Scopes
    /\ due = "not close" => tag \notin Scopes
    /\ IF ServerTakesClose(tag) THEN tree' = ServerClose(tag) ELSE UNCHANGED tree
    /\ parser' = IF ~AgentHears(tag) THEN Unheard
                  ELSE IF AgentTakesClose(tag) THEN AgentClose(tag) ELSE parser
    /\ Ruled(ServerTakesClose(tag), AgentTakesClose(tag))
    /\ before' = "tag" /\ due' = "any" /\ Nothing

\* Whether the printed line, as it ends, has something beside what must be
\* alone on it, or an <align> or <wrap> that does not enclose all of it.
Shares(line) ==
    \/ line.late
    \/ /\ \E i \in DOMAIN line.directives : line.directives[i] \in WholeLine
       /\ \/ \E i, j \in DOMAIN line.directives :
                i # j /\ line.directives[i] # "drawer" /\ line.directives[j] # "drawer"
          \/ IF \E i \in DOMAIN line.directives : line.directives[i] \in Regions \cup {"bar"}
             THEN ~Blank(line) ELSE line.cells # <<>>

LineEnds ==
    ended' = [shared |-> Shares(tree.line), hushed |-> tree.line.hushed]

\* The mutant: a break only lays a scope out after its opening tag.
MistakeLaysOut(next) == before = "open"

\* laysOutAScope
LaysOut(next) == before = "open" \/ next = "close"

\* trimLayoutBreaks drops the breaks that are a scope's first and last child.
Trimmed(next) == Top \in Scopes /\ (before = "open" \/ next = "close")

\* A break.  The server ends its line state with it even if the tree will drop
\* it; the agent does nothing with one that only lays a scope out.
ReadBreak(next) ==
    LET server == InData \/ AloneOn(Owner)
        agent  == parser.block \/ LaysOut(next) \/ AgentAlone
        over   == Owning(FreshLine)
    IN
    /\ Reading /\ due \in {"any", "not close", "break"}
    /\ next = "close" => Top \in Scopes    \* any other is refused by both, whatever the break did
    /\ IF InData THEN UNCHANGED tree /\ Nothing
       ELSE IF ~server THEN UNCHANGED tree /\ Nothing
       ELSE IF ~OnPaper THEN tree' = over /\ Nothing
       ELSE IF Trimmed(next)
       THEN tree' = [over EXCEPT !.line.hushed = @ \/ Things(tree.line) > 0] /\ Nothing
       ELSE tree' = [over EXCEPT !.line = NextLine] /\ LineEnds
    /\ parser' = IF ~parser.known \/ parser.block \/ LaysOut(next) \/ ~AgentAlone THEN parser
                  ELSE AgentEnds
    /\ Ruled(server, agent)
    /\ before' = "break" /\ due' = next

\* The end of the document.
Finish ==
    /\ Reading /\ due # "close"
    /\ LET server == Frames = <<>> /\ AloneOn(Owner)
           agent  == parser.open = <<>> /\ AgentAlone
       IN  ruled' = [server |-> IF server THEN "taken" ELSE "refused",
                     agent |-> IF ~parser.known THEN "reading" ELSE IF agent THEN "taken" ELSE "refused"]
    /\ LineEnds /\ UNCHANGED <<tree, parser, before, due>>

MarkupNext ==
    /\ UNCHANGED words
    /\ \/ \E blank \in BOOLEAN : ReadText(blank)
       \/ \E tag \in Vocabularies[words] \cap Voids : ReadVoid(tag)
       \/ \E tag \in Vocabularies[words] \ Voids : ReadOpen(tag) \/ ReadClose(tag)
       \/ \E next \in {"close", "not close"} : ReadBreak(next)
       \/ Finish

MarkupSpec == MarkupInit /\ [][MarkupNext]_markupVars

(***************************************************************************)
(* Properties                                                               *)
(***************************************************************************)

FillsOnly(line) == line.cells # <<>> /\ \A i \in DOMAIN line.cells : line.cells[i].what = "fill"

\* The console prints what the server would: as long as both read on they have
\* the same line in hand, cell for cell and style for style, and they refuse
\* the same documents.  Two exceptions: a fill before an <align> or <wrap>,
\* which only the server counts as preceding it, and a line on which the server
\* forgot what it had seen at a break it later dropped.  A line the server refuses at
\* such a break the agent refuses when it ends.  And with that second exception
\* a rule, a symbol or a block has its printed line to itself and an <align> or
\* <wrap> has the whole of its own.
OneGrammar ==
    /\ Reading /\ parser.known =>
          [align |-> tree.line.align, wrap |-> tree.line.wrap, cells |-> tree.line.cells,
           directives |-> tree.line.directives] = ConsoleLine
    /\ ruled.server = "refused" /\ ruled.agent = "taken" => FillsOnly(tree.line) \/ ~AgentAlone
    /\ ruled.server = "taken" /\ ruled.agent = "refused" => tree.line.hushed \/ ended.hushed
    /\ ended.shared /\ ruled.server # "refused" => ended.hushed
=============================================================================
