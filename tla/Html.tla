-------------------------------- MODULE Html --------------------------------
(***************************************************************************)
(* html_to_text of smtp/mime.rs, for a part that is only offered as HTML.  *)
(* A document is a sequence of tokens: a glyph "x", white space, a tag, an *)
(* entity, or a "<" or "&" that begins neither.                            *)
(***************************************************************************)
EXTENDS Sequences, FiniteSetsExt

Space == " "
Newline == "\n"
Blanks == {Space, Newline}
Tags == {"<p>", "<b>", "<script>", "</script>", "<head>", "</head>", "<header>", "</header>"}
Entities == {"&lt;", "&nbsp;"}
Tokens == {"x", "<", "&"} \cup Blanks \cup Tags \cup Entities

\* A cursor runs over a text: at token c it writes piece[c] and goes on at next[c].
Walk(piece, next) ==
  LET From[c \in 1 .. Len(piece) + 1] ==
        IF c > Len(piece) THEN <<>> ELSE piece[c] \o From[next[c]]
  IN  From[1]

-----------------------------------------------------------------------------
(***************************************************************************)
(* strip_elements.                                                         *)
(***************************************************************************)
Names == <<"script", "style", "head">>

\* The tags that begin with "<name", and with "</name": find looks no further.
Open(name) ==
  CASE name = "script" -> {"<script>"}
    [] name = "style"  -> {"<style>"}
    [] name = "head"   -> {"<head>", "<header>"}

Close(name) ==
  CASE name = "script" -> {"</script>"}
    [] name = "style"  -> {"</style>"}
    [] name = "head"   -> {"</head>", "</header>"}

\* From an opening tag to the first closing one, or to the end without one.
StripElement(doc, name) ==
  LET Closing(c) == {i \in c .. Len(doc) : doc[i] \in Close(name)}
      piece == [c \in 1 .. Len(doc) |-> IF doc[c] \in Open(name) THEN <<>> ELSE <<doc[c]>>]
      next == [c \in 1 .. Len(doc) |->
                 IF doc[c] \notin Open(name) THEN c + 1
                 ELSE IF Closing(c) = {} THEN Len(doc) + 1 ELSE Min(Closing(c)) + 1]
  IN  Walk(piece, next)

StripElements(doc) == StripElement(StripElement(StripElement(doc, Names[1]), Names[2]), Names[3])

-----------------------------------------------------------------------------
\* breaks_line, for the tags there are.
BreaksLine(tag) == tag = "<p>"

\* The loop of html_to_text: a "<" takes everything up to the next ">" along.
DropTags(doc) ==
  LET Ending(c) == {i \in c + 1 .. Len(doc) : doc[i] \in Tags}
      piece == [c \in 1 .. Len(doc) |->
                  IF doc[c] \notin Tags \cup {"<"} THEN <<doc[c]>>
                  ELSE IF BreaksLine(doc[c]) THEN <<Newline>> ELSE <<>>]
      next == [c \in 1 .. Len(doc) |->
                 IF doc[c] # "<" THEN c + 1
                 ELSE IF Ending(c) = {} THEN Len(doc) + 1 ELSE Min(Ending(c)) + 1]
  IN  Walk(piece, next)

\* named_entity and numeric_entity.
Entity(token) == IF token = "&nbsp;" THEN Space ELSE "<"

\* The bytes of an entity up to its semicolon.
Span(token) == IF token = "&nbsp;" THEN 5 ELSE 3

\* decode_entities: an "&" with a semicolon at most ten bytes on is copied
\* along with what is between them.
DecodeEntities(text) ==
  LET Ends(c) == {i \in c + 1 .. Len(text) : text[i] \in Entities}
      Swallows(c) == /\ text[c] = "&" /\ Ends(c) # {}
                     /\ Min(Ends(c)) - c + Span(text[Min(Ends(c))]) <= 10
      next == [c \in 1 .. Len(text) |-> IF Swallows(c) THEN Min(Ends(c)) + 1 ELSE c + 1]
      piece == [c \in 1 .. Len(text) |->
                  IF text[c] \in Entities THEN <<Entity(text[c])>>
                  ELSE SubSeq(text, c, next[c] - 1)]
  IN  Walk(piece, next)

-----------------------------------------------------------------------------
(***************************************************************************)
(* tidy: from a text to its lines.                                         *)
(***************************************************************************)
\* text.lines(), of the first n tokens.
LinesUpTo(text) ==
  LET First[n \in 0 .. Len(text)] ==
        IF n = 0 THEN <<<<>>>>
        ELSE IF text[n] = Newline THEN Append(First[n - 1], <<>>)
        ELSE [First[n - 1] EXCEPT ![Len(First[n - 1])] = Append(@, text[n])]
  IN  First

Lines(text) == LinesUpTo(text)[Len(text)]

\* One token of trim and collapse_spaces: white space is written, as one space,
\* between two words only.
Collapse(s, token) ==
  IF token = Space THEN [s EXCEPT !.gap = (s.line # <<>>)]
  ELSE [line |-> IF s.gap THEN s.line \o <<Space, token>> ELSE Append(s.line, token), gap |-> FALSE]

Collapsed(line) ==
  LET After[n \in 0 .. Len(line)] ==
        IF n = 0 THEN [line |-> <<>>, gap |-> FALSE] ELSE Collapse(After[n - 1], line[n])
  IN  After

CollapseSpaces(line) == Collapsed(line)[Len(line)].line

\* A plausible defect: a blank line survives at the top.
AddLineKeepingTop(s, line) ==
  IF line # <<>> THEN [lines |-> Append(s.lines, line), blankRun |-> 0]
  ELSE [lines |-> IF s.blankRun >= 1 THEN s.lines ELSE Append(s.lines, line),
        blankRun |-> s.blankRun + 1]

\* One turn of the loop: one blank line survives, but not at the top.
AddLine(s, line) ==
  IF line # <<>> THEN [lines |-> Append(s.lines, line), blankRun |-> 0]
  ELSE [lines |-> IF s.blankRun >= 1 \/ s.lines = <<>> THEN s.lines ELSE Append(s.lines, line),
        blankRun |-> s.blankRun + 1]

\* The loop over the lines, after each of them.
Added(lines) ==
  LET After[n \in 0 .. Len(lines)] ==
        IF n = 0 THEN [lines |-> <<>>, blankRun |-> 0]
        ELSE AddLine(After[n - 1], CollapseSpaces(lines[n]))
  IN  After

\* Blank lines at the end are taken off again.
Tidy(text) ==
  LET lines == Lines(text)
      kept == Added(lines)[Len(lines)].lines
      used == {i \in 1 .. Len(kept) : kept[i] # <<>>}
  IN  IF used = {} THEN <<>> ELSE SubSeq(kept, 1, Max(used))

\* A plausible defect: entities are decoded first, and then taken for tags.
DecodeThenStrip(doc) == Tidy(DropTags(StripElements(DecodeEntities(doc))))

HtmlToText(doc) == Tidy(DecodeEntities(DropTags(StripElements(doc))))
=============================================================================
