----------------------------- MODULE Algorithms -----------------------------
(***************************************************************************)
(* The pure functions of the program, each over a set of small inputs and  *)
(* against a definition of what it should return.                          *)
(***************************************************************************)
EXTENDS Backoff, Routing, MailParser, Html

CONSTANTS
  Bases, Caps, MaxAttempt,   \* values of retry_backoff and MAX_BACKOFF_SECONDS, and a
                             \* bound on the attempts
  Mails, Rcpts, RuleLists,   \* MAIL and RCPT commands, routing rules
  Parts, Depth,              \* messages, as trees of parts, and how deep they go
  HeaderLines,               \* messages, as kinds of lines
  Documents                  \* HTML documents

ASSUME AlgorithmsAssumption ==
  /\ MaxAttempt \in Nat
  /\ Bases \subseteq 0 .. TwoTo(Width) - 1 /\ Caps \subseteq 0 .. TwoTo(Width) - 1
  /\ Mails \subseteq Commands /\ Rcpts \subseteq Seq(Commands)
  /\ Depth \in Nat /\ \A mail \in Parts : IsMessage(mail, Depth)
  /\ HeaderLines \subseteq Seq(LineKinds) /\ Documents \subseteq Seq(Tokens)

VARIABLES input, output

Init ==
  /\ output = [none |-> TRUE]
  /\ \/ \E b \in Bases, a \in 0 .. MaxAttempt, c \in Caps :
          input = [base |-> b, attempt |-> a, cap |-> c]
     \/ \E m \in Mails, r \in Rcpts, l \in RuleLists : input = [mail |-> m, rcpts |-> r, rules |-> l]
     \/ \E p \in Parts : input = [part |-> p]
     \/ \E l \in HeaderLines : input = [lines |-> l]
     \/ \E d \in Documents : input = [doc |-> d]

Fresh(field) == field \in DOMAIN input /\ output = [none |-> TRUE] /\ UNCHANGED input

\* handle_failure computes a wait.
Wait ==
  /\ Fresh("base")
  /\ output' = [wait |-> BackoffSeconds(input.base, input.attempt, input.cap)]

\* A session with a sender and recipients; a router that could be built.
Route ==
  /\ Fresh("mail")
  /\ ParseMailFrom(input.mail) # {} /\ Recipients(input.rcpts) # <<>> /\ Buildable(input.rules)
  /\ output' = [message |-> Queued(input.mail, input.rcpts),
                room |-> Resolve(input.rules, 0, Queued(input.mail, input.rcpts))]

ParseMime == Fresh("part") /\ output' = [parsed |-> Parse(input.part)]

SplitHeaders == Fresh("lines") /\ output' = [split |-> ExtractSubjectAndBody(input.lines)]

Render == Fresh("doc") /\ output' = [text |-> HtmlToText(input.doc)]

Next == Wait \/ Route \/ ParseMime \/ SplitHeaders \/ Render

Spec == Init /\ [][Next]_<<input, output>>

Computed(field) == field \in DOMAIN output

-----------------------------------------------------------------------------
\* The doc comment's formula, base * 2^(attempt-1) capped, in exact arithmetic:
\* saturation changes nothing, however late the attempt, so that no wait is
\* shorter than the one before it (backoff_seconds).
MatchesExactFormula ==
  Computed("wait") /\ input.attempt > 0 =>
    output.wait = Least(input.base * TwoTo(input.attempt - 1), input.cap)

-----------------------------------------------------------------------------
\* The addresses of the commands that name a mailbox.
Given(cmd) == IF cmd.form # "unclosed" /\ cmd.text \in Addresses THEN {cmd.text.who} ELSE {}

NamedBy(selector) == {a.who : a \in {b \in selector : b # Empty}}

\* What the client said decides: the room is that of the first rule whose
\* sender and recipient, as far as it has them, are among the addresses the
\* client gave, in any spelling, and the default room if there is none; a null
\* sender matches no sender rule (parse_data, Router::resolve).
RoutedAsGiven ==
  Computed("room") =>
    LET given == UNION {Given(input.rcpts[i]) : i \in 1 .. Len(input.rcpts)}
        Fits(i) == /\ NamedBy(input.rules[i].from) \subseteq Given(input.mail)
                   /\ NamedBy(input.rules[i].to) \subseteq given
        fitting == {i \in 1 .. Len(input.rules) : Fits(i)}
    IN  output.room = IF fitting = {} THEN 0 ELSE input.rules[Min(fitting)].room

\* Every recipient the session accepted comes back from the queue, in order
\* (encode_recipients, decode_recipients).
RecipientsSurvive ==
  Computed("message") => output.message.to = Recipients(input.rcpts)

-----------------------------------------------------------------------------
Leaves(mail) == {p \in DOMAIN mail : IsLeaf(mail[p])}

\* Document order: p is to the left of q.
Before(p, q) ==
  \E k \in 1 .. Len(p) : k <= Len(q) /\ p[k] < q[k] /\ \A i \in 1 .. k - 1 : p[i] = q[i]

\* The text parts of a type, and the one of them that comes first, if it decodes.
Candidates(mail, type) == {p \in Leaves(mail) : mail[p].type = type /\ ~mail[p].attachment}

Tried(mail, type) ==
  {p \in Candidates(mail, type) :
     mail[p].decodes /\ \A q \in Candidates(mail, type) : q = p \/ Before(p, q)}

\* Plain text anywhere in the message is preferred to HTML anywhere; of each
\* the first part in document order is tried, and never one that is listed as
\* an attachment (find_text, parse).
ShowsFirstText ==
  Computed("parsed") =>
    output.parsed.text = IF Tried(input.part, "text/plain") # {} THEN Tried(input.part, "text/plain")
                         ELSE Tried(input.part, "text/html")

Attachments(mail) == {p \in Leaves(mail) : mail[p].attachment \/ mail[p].type = "other"}

InOrder(places) == \A i, j \in DOMAIN places : i < j => Before(places[i], places[j])

\* Nothing vanishes without a word: a message with a part that is neither text
\* nor multipart, or is marked as an attachment, names every one of them in
\* document order, once, and one that yields nothing at all is forwarded raw
\* (collect_attachments, parse).
AttachmentsNamed ==
  Computed("parsed") =>
    LET named == output.parsed.attachments
    IN  /\ Range(named) = Attachments(input.part) /\ InOrder(named)
        /\ output.parsed.none <=> named = <<>> /\ output.parsed.text = {}

-----------------------------------------------------------------------------
\* The body is every line after the first blank one, and the subject the last
\* Subject header with the lines folded onto it.
IsSplit(lines, split) ==
  LET blanks == {i \in 1 .. Len(lines) : lines[i] = "blank"}
      headersEnd == IF blanks = {} THEN Len(lines) + 1 ELSE Min(blanks)
      subjects == {i \in 1 .. headersEnd - 1 : lines[i] = "subject"}
      start == Max(subjects)
      stops == {i \in start + 1 .. headersEnd : i = headersEnd \/ lines[i] # "fold"}
  IN  /\ split.body = [k \in 1 .. Len(lines) - headersEnd |-> headersEnd + k]
      /\ split.subject =
           IF subjects = {} THEN <<>> ELSE [k \in 1 .. Min(stops) - start |-> start + k - 1]

\* The fallback loses no line of the body, and finds the last Subject header
\* with the lines folded onto it and no others (extract_subject_and_body).
SplitAtFirstBlank == Computed("split") => IsSplit(input.lines, output.split)

-----------------------------------------------------------------------------
\* The elements html_to_text names, and the one it takes for head.
Elements == {<<"<script>", "</script>">>, <<"<head>", "</head>">>}
Header == <<"<header>", "</header>">>

\* Such elements are closed and not nested, and no "<" or "&" stands alone.
WellFormed(doc) ==
  \A i \in 1 .. Len(doc) :
    /\ doc[i] \notin {"<", "&"}
    /\ \A n \in Elements \cup {Header} : doc[i] = n[1] =>
         \E j \in i + 1 .. Len(doc) :
           doc[j] = n[2] /\ \A k \in i + 1 .. j - 1 : doc[k] \notin Tags \ {"<p>", "<b>"}

\* Inside a script or head element.
Hidden(doc, i) ==
  \E o \in 1 .. i - 1, n \in Elements : doc[o] = n[1] /\ \A c \in o .. i : doc[c] # n[2]

Glyph(token) == CASE token = "x" -> <<"x">> [] token = "&lt;" -> <<"<">> [] OTHER -> <<>>

\* The glyphs of the tokens outside script and head elements.
VisibleGlyphs(doc) ==
  FlattenSeq([i \in 1 .. Len(doc) |-> IF Hidden(doc, i) THEN <<>> ELSE Glyph(doc[i])])

\* What is not a space, of the lines of a text.
Glyphs(lines) ==
  LET text == FlattenSeq(lines)
  IN  FlattenSeq([i \in 1 .. Len(text) |-> IF text[i] = Space THEN <<>> ELSE <<text[i]>>])

HasHeader(doc) == \E i \in 1 .. Len(doc) : doc[i] = "<header>"

\* What a reader would see is kept, glyph by glyph, escaped angle brackets
\* included, and script and head content is not (html_to_text).
VisibleTextKept ==
  Computed("text") /\ WellFormed(input.doc) /\ ~HasHeader(input.doc) =>
    Glyphs(output.text) = VisibleGlyphs(input.doc)

\* However ragged the markup, no blank line at either end, no two in a row, and
\* no space at the ends of a line or beside another (tidy).
TidyText ==
  Computed("text") =>
    LET text == output.text
    IN  /\ text # <<>> => text[1] # <<>> /\ text[Len(text)] # <<>>
        /\ \A i \in 1 .. Len(text) - 1 : text[i] # <<>> \/ text[i + 1] # <<>>
        /\ \A i \in 1 .. Len(text) : \A j \in 1 .. Len(text[i]) :
             text[i][j] = Space =>
               /\ j \notin {1, Len(text[i])}
               /\ text[i][j + 1] # Space

\* "Remove the named elements along with their content." (strip_elements): the
\* names are script, style and head, and no other element loses its content.
OnlyNamedElementsRemoved ==
  Computed("text") /\ WellFormed(input.doc) => Glyphs(output.text) = VisibleGlyphs(input.doc)
=============================================================================
