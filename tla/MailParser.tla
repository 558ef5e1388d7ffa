----------------------------- MODULE MailParser -----------------------------
(***************************************************************************)
(* smtp/parser.rs and the MIME walk of smtp/mime.rs: which part of a       *)
(* message is shown, which are named as attachments, and the split into    *)
(* subject and body used when MIME finds nothing.                          *)
(*                                                                         *)
(* A message is a tree of parts.  A part is known by its place, the way to *)
(* it from the root: <<>> is the message, <<2, 1>> the first part of its   *)
(* second.  What a part says is not modelled: its place stands for it.  A  *)
(* message maps its places to the type of the part, whether it is marked   *)
(* as an attachment, whether its transfer encoding decodes and how many    *)
(* parts it has.                                                           *)
(***************************************************************************)
EXTENDS SequencesExt

\* mailparse gives a finite tree, its parts in order.
IsMessage(mail, depth) ==
  /\ <<>> \in DOMAIN mail
  /\ \A p \in DOMAIN mail :
       /\ p \in Seq(Nat) /\ Len(p) <= depth /\ mail[p].parts \in Nat
       /\ \A i \in 1 .. mail[p].parts : Append(p, i) \in DOMAIN mail
       /\ p # <<>> => \E q \in DOMAIN mail : \E i \in 1 .. mail[q].parts : p = Append(q, i)

IsLeaf(part) == part.parts = 0

-----------------------------------------------------------------------------
\* A plausible defect: only what is marked as an attachment is one.
IsAttachmentMarked(part) == part.attachment

IsAttachment(part) == part.attachment \/ part.type = "other"

Found(part, want) == part.type = want /\ ~IsAttachment(part)

\* find_text at every place: the first leaf of a type, depth first; an Option,
\* as a set.
TextsFound(mail, want) ==
  LET Find[p \in DOMAIN mail] ==
        IF IsLeaf(mail[p]) THEN IF Found(mail[p], want) THEN {p} ELSE {}
        ELSE LET hits == {i \in 1 .. mail[p].parts : Find[Append(p, i)] # {}}
             IN  IF hits = {} THEN {} ELSE Find[Append(p, Min(hits))]
  IN  Find

FindText(mail, want) == TextsFound(mail, want)[<<>>]

\* collect_attachments at every place, depth first.
Collected(mail) ==
  LET Collect[p \in DOMAIN mail] ==
        IF IsLeaf(mail[p]) THEN IF IsAttachment(mail[p]) THEN <<p>> ELSE <<>>
        ELSE FlattenSeq([i \in 1 .. mail[p].parts |-> Collect[Append(p, i)]])
  IN  Collect

CollectAttachments(mail) == Collected(mail)[<<>>]

\* get_body().ok()
Decoded(mail, found) == {p \in found : mail[p].decodes}

\* A plausible defect: HTML is not tried when a plain part does not decode.
ShownPlainOnly(mail) ==
  LET plain == FindText(mail, "text/plain")
  IN  IF plain # {} THEN Decoded(mail, plain) ELSE Decoded(mail, FindText(mail, "text/html"))

\* The part shown, if any.
Shown(mail) ==
  LET plain == Decoded(mail, FindText(mail, "text/plain"))
  IN  IF plain # {} THEN plain ELSE Decoded(mail, FindText(mail, "text/html"))

\* mime::parse: None, and the raw text is used, or the text and the attachments.
Parse(mail) ==
  LET attachments == CollectAttachments(mail)
  IN  [none |-> Shown(mail) = {} /\ attachments = <<>>,
       text |-> Shown(mail), attachments |-> attachments]

-----------------------------------------------------------------------------
(***************************************************************************)
(* extract_subject_and_body.  A line has a kind, and stands for itself:    *)
(* "text" has no colon, which makes it a header of no interest as long as  *)
(* headers are read.                                                       *)
(***************************************************************************)
LineKinds == {"blank", "fold", "subject", "header", "text"}

Start == [inHeaders |-> TRUE, subject |-> <<>>, last |-> "none", body |-> <<>>]

\* A plausible defect: other headers do not end a folded subject.
ScanFolding(s, i, kind) ==
  IF ~s.inHeaders THEN [s EXCEPT !.body = Append(@, i)]
  ELSE CASE kind = "blank"   -> [s EXCEPT !.inHeaders = FALSE]
         [] kind = "fold"    -> [s EXCEPT !.subject = IF s.last = "subject" THEN Append(@, i) ELSE @]
         [] kind = "subject" -> [s EXCEPT !.subject = <<i>>, !.last = "subject"]
         [] OTHER            -> s

\* One turn of the loop, for line i.
Scan(s, i, kind) ==
  IF ~s.inHeaders THEN [s EXCEPT !.body = Append(@, i)]
  ELSE CASE kind = "blank"   -> [s EXCEPT !.inHeaders = FALSE]
         [] kind = "fold"    -> [s EXCEPT !.subject = IF s.last = "subject" THEN Append(@, i) ELSE @]
         [] kind = "subject" -> [s EXCEPT !.subject = <<i>>, !.last = "subject"]
         [] OTHER            -> [s EXCEPT !.last = "other"]

\* The loop, after each line.
Scanned(lines) ==
  LET After[n \in 0 .. Len(lines)] == IF n = 0 THEN Start ELSE Scan(After[n - 1], n, lines[n])
  IN  After

ExtractSubjectAndBody(lines) == Scanned(lines)[Len(lines)]
=============================================================================
