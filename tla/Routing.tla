------------------------------- MODULE Routing ------------------------------
(***************************************************************************)
(* From the envelope a client gives to the room its mail is posted in:     *)
(* parse_mail_from and parse_rcpt_to (smtp/server.rs), parse_data          *)
(* (smtp/parser.rs), the recipients column (queue/store.rs) and the router *)
(* (matrix/routing.rs).  An Option is a set of at most one value.          *)
(*                                                                         *)
(* An address is who it names and in which case it is spelled; Empty is    *)
(* the empty string, Invalid anything validate_email refuses.              *)
(***************************************************************************)
EXTENDS Sequences, FiniteSetsExt

CONSTANT People      \* the mailboxes addresses name

ASSUME PeopleAssumption == People \cap {"", "?", "\n"} = {}

Empty == [who |-> "", upper |-> FALSE]
Invalid == [who |-> "?", upper |-> FALSE]

Addresses == [who : People, upper : BOOLEAN]

\* What follows the colon: a path in brackets, one whose bracket is never
\* closed, or a bare word.
Forms == {"path", "unclosed", "bare"}
Commands == [form : Forms, text : Addresses \cup {Empty, Invalid}]

-----------------------------------------------------------------------------
(***************************************************************************)
(* The SMTP session.                                                       *)
(***************************************************************************)
\* extract_address_after_colon: a bare command without a word has no address.
AddressAfterColon(cmd) ==
  IF cmd.form = "unclosed" \/ (cmd.form = "bare" /\ cmd.text = Empty) THEN {} ELSE {cmd.text}

\* The null sender is accepted.
ParseMailFrom(cmd) == {a \in AddressAfterColon(cmd) : a # Invalid}

\* A plausible defect: an empty recipient is accepted, as an empty sender is.
ParseRcptToLax(cmd) == {a \in AddressAfterColon(cmd) : a # Invalid}

ParseRcptTo(cmd) == {a \in AddressAfterColon(cmd) : a \notin {Empty, Invalid}}

\* The session's recipients after each RCPT: one that was accepted is pushed.
RecipientsAfter(rcpts) ==
  LET After[n \in 0 .. Len(rcpts)] ==
        IF n = 0 THEN <<>>
        ELSE IF ParseRcptTo(rcpts[n]) = {} THEN After[n - 1]
        ELSE Append(After[n - 1], rcpts[n].text)
  IN  After

Recipients(rcpts) == RecipientsAfter(rcpts)[Len(rcpts)]

\* parse_data: a null sender is no sender.
Sender(from) == {a \in from : a # Empty}

-----------------------------------------------------------------------------
(***************************************************************************)
(* The recipients column: addresses and newlines.                          *)
(***************************************************************************)
NL == [who |-> "\n", upper |-> FALSE]

\* The empty address leaves no trace in the text.
Written(address) == IF address = Empty THEN <<>> ELSE <<address>>

\* to.join("\n"), for the first n recipients.
Joined(to) ==
  LET First[n \in 0 .. Len(to)] ==
        IF n = 0 THEN <<>>
        ELSE IF n = 1 THEN Written(to[n])
        ELSE First[n - 1] \o <<NL>> \o Written(to[n])
  IN  First

EncodeRecipients(to) == Joined(to)[Len(to)]

\* raw.split('\n'), of the first n tokens: a newline begins a new recipient.
Split(raw) ==
  LET First[n \in 0 .. Len(raw)] ==
        IF n = 0 THEN <<Empty>>
        ELSE IF raw[n] = NL THEN Append(First[n - 1], Empty)
        ELSE [First[n - 1] EXCEPT ![Len(First[n - 1])] = raw[n]]
  IN  First

\* Nothing at all is no recipient.
DecodeRecipients(raw) == IF raw = <<>> THEN <<>> ELSE Split(raw)[Len(raw)]

-----------------------------------------------------------------------------
(***************************************************************************)
(* Router.  A rule selects by addresses that may be absent or blank.       *)
(***************************************************************************)
Selectors == {{}, {Empty}} \cup {{a} : a \in Addresses}

Rules(rooms) == [to : Selectors, from : Selectors, room : rooms]

\* blank_to_none.
BlankToNone(selector) == selector \ {Empty}

\* build refuses a rule without a selector.
Buildable(rules) ==
  \A i \in 1 .. Len(rules) : BlankToNone(rules[i].to) # {} \/ BlankToNone(rules[i].from) # {}

\* eq_ignore_ascii_case.
SameMailbox(a, b) == a.who = b.who

\* A plausible defect: a rule with both selectors matches on either of them.
MatchesEither(rule, message) ==
  \/ \E want \in BlankToNone(rule.from) : \E a \in message.from : SameMailbox(a, want)
  \/ \E want \in BlankToNone(rule.to) :
       \E i \in 1 .. Len(message.to) : SameMailbox(message.to[i], want)

Matches(rule, message) ==
  /\ \A want \in BlankToNone(rule.from) : \E a \in message.from : SameMailbox(a, want)
  /\ \A want \in BlankToNone(rule.to) :
       \E i \in 1 .. Len(message.to) : SameMailbox(message.to[i], want)

\* The first rule that matches.
Resolve(rules, default, message) ==
  LET matching == {i \in 1 .. Len(rules) : Matches(rules[i], message)}
  IN  IF matching = {} THEN default ELSE rules[Min(matching)].room

\* What send_message makes of an envelope that went through the queue.
Queued(mail, rcpts) ==
  [from |-> Sender(ParseMailFrom(mail)),
   to |-> DecodeRecipients(EncodeRecipients(Recipients(rcpts)))]
=============================================================================
