-------------------------- MODULE AlgorithmsProofs --------------------------
(***************************************************************************)
(* Theorems about the pure functions, for every input and every width.     *)
(*                                                                         *)
(* Loops of the code are recursive functions over 0 .. n here.  What they  *)
(* compute is shown by induction, stated for a set of numbers rather than  *)
(* for a predicate.                                                        *)
(***************************************************************************)
EXTENDS Algorithms, SequenceTheorems, WellFoundedInduction, TLAPS

-----------------------------------------------------------------------------
(***************************************************************************)
(* Induction and recursion.                                                *)
(***************************************************************************)
\* A set of numbers has a least one.
LEMMA LeastExists ==
  ASSUME NEW T \in SUBSET Nat, T # {}
  PROVE  \E i \in T : \A j \in T : i <= j
<1> DEFINE R == OpToRel(<, Nat)
<1>1. IsWellFoundedOn(R, Nat)
  BY NatLessThanWellFounded
<1>2. \A x, y \in Nat : x < y => <<x, y>> \in R
  BY DEF OpToRel
<1> HIDE DEF R
<1>3. PICK i \in T : \A j \in T : ~(<<j, i>> \in R)
  BY <1>1, WFMin
<1>4. ASSUME NEW j \in T PROVE i <= j
  <2>1. i \in Nat /\ j \in Nat
    OBVIOUS
  <2>2. ~(j < i)
    BY <1>2, <1>3, <2>1, Zenon
  <2> QED
    BY <2>1, <2>2
<1> QED
  BY <1>3, <1>4

\* Min of a set of numbers is its least member.
LEMMA MinIsLeast ==
  ASSUME NEW T \in SUBSET Nat, T # {}
  PROVE  Min(T) \in T /\ \A j \in T : Min(T) <= j
BY LeastExists DEF Min

\* Induction up to L.
LEMMA UpTo ==
  ASSUME NEW L \in Nat, NEW T, 0 \in T, \A n \in 1 .. L : n - 1 \in T => n \in T
  PROVE  \A n \in 0 .. L : n \in T
<1> DEFINE U == {n \in 0 .. L : n \notin T}
<1> SUFFICES ASSUME U # {} PROVE FALSE
  OBVIOUS
<1>1. U \in SUBSET Nat
  OBVIOUS
<1>2. PICK n \in U : \A j \in U : n <= j
  BY <1>1, LeastExists
<1>3. n \in 1 .. L /\ n \notin T
  OBVIOUS
<1>4. n - 1 \in 0 .. L /\ n - 1 \notin U
  BY <1>2, <1>3
<1> QED
  BY <1>3, <1>4

\* A loop over 1 .. L computes a value.
LEMMA LoopExists ==
  ASSUME NEW S, NEW start \in S, NEW L \in Nat, NEW step \in [1 .. L -> [S -> S]]
  PROVE  \E g \in [0 .. L -> S] : g[0] = start /\ \A n \in 1 .. L : g[n] = step[n][g[n - 1]]
<1> DEFINE Run(m, g) == g[0] = start /\ \A n \in 1 .. m : g[n] = step[n][g[n - 1]]
           T == {m \in Nat : \E g \in [0 .. m -> S] : Run(m, g)}
<1>1. 0 \in T
  <2>1. [n \in 0 .. 0 |-> start] \in [0 .. 0 -> S] /\ Run(0, [n \in 0 .. 0 |-> start])
    OBVIOUS
  <2> QED
    BY <2>1
<1>2. ASSUME NEW m \in 1 .. L, m - 1 \in T PROVE m \in T
  <2>1. PICK g \in [0 .. m - 1 -> S] : Run(m - 1, g)
    BY <1>2
  <2> DEFINE h == [n \in 0 .. m |-> IF n = m THEN step[m][g[m - 1]] ELSE g[n]]
  <2>2. step[m] \in [S -> S] /\ g[m - 1] \in S
    OBVIOUS
  <2>3. h \in [0 .. m -> S]
    BY <2>2
  <2>4. Run(m, h)
    <3>1. h[0] = start
      BY <2>1
    <3>2. ASSUME NEW n \in 1 .. m PROVE h[n] = step[n][h[n - 1]]
      <4>1. CASE n = m
        <5>1. h[m - 1] = g[m - 1] /\ h[m] = step[m][g[m - 1]]
          OBVIOUS
        <5> QED
          BY <4>1, <5>1
      <4>2. CASE n # m
        <5>1. n \in 1 .. m - 1 /\ h[n] = g[n] /\ h[n - 1] = g[n - 1]
          BY <4>2
        <5> QED
          BY <2>1, <5>1
      <4> QED
        BY <4>1, <4>2
    <3> QED
      BY <3>1, <3>2
  <2> HIDE DEF h, Run
  <2> QED
    BY <2>3, <2>4
<1> HIDE DEF T
<1>3. \A n \in 0 .. L : n \in T
  BY <1>1, <1>2, UpTo
<1>4. PICK g \in [0 .. L -> S] : Run(L, g)
  <2>1. L \in T
    BY <1>3
  <2> QED
    BY <2>1 DEF T
<1> QED
  BY <1>4

\* g holds the states of a loop, after each turn.
Looped(g, start, L, step) == g[0] = start /\ \A n \in 1 .. L : g[n] = step[n][g[n - 1]]

LEMMA LoopRuns ==
  ASSUME NEW S, NEW start \in S, NEW L \in Nat, NEW step \in [1 .. L -> [S -> S]]
  PROVE  \E g \in [0 .. L -> S] : Looped(g, start, L, step)
BY LoopExists DEF Looped

\* A function that makes the loop's turns as long as it is among its states
\* stays among them.
Follows(f, S, start, L, step) ==
  f[0] = start /\ \A n \in 1 .. L : f[n - 1] \in S => f[n] = step[n][f[n - 1]]

LEMMA LoopStays ==
  ASSUME NEW S, NEW start \in S, NEW L \in Nat, NEW step \in [1 .. L -> [S -> S]], NEW f,
         Follows(f, S, start, L, step)
  PROVE  \A n \in 0 .. L : f[n] \in S
<1> USE DEF Follows
<1> DEFINE T == {n \in 0 .. L : f[n] \in S}
<1>1. 0 \in T
  OBVIOUS
<1>2. ASSUME NEW n \in 1 .. L, n - 1 \in T PROVE n \in T
  <2>1. step[n] \in [S -> S] /\ f[n - 1] \in S /\ n \in 0 .. L
    BY <1>2
  <2>2. step[n][f[n - 1]] \in S
    BY <2>1
  <2> QED
    BY <2>1, <2>2
<1> HIDE DEF T
<1>3. \A n \in 0 .. L : n \in T
  BY <1>1, <1>2, UpTo
<1> QED
  BY <1>3 DEF T

-----------------------------------------------------------------------------
(***************************************************************************)
(* backoff_seconds.                                                        *)
(***************************************************************************)
\* Powers of two are positive.
LEMMA TwoToPositive ==
  ASSUME NEW n \in Nat
  PROVE  TwoTo(n) \in Nat \ {0}
<1> DEFINE S == Nat \ {0}
           step == [k \in 1 .. n |-> [s \in S |-> 2 * s]]
           d == CHOOSE d : d = [k \in 0 .. n |-> IF k = 0 THEN 1 ELSE 2 * d[k - 1]]
<1>1. step \in [1 .. n -> [S -> S]] /\ 1 \in S
  OBVIOUS
<1> HIDE DEF step, S
<1>2. PICK g \in [0 .. n -> S] : g[0] = 1 /\ \A k \in 1 .. n : g[k] = step[k][g[k - 1]]
  BY <1>1, LoopExists
<1>3. g = [k \in 0 .. n |-> IF k = 0 THEN 1 ELSE 2 * g[k - 1]]
  <2>1. \A k \in 1 .. n : step[k][g[k - 1]] = 2 * g[k - 1]
    BY DEF step
  <2> HIDE DEF d
  <2> QED
    BY <1>2, <2>1
<1>4. d = [k \in 0 .. n |-> IF k = 0 THEN 1 ELSE 2 * d[k - 1]]
  BY <1>3
<1>5. TwoTo(n) = d[n]
  BY DEF TwoTo
<1> HIDE DEF d
<1> DEFINE T == {k \in 0 .. n : d[k] \in S}
<1> USE DEF S
<1>6. 0 \in T
  BY <1>4
<1>7. ASSUME NEW k \in 1 .. n, k - 1 \in T PROVE k \in T
  <2>1. d[k] = 2 * d[k - 1]
    BY <1>4
  <2> QED
    BY <1>7, <2>1
<1>8. \A k \in 0 .. n : k \in T
  <2> HIDE DEF T
  <2> QED
    BY <1>6, <1>7, UpTo
<1> QED
  BY <1>5, <1>8

\* Saturating twice and capping is capping.
LEMMA SaturationIsHarmless ==
  ASSUME NEW m \in Nat, NEW b \in 0 .. m, NEW cap \in 0 .. m, NEW p \in Nat
  PROVE  Least(Least(b * Least(p, m), m), cap) = Least(b * p, cap)
<1>1. CASE b = 0
  BY <1>1 DEF Least
<1>2. CASE b # 0 /\ p <= m
  BY <1>2 DEF Least
<1>3. CASE b # 0 /\ p > m
  <2>1. b * p >= p /\ b * m >= m /\ b * p \in Nat /\ b * m \in Nat
    BY <1>3
  <2> QED
    BY <1>3, <2>1 DEF Least
<1> QED
  BY <1>1, <1>2, <1>3

-----------------------------------------------------------------------------
(***************************************************************************)
(* Which step computes what.                                               *)
(***************************************************************************)
avars == <<input, output>>

\* The inputs are the ones the constants name.
InputKnown ==
  /\ "base" \in DOMAIN input =>
       input.base \in Bases /\ input.attempt \in 0 .. MaxAttempt /\ input.cap \in Caps
  /\ "mail" \in DOMAIN input =>
       input.mail \in Mails /\ input.rcpts \in Rcpts /\ input.rules \in RuleLists
  /\ "part" \in DOMAIN input => input.part \in Parts
  /\ "lines" \in DOMAIN input => input.lines \in HeaderLines
  /\ "doc" \in DOMAIN input => input.doc \in Documents

\* An input does not change.
LEMMA InputKnownHolds == Spec => []InputKnown
<1>1. Init => InputKnown
  BY DEF Init, InputKnown
<1>2. InputKnown /\ [Next]_avars => InputKnown'
  BY DEF InputKnown, Next, Wait, Route, ParseMime, SplitHeaders, Render, Fresh, avars
<1> QED
  BY <1>1, <1>2, PTL DEF Spec, avars

\* Nothing is computed at first.
LEMMA InitOutput ==
  ASSUME Init
  PROVE  \A f \in {"wait", "message", "room", "parsed", "split", "text"} : ~Computed(f)
BY DEF Init, Computed

\* A result is computed by the action it belongs to.
LEMMA NextOutput ==
  ASSUME Next
  PROVE  /\ UNCHANGED input
         /\ Computed("wait")' => Wait
         /\ Computed("message")' => Route
         /\ Computed("room")' => Route
         /\ Computed("parsed")' => ParseMime
         /\ Computed("split")' => SplitHeaders
         /\ Computed("text")' => Render
<1>1. CASE Wait
  BY <1>1 DEF Wait, Fresh, Computed
<1>2. CASE Route
  BY <1>2 DEF Route, Fresh, Computed
<1>3. CASE ParseMime
  BY <1>3 DEF ParseMime, Fresh, Computed
<1>4. CASE SplitHeaders
  BY <1>4 DEF SplitHeaders, Fresh, Computed
<1>5. CASE Render
  BY <1>5 DEF Render, Fresh, Computed
<1> QED
  BY <1>1, <1>2, <1>3, <1>4, <1>5 DEF Next

\* In unsigned arithmetic of any width, the saturating computation of a wait
\* agrees with the exact formula (backoff_seconds).
LEMMA WaitIsExact ==
  ASSUME NEW base \in 0 .. TwoTo(Width) - 1, NEW cap \in 0 .. TwoTo(Width) - 1,
         NEW attempt \in Nat \ {0}
  PROVE  BackoffSeconds(base, attempt, cap) = Least(base * TwoTo(attempt - 1), cap)
<1> DEFINE m == TwoTo(Width) - 1
           p == TwoTo(attempt - 1)
<1>1. m \in Nat
  BY WidthAssumption, TwoToPositive
<1>2. p \in Nat
  <2>1. attempt - 1 \in Nat
    OBVIOUS
  <2> QED
    BY <2>1, TwoToPositive
<1>3. BackoffSeconds(base, attempt, cap) = Least(Least(base * Least(p, m), m), cap)
  BY DEF BackoffSeconds, Sat
<1> HIDE DEF m, p
<1>4. base \in 0 .. m /\ cap \in 0 .. m
  BY DEF m
<1>5. Least(Least(base * Least(p, m), m), cap) = Least(base * p, cap)
  BY <1>1, <1>2, <1>4, SaturationIsHarmless
<1> QED
  BY <1>3, <1>5 DEF p

\* Whatever the width, the base, the cap and the attempt: the wait is the doc
\* comment's formula in exact arithmetic (backoff_seconds).
THEOREM BackoffIsExact == Spec => []MatchesExactFormula
<1>1. Init => MatchesExactFormula
  BY InitOutput DEF MatchesExactFormula
<1>2. InputKnown /\ MatchesExactFormula /\ [Next]_avars => MatchesExactFormula'
  <2> SUFFICES ASSUME InputKnown, MatchesExactFormula, [Next]_avars PROVE MatchesExactFormula'
    OBVIOUS
  <2>1. CASE UNCHANGED avars
    BY <2>1 DEF avars, MatchesExactFormula, Computed
  <2>2. CASE Next
    <3> SUFFICES ASSUME Computed("wait")', input'.attempt > 0 PROVE MatchesExactFormula'
      BY DEF MatchesExactFormula
    <3>1. Wait /\ input' = input
      BY <2>2, NextOutput
    <3>2. /\ input.base \in 0 .. TwoTo(Width) - 1 /\ input.cap \in 0 .. TwoTo(Width) - 1
          /\ input.attempt \in Nat \ {0}
      <4>1. "base" \in DOMAIN input
        BY <3>1 DEF Wait, Fresh
      <4>2. input.base \in Bases /\ input.attempt \in 0 .. MaxAttempt /\ input.cap \in Caps
        BY <4>1 DEF InputKnown
      <4>3. input.attempt > 0
        BY <3>1
      <4>4. MaxAttempt \in Nat
        BY AlgorithmsAssumption
      <4>5. input.attempt \in Nat \ {0}
        BY <4>2, <4>3, <4>4
      <4>6. input.base \in 0 .. TwoTo(Width) - 1 /\ input.cap \in 0 .. TwoTo(Width) - 1
        BY <4>2, AlgorithmsAssumption, Zenon
      <4> QED
        BY <4>5, <4>6
    <3>3. output'.wait = BackoffSeconds(input.base, input.attempt, input.cap)
      BY <3>1 DEF Wait
    <3>4. output'.wait = Least(input.base * TwoTo(input.attempt - 1), input.cap)
      BY <3>2, <3>3, WaitIsExact
    <3> QED
      BY <3>1, <3>4 DEF MatchesExactFormula
  <2> QED
    BY <2>1, <2>2
<1> QED
  BY <1>1, <1>2, InputKnownHolds, PTL DEF Spec, avars

-----------------------------------------------------------------------------
(***************************************************************************)
(* The envelope.                                                           *)
(***************************************************************************)
\* An address is neither empty nor invalid nor a newline.
LEMMA AddressIsProper ==
  ASSUME NEW a \in Addresses
  PROVE  a # Empty /\ a # Invalid /\ a # NL
<1>1. a.who \in People
  BY DEF Addresses
<1>2. a.who # "" /\ a.who # "?" /\ a.who # "\n"
  BY <1>1, PeopleAssumption
<1>3. Empty.who = "" /\ Invalid.who = "?" /\ NL.who = "\n"
  BY DEF Empty, Invalid, NL
<1> QED
  BY <1>2, <1>3

\* A RCPT is accepted for the mailbox it names.
LEMMA RcptLemma ==
  ASSUME NEW cmd \in Commands
  PROVE  /\ ParseRcptTo(cmd) # {} => cmd.text \in Addresses /\ Given(cmd) = {cmd.text.who}
         /\ ParseRcptTo(cmd) = {} => Given(cmd) = {}
<1>1. cmd.text \in Addresses \/ cmd.text = Empty \/ cmd.text = Invalid
  BY DEF Commands
<1>2. cmd.text \in Addresses => cmd.text # Empty /\ cmd.text # Invalid
  BY AddressIsProper
<1> QED
  BY <1>1, <1>2 DEF ParseRcptTo, AddressAfterColon, Given

\* The sender a message is routed by is the mailbox MAIL names.
LEMMA MailLemma ==
  ASSUME NEW cmd \in Commands
  PROVE  {a.who : a \in Sender(ParseMailFrom(cmd))} = Given(cmd)
<1>1. cmd.text \in Addresses \/ cmd.text = Empty \/ cmd.text = Invalid
  BY DEF Commands
<1>2. cmd.text \in Addresses => cmd.text # Empty /\ cmd.text # Invalid
  BY AddressIsProper
<1>3. CASE cmd.form # "unclosed" /\ cmd.text \in Addresses
  <2>1. Sender(ParseMailFrom(cmd)) = {cmd.text}
    BY <1>2, <1>3 DEF Sender, ParseMailFrom, AddressAfterColon
  <2> QED
    BY <1>3, <2>1 DEF Given
<1>4. CASE ~(cmd.form # "unclosed" /\ cmd.text \in Addresses)
  <2>1. Sender(ParseMailFrom(cmd)) = {}
    BY <1>1, <1>4 DEF Sender, ParseMailFrom, AddressAfterColon
  <2>2. Given(cmd) = {}
    BY <1>4 DEF Given
  <2> QED
    BY <2>1, <2>2
<1> QED
  BY <1>3, <1>4

\* The loop over the RCPT commands.
LEMMA RecipientsLoop ==
  ASSUME NEW rcpts \in Seq(Commands)
  PROVE  /\ RecipientsAfter(rcpts)[0] = <<>>
         /\ \A n \in 1 .. Len(rcpts) :
              RecipientsAfter(rcpts)[n] =
                IF ParseRcptTo(rcpts[n]) = {} THEN RecipientsAfter(rcpts)[n - 1]
                ELSE Append(RecipientsAfter(rcpts)[n - 1], rcpts[n].text)
<1> DEFINE S == Seq(Addresses \cup {Empty, Invalid})
           L == Len(rcpts)
           Push(n, r) == IF ParseRcptTo(rcpts[n]) = {} THEN r ELSE Append(r, rcpts[n].text)
           none == <<>>
           step == [n \in 1 .. L |-> [r \in S |-> Push(n, r)]]
           f == CHOOSE f : f = [n \in 0 .. L |-> IF n = 0 THEN <<>>
                                                 ELSE IF ParseRcptTo(rcpts[n]) = {} THEN f[n - 1]
                                                 ELSE Append(f[n - 1], rcpts[n].text)]
<1>1. L \in Nat /\ none \in S
  BY LenProperties, EmptySeq
<1>2. ASSUME NEW n \in 1 .. L, NEW r \in S PROVE Push(n, r) \in S
  <2>1. rcpts[n].text \in Addresses \cup {Empty, Invalid}
    <3>1. rcpts[n] \in Commands
      BY ElementOfSeq
    <3> QED
      BY <3>1 DEF Commands
  <2> QED
    BY <2>1, AppendProperties
<1> HIDE DEF S, L, Push, none
<1>3. step \in [1 .. L -> [S -> S]]
  BY <1>2
<1> HIDE DEF step
<1>4. PICK g \in [0 .. L -> S] : g[0] = none /\ \A n \in 1 .. L : g[n] = step[n][g[n - 1]]
  BY <1>1, <1>3, LoopExists
<1>5. \A n \in 1 .. L : step[n][g[n - 1]] = Push(n, g[n - 1])
  BY <1>1 DEF step
<1>6. g = [n \in 0 .. L |-> IF n = 0 THEN none ELSE Push(n, g[n - 1])]
  BY <1>1, <1>4, <1>5
<1>7. f = [n \in 0 .. L |-> IF n = 0 THEN <<>>
                            ELSE IF ParseRcptTo(rcpts[n]) = {} THEN f[n - 1]
                            ELSE Append(f[n - 1], rcpts[n].text)]
  BY <1>6 DEF Push, none
<1>8. RecipientsAfter(rcpts) = f
  BY DEF RecipientsAfter, L
<1> HIDE DEF f
<1>9. f[0] = <<>>
  BY <1>1, <1>7
<1>10. ASSUME NEW n \in 1 .. L
       PROVE  f[n] = IF ParseRcptTo(rcpts[n]) = {} THEN f[n - 1] ELSE Append(f[n - 1], rcpts[n].text)
  <2>1. n \in 0 .. L /\ n # 0
    BY <1>1
  <2>2. CASE ParseRcptTo(rcpts[n]) = {}
    BY <1>7, <2>1, <2>2
  <2>3. CASE ParseRcptTo(rcpts[n]) # {}
    BY <1>7, <2>1, <2>3
  <2> QED
    BY <2>2, <2>3
<1> QED
  BY <1>8, <1>9, <1>10 DEF L

\* The recipients are proper addresses, and they are the mailboxes the client
\* named.
LEMMA RecipientsLemma ==
  ASSUME NEW rcpts \in Seq(Commands)
  PROVE  /\ Recipients(rcpts) \in Seq(Addresses)
         /\ \A w : (\E k \in 1 .. Len(Recipients(rcpts)) : Recipients(rcpts)[k].who = w)
                     <=> (\E i \in 1 .. Len(rcpts) : w \in Given(rcpts[i]))
<1> DEFINE L == Len(rcpts)
           f == RecipientsAfter(rcpts)
           Named(r, w) == \E k \in 1 .. Len(r) : r[k].who = w
           Said(n, w) == \E i \in 1 .. n : w \in Given(rcpts[i])
           T == {n \in 0 .. L : f[n] \in Seq(Addresses) /\ \A w : Named(f[n], w) <=> Said(n, w)}
<1>1. L \in Nat
  BY LenProperties
<1>2. 0 \in T
  <2>1. f[0] = <<>>
    BY RecipientsLoop
  <2>2. f[0] \in Seq(Addresses) /\ Len(f[0]) = 0
    BY <2>1, EmptySeq, Zenon
  <2> QED
    BY <1>1, <2>2
<1>3. ASSUME NEW n \in 1 .. L, n - 1 \in T PROVE n \in T
  <2>1. f[n - 1] \in Seq(Addresses) /\ \A w : Named(f[n - 1], w) <=> Said(n - 1, w)
    BY <1>3
  <2>2. rcpts[n] \in Commands
    BY ElementOfSeq
  <2>3. \A w : Said(n, w) <=> Said(n - 1, w) \/ w \in Given(rcpts[n])
    <3>1. \A i : i \in 1 .. n <=> i \in 1 .. n - 1 \/ i = n
      BY <1>1
    <3> QED
      BY <3>1
  <2>4. CASE ParseRcptTo(rcpts[n]) = {}
    <3>1. f[n] = f[n - 1]
      BY <2>4, RecipientsLoop
    <3>2. Given(rcpts[n]) = {}
      BY <2>2, <2>4, RcptLemma
    <3> HIDE DEF f, Named, Said
    <3> QED
      BY <1>1, <2>1, <2>3, <3>1, <3>2
  <2>5. CASE ParseRcptTo(rcpts[n]) # {}
    <3> DEFINE a == rcpts[n].text
    <3>1. f[n] = Append(f[n - 1], a)
      BY <2>5, RecipientsLoop
    <3>2. a \in Addresses /\ Given(rcpts[n]) = {a.who}
      BY <2>2, <2>5, RcptLemma
    <3> HIDE DEF f, a
    <3>3. /\ f[n] \in Seq(Addresses) /\ Len(f[n]) = Len(f[n - 1]) + 1
          /\ \A k \in 1 .. Len(f[n - 1]) : f[n][k] = f[n - 1][k]
          /\ f[n][Len(f[n - 1]) + 1] = a
      BY <2>1, <3>1, <3>2, AppendProperties
    <3>4. Len(f[n - 1]) \in Nat
      BY <2>1, LenProperties
    <3>5. \A w : Named(f[n], w) <=> Named(f[n - 1], w) \/ w = a.who
      <4>1. \A k : k \in 1 .. Len(f[n]) <=> k \in 1 .. Len(f[n - 1]) \/ k = Len(f[n - 1]) + 1
        BY <3>3, <3>4
      <4> QED
        BY <3>3, <4>1
    <3> HIDE DEF Named, Said
    <3> QED
      BY <1>1, <2>1, <2>3, <3>2, <3>3, <3>5
  <2> QED
    BY <2>4, <2>5
<1>4. L \in T
  <2> HIDE DEF T, L
  <2>1. \A n \in 0 .. L : n \in T
    BY <1>1, <1>2, <1>3, UpTo
  <2> QED
    BY <1>1, <2>1
<1>5. f[L] = Recipients(rcpts)
  BY DEF Recipients
<1> HIDE DEF f
<1> QED
  BY <1>4, <1>5

-----------------------------------------------------------------------------
(***************************************************************************)
(* The recipients column.                                                  *)
(***************************************************************************)
\* join, recipient by recipient.
LEMMA JoinLoop ==
  ASSUME NEW to \in Seq(Addresses)
  PROVE  /\ Joined(to)[0] = <<>>
         /\ \A n \in 1 .. Len(to) :
              Joined(to)[n] = IF n = 1 THEN <<to[n]>> ELSE Joined(to)[n - 1] \o <<NL>> \o <<to[n]>>
<1> DEFINE S == Seq(Addresses \cup {NL})
           L == Len(to)
           none == <<>>
           Add(n, r) == IF n = 1 THEN Written(to[n]) ELSE r \o <<NL>> \o Written(to[n])
           step == [n \in 1 .. L |-> [r \in S |-> Add(n, r)]]
           f == CHOOSE f : f = [n \in 0 .. L |-> IF n = 0 THEN <<>>
                                                 ELSE IF n = 1 THEN Written(to[n])
                                                 ELSE f[n - 1] \o <<NL>> \o Written(to[n])]
<1>1. L \in Nat /\ none \in S
  BY LenProperties, EmptySeq
<1>2. ASSUME NEW n \in 1 .. L PROVE Written(to[n]) = <<to[n]>> /\ <<to[n]>> \in S
  <2>1. to[n] \in Addresses
    BY ElementOfSeq
  <2> QED
    BY <2>1, AddressIsProper DEF Written
<1>3. ASSUME NEW n \in 1 .. L, NEW r \in S PROVE Add(n, r) \in S
  <2>1. <<NL>> \in S
    OBVIOUS
  <2>2. r \o <<NL>> \in S
    BY <2>1, ConcatProperties
  <2>3. (r \o <<NL>>) \o <<to[n]>> \in S
    BY <1>2, <2>2, ConcatProperties
  <2> QED
    BY <1>2, <2>3
<1> HIDE DEF S, L, Add, none
<1>4. step \in [1 .. L -> [S -> S]]
  BY <1>3
<1> HIDE DEF step
<1>5. PICK g \in [0 .. L -> S] : g[0] = none /\ \A n \in 1 .. L : g[n] = step[n][g[n - 1]]
  BY <1>1, <1>4, LoopExists
<1>6. \A n \in 1 .. L : step[n][g[n - 1]] = Add(n, g[n - 1])
  BY <1>1 DEF step
<1>7. g = [n \in 0 .. L |-> IF n = 0 THEN none ELSE Add(n, g[n - 1])]
  BY <1>1, <1>5, <1>6
<1>8. f = [n \in 0 .. L |-> IF n = 0 THEN <<>>
                            ELSE IF n = 1 THEN Written(to[n])
                            ELSE f[n - 1] \o <<NL>> \o Written(to[n])]
  BY <1>7 DEF Add, none
<1>9. Joined(to) = f
  BY DEF Joined, L
<1> HIDE DEF f
<1>10. ASSUME NEW n \in 1 .. L
       PROVE  f[n] = IF n = 1 THEN <<to[n]>> ELSE f[n - 1] \o <<NL>> \o <<to[n]>>
  <2>1. n \in 0 .. L /\ n # 0
    BY <1>1
  <2>2. CASE n = 1
    BY <1>2, <1>8, <2>1, <2>2
  <2>3. CASE n # 1
    BY <1>2, <1>8, <2>1, <2>3
  <2> QED
    BY <2>2, <2>3
<1>11. f[0] = none
  BY <1>1, <1>8 DEF none
<1> QED
  BY <1>9, <1>10, <1>11 DEF L, none

\* What join makes of recipients: addresses and newlines in turn.
LEMMA JoinShape ==
  ASSUME NEW to \in Seq(Addresses)
  PROVE  \A n \in 1 .. Len(to) :
           /\ Joined(to)[n] \in Seq(Addresses \cup {NL}) /\ Len(Joined(to)[n]) = 2 * n - 1
           /\ \A k \in 1 .. n : Joined(to)[n][2 * k - 1] = to[k]
           /\ \A k \in 1 .. n - 1 : Joined(to)[n][2 * k] = NL
<1> DEFINE L == Len(to)
           S == Seq(Addresses \cup {NL})
           f == Joined(to)
           Shape(n, r) == /\ r \in S /\ Len(r) = 2 * n - 1
                          /\ \A k \in 1 .. n : r[2 * k - 1] = to[k]
                          /\ \A k \in 1 .. n - 1 : r[2 * k] = NL
           T == {n \in 0 .. L : n > 0 => Shape(n, f[n])}
<1>1. L \in Nat
  BY LenProperties
<1>2. 0 \in T
  BY <1>1
<1>3. ASSUME NEW n \in 1 .. L, n - 1 \in T PROVE n \in T
  <2>1. to[n] \in Addresses
    BY ElementOfSeq
  <2>2. CASE n = 1
    <3>1. f[n] = <<to[n]>>
      BY <2>2, JoinLoop
    <3> HIDE DEF f
    <3>2. Shape(n, f[n])
      BY <2>1, <2>2, <3>1
    <3> HIDE DEF Shape
    <3> QED
      BY <1>1, <3>2
  <2>3. CASE n # 1
    <3> DEFINE r == f[n - 1]
    <3>0. n \in Nat /\ n >= 2
      BY <1>1, <2>3
    <3>1. Shape(n - 1, r)
      <4> HIDE DEF Shape
      <4>1. n - 1 > 0
        BY <1>1, <2>3
      <4> QED
        BY <1>3, <4>1
    <3>2. f[n] = r \o <<NL>> \o <<to[n]>>
      BY <2>3, JoinLoop
    <3> HIDE DEF f, r
    <3>3. r \in S /\ Len(r) = 2 * (n - 1) - 1 /\ <<NL>> \in S /\ <<to[n]>> \in S
      BY <2>1, <3>1
    <3> DEFINE u == <<NL>>
               t == <<to[n]>>
               v == r \o u
    <3>4. u \in S /\ Len(u) = 1 /\ u[1] = NL /\ t \in S /\ Len(t) = 1 /\ t[1] = to[n]
      BY <3>3
    <3>5. f[n] = v \o t
      BY <3>2
    <3> HIDE DEF u, t, S
    <3>6. /\ v \in S /\ Len(v) = Len(r) + Len(u)
          /\ \A i \in 1 .. Len(r) + Len(u) : v[i] = IF i <= Len(r) THEN r[i] ELSE u[i - Len(r)]
      BY <3>3, <3>4, ConcatProperties DEF S
    <3> HIDE DEF v
    <3>7. /\ f[n] \in S /\ Len(f[n]) = Len(v) + Len(t)
          /\ \A i \in 1 .. Len(v) + Len(t) : f[n][i] = IF i <= Len(v) THEN v[i] ELSE t[i - Len(v)]
      <4>1. v \in S /\ t \in S
        BY <3>4, <3>6
      <4> QED
        BY <3>5, <4>1, ConcatProperties DEF S
    <3>8. Len(v) = 2 * n - 2 /\ Len(f[n]) = 2 * n - 1
      BY <3>0, <3>3, <3>4, <3>6, <3>7
    <3>9. ASSUME NEW i \in 1 .. 2 * n - 1
          PROVE  f[n][i] = IF i <= 2 * n - 3 THEN r[i] ELSE IF i = 2 * n - 2 THEN NL ELSE to[n]
      <4>1. CASE i <= 2 * n - 3
        BY <3>0, <3>3, <3>4, <3>6, <3>7, <3>8, <4>1
      <4>2. CASE i = 2 * n - 2
        BY <3>0, <3>3, <3>4, <3>6, <3>7, <3>8, <4>2
      <4>3. CASE i = 2 * n - 1
        BY <3>0, <3>3, <3>4, <3>6, <3>7, <3>8, <4>3
      <4> QED
        BY <3>0, <4>1, <4>2, <4>3
    <3>10. ASSUME NEW k \in 1 .. n PROVE f[n][2 * k - 1] = to[k]
      BY <3>1, <3>9
    <3>11. ASSUME NEW k \in 1 .. n - 1 PROVE f[n][2 * k] = NL
      BY <3>1, <3>9
    <3>12. Shape(n, f[n])
      BY <3>7, <3>8, <3>10, <3>11
    <3> HIDE DEF Shape
    <3> QED
      BY <1>1, <3>12
  <2> QED
    BY <2>2, <2>3
<1>4. \A n \in 0 .. L : n \in T
  <2> HIDE DEF T, L
  <2> QED
    BY <1>1, <1>2, <1>3, UpTo
<1> HIDE DEF f
<1>5. \A n \in 1 .. L : Shape(n, f[n])
  BY <1>1, <1>4
<1> QED
  BY <1>5 DEF f

\* split, token by token.
LEMMA SplitLoop ==
  ASSUME NEW raw \in Seq(Addresses \cup {NL})
  PROVE  /\ Split(raw)[0] = <<Empty>>
         /\ \A n \in 1 .. Len(raw) :
              /\ Split(raw)[n - 1] \in Seq(Addresses \cup {Empty})
              /\ raw[n] = NL => Split(raw)[n] = Append(Split(raw)[n - 1], Empty)
              /\ raw[n] # NL =>
                   Split(raw)[n] = [Split(raw)[n - 1] EXCEPT ![Len(Split(raw)[n - 1])] = raw[n]]
<1> DEFINE A == Addresses \cup {Empty}
           S == {r \in Seq(A) : r # <<>>}
           L == Len(raw)
           first == <<Empty>>
           Add(n, r) == IF raw[n] = NL THEN Append(r, Empty) ELSE [r EXCEPT ![Len(r)] = raw[n]]
           step == [n \in 1 .. L |-> [r \in S |-> Add(n, r)]]
           f == CHOOSE f : f = [n \in 0 .. L |-> IF n = 0 THEN <<Empty>>
                                                 ELSE IF raw[n] = NL THEN Append(f[n - 1], Empty)
                                                 ELSE [f[n - 1] EXCEPT ![Len(f[n - 1])] = raw[n]]]
<1>1. L \in Nat /\ first \in S
  BY LenProperties
<1>2. ASSUME NEW n \in 1 .. L, NEW r \in S PROVE Add(n, r) \in S
  <2>1. r \in Seq(A) /\ Len(r) \in 1 .. Len(r)
    BY EmptySeq
  <2>2. CASE raw[n] = NL
    <3>1. Append(r, Empty) \in Seq(A) /\ Append(r, Empty) # <<>>
      BY <2>1, AppendProperties
    <3> QED
      BY <2>2, <3>1
  <2>3. CASE raw[n] # NL
    <3> DEFINE e == [r EXCEPT ![Len(r)] = raw[n]]
    <3>1. raw[n] \in A
      BY <2>3, ElementOfSeq
    <3> HIDE DEF A
    <3>2. e \in Seq(A) /\ Len(e) = Len(r)
      BY <2>1, <3>1, ExceptSeq
    <3> HIDE DEF e
    <3>3. e # <<>>
      BY <2>1, <3>2
    <3> QED
      BY <2>3, <3>2, <3>3 DEF e
  <2> QED
    BY <2>2, <2>3
<1> HIDE DEF S, L, Add, first
<1>3. step \in [1 .. L -> [S -> S]]
  BY <1>2
<1> HIDE DEF step
<1>4. PICK g \in [0 .. L -> S] : g[0] = first /\ \A n \in 1 .. L : g[n] = step[n][g[n - 1]]
  <2>1. L \in Nat
    BY <1>1
  <2>2. first \in S
    BY <1>1
  <2> HIDE DEF f, A
  <2> QED
    BY <1>3, <2>1, <2>2, LoopExists, SMTT(60)
<1>5. \A n \in 1 .. L : step[n][g[n - 1]] = Add(n, g[n - 1])
  BY <1>1 DEF step
<1>6. g = [n \in 0 .. L |-> IF n = 0 THEN first ELSE Add(n, g[n - 1])]
  BY <1>1, <1>4, <1>5
<1>7. f = [n \in 0 .. L |-> IF n = 0 THEN <<Empty>>
                            ELSE IF raw[n] = NL THEN Append(f[n - 1], Empty)
                            ELSE [f[n - 1] EXCEPT ![Len(f[n - 1])] = raw[n]]]
  BY <1>6 DEF Add, first
<1>8. Split(raw) = f
  BY DEF Split, L
<1> HIDE DEF f
<1>9. f[0] = first
  BY <1>1, <1>7 DEF first
<1>10. ASSUME NEW n \in 1 .. L
       PROVE  /\ f[n] = Add(n, f[n - 1])
              /\ raw[n] = NL => f[n] = Append(f[n - 1], Empty)
              /\ raw[n] # NL => f[n] = [f[n - 1] EXCEPT ![Len(f[n - 1])] = raw[n]]
  <2>1. n \in 0 .. L /\ n # 0
    BY <1>1
  <2>2. CASE raw[n] = NL
    BY <1>7, <2>1, <2>2 DEF Add
  <2>3. CASE raw[n] # NL
    BY <1>7, <2>1, <2>3 DEF Add
  <2> QED
    BY <2>2, <2>3
<1> DEFINE T == {n \in 0 .. L : f[n] \in S}
<1>11. 0 \in T
  BY <1>1, <1>9
<1>12. ASSUME NEW n \in 1 .. L, n - 1 \in T PROVE n \in T
  <2>1. f[n - 1] \in S /\ n \in 0 .. L
    BY <1>1, <1>12
  <2>2. Add(n, f[n - 1]) \in S
    BY <1>2, <2>1
  <2> QED
    BY <1>10, <2>1, <2>2
<1>13. \A n \in 0 .. L : n \in T
  <2> HIDE DEF T
  <2> QED
    BY <1>1, <1>11, <1>12, UpTo
<1>14. \A n \in 1 .. L : f[n - 1] \in Seq(A)
  <2> SUFFICES ASSUME NEW n \in 1 .. L PROVE f[n - 1] \in Seq(A)
    OBVIOUS
  <2>1. n - 1 \in 0 .. L
    BY <1>1
  <2>2. f[n - 1] \in S
    BY <1>13, <2>1
  <2> QED
    BY <2>2 DEF S
<1> QED
  BY <1>8, <1>9, <1>10, <1>14 DEF L, first, A

\* What was joined is split into what it was (encode_recipients,
\* decode_recipients).
LEMMA DecodeEncode ==
  ASSUME NEW to \in Seq(Addresses)
  PROVE  DecodeRecipients(EncodeRecipients(to)) = to
<1> DEFINE L == Len(to)
           raw == EncodeRecipients(to)
           f == Split(raw)
           A == Addresses \cup {Empty}
<1>1. L \in Nat /\ to \in Seq(A)
  BY LenProperties, SeqMonotonic
<1>2. CASE L = 0
  <2>1. to = <<>>
    BY <1>2, EmptySeq
  <2>2. raw = <<>>
    <3>1. raw = Joined(to)[0]
      BY <1>2 DEF EncodeRecipients
    <3> QED
      BY <2>1, <3>1, JoinLoop
  <2> QED
    BY <2>1, <2>2 DEF DecodeRecipients
<1>3. CASE L # 0
  <2>1. L \in 1 .. L
    BY <1>1, <1>3
  <2>2. /\ raw \in Seq(Addresses \cup {NL}) /\ Len(raw) = 2 * L - 1
        /\ \A k \in 1 .. L : raw[2 * k - 1] = to[k]
        /\ \A k \in 1 .. L - 1 : raw[2 * k] = NL
    BY <2>1, JoinShape DEF EncodeRecipients
  <2>3. \A k \in 1 .. L : to[k] \in Addresses /\ to[k] # NL
    BY ElementOfSeq, AddressIsProper
  <2> DEFINE First(k, r) == r \in Seq(A) /\ Len(r) = k /\ \A j \in 1 .. k : r[j] = to[j]
             T == {k \in 0 .. L : k > 0 => First(k, f[2 * k - 1])}
  <2>4. 0 \in T
    BY <1>1
  <2>5. ASSUME NEW k \in 1 .. L, k - 1 \in T PROVE k \in T
    <3> DEFINE n == 2 * k - 1
               r == f[n - 1]
    <3>1. n \in 1 .. Len(raw) /\ raw[n] # NL /\ raw[n] = to[k] /\ to[k] \in A
      BY <1>1, <2>2, <2>3
    <3>2. f[n] = [r EXCEPT ![Len(r)] = raw[n]]
      BY <2>2, <3>1, SplitLoop
    <3>3. r \in Seq(A) /\ Len(r) = k /\ \A j \in 1 .. k - 1 : r[j] = to[j]
      <4>1. CASE k = 1
        <5>1. r = <<Empty>>
          BY <2>2, <4>1, SplitLoop
        <5> QED
          BY <4>1, <5>1
      <4>2. CASE k # 1
        <5> DEFINE i == 2 * (k - 1)
                   q == f[i - 1]
        <5>0. k \in Nat /\ k >= 2 /\ k <= L /\ k - 1 \in 1 .. L - 1
          BY <1>1, <4>2
        <5>1. i \in 1 .. Len(raw) /\ n - 1 = i
          BY <1>1, <2>2, <5>0
        <5>2. raw[i] = NL
          BY <2>2, <5>0
        <5>3. r = Append(q, Empty)
          <6> HIDE DEF raw
          <6>1. f[i] = Append(f[i - 1], Empty)
            BY <2>2, <5>1, <5>2, SplitLoop
          <6> QED
            BY <5>1, <6>1
        <5>4. First(k - 1, q)
          <6> HIDE DEF First
          <6> QED
            BY <1>1, <2>5, <4>2
        <5> HIDE DEF q, f, r
        <5>5. /\ Append(q, Empty) \in Seq(A) /\ Len(Append(q, Empty)) = Len(q) + 1
              /\ \A j \in 1 .. Len(q) : Append(q, Empty)[j] = q[j]
          BY <5>4, AppendProperties
        <5> QED
          BY <1>1, <5>3, <5>4, <5>5
      <4> QED
        BY <4>1, <4>2
    <3> DEFINE e == f[n]
    <3> HIDE DEF r, f, n, A
    <3>4. Len(r) \in 1 .. Len(r)
      BY <1>1, <3>3
    <3>5. /\ e \in Seq(A) /\ Len(e) = Len(r)
          /\ \A j \in 1 .. Len(r) : e[j] = IF j = Len(r) THEN raw[n] ELSE r[j]
      BY <3>1, <3>2, <3>3, <3>4, ExceptSeq
    <3> HIDE DEF e
    <3>6. First(k, e)
      BY <1>1, <3>1, <3>3, <3>5
    <3> HIDE DEF First
    <3> QED
      BY <1>1, <3>6 DEF e, n
  <2>6. \A k \in 0 .. L : k \in T
    <3> HIDE DEF T, L
    <3> QED
      BY <1>1, <2>4, <2>5, UpTo
  <2>7. First(L, f[Len(raw)])
    <3> HIDE DEF First, f
    <3> QED
      BY <1>1, <1>3, <2>2, <2>6
  <2>8. raw # <<>>
    BY <1>1, <1>3, <2>2, EmptySeq
  <2>9. DecodeRecipients(raw) = f[Len(raw)]
    BY <2>8 DEF DecodeRecipients
  <2> HIDE DEF f, raw
  <2>10. f[Len(raw)] = to
    <3> HIDE DEF A
    <3> QED
      BY <1>1, <2>7, SeqEqual
  <2> QED
    BY <2>9, <2>10 DEF raw
<1> QED
  BY <1>2, <1>3

\* Route computes the message that comes back from the queue, and its room.
LEMMA RouteLemma ==
  ASSUME InputKnown, Route
  PROVE  /\ input.mail \in Commands /\ input.rcpts \in Seq(Commands)
         /\ output'.message.to = Recipients(input.rcpts)
         /\ output'.room = Resolve(input.rules, 0, Queued(input.mail, input.rcpts))
<1>1. input.mail \in Mails /\ input.rcpts \in Rcpts
  BY DEF Route, Fresh, InputKnown
<1>2. input.mail \in Commands /\ input.rcpts \in Seq(Commands)
  BY <1>1, AlgorithmsAssumption
<1>3. Recipients(input.rcpts) \in Seq(Addresses)
  BY <1>2, RecipientsLemma
<1>4. Queued(input.mail, input.rcpts).to = Recipients(input.rcpts)
  BY <1>3, DecodeEncode DEF Queued
<1> QED
  BY <1>2, <1>4 DEF Route

\* However many recipients there are: those the session accepted are those the
\* worker reads back, in order (encode_recipients, decode_recipients).
THEOREM RecipientsComeBack == Spec => []RecipientsSurvive
<1>1. Init => RecipientsSurvive
  BY InitOutput DEF RecipientsSurvive
<1>2. InputKnown /\ RecipientsSurvive /\ [Next]_avars => RecipientsSurvive'
  <2> SUFFICES ASSUME InputKnown, RecipientsSurvive, [Next]_avars PROVE RecipientsSurvive'
    OBVIOUS
  <2>1. CASE UNCHANGED avars
    BY <2>1 DEF avars, RecipientsSurvive, Computed
  <2>2. CASE Next
    BY <2>2, NextOutput, RouteLemma DEF RecipientsSurvive
  <2> QED
    BY <2>1, <2>2
<1> QED
  BY <1>1, <1>2, InputKnownHolds, PTL DEF Spec, avars

-----------------------------------------------------------------------------
(***************************************************************************)
(* The room.                                                               *)
(***************************************************************************)
\* The mailboxes named by the RCPT commands of a session.
GivenBy(rcpts) == UNION {Given(rcpts[i]) : i \in 1 .. Len(rcpts)}

\* A rule matches what went through the queue if its selectors are among the
\* addresses the client gave.
LEMMA MatchesGiven ==
  ASSUME NEW mail \in Commands, NEW rcpts \in Seq(Commands), NEW rule
  PROVE  Matches(rule, Queued(mail, rcpts)) <=>
           /\ NamedBy(rule.from) \subseteq Given(mail)
           /\ NamedBy(rule.to) \subseteq GivenBy(rcpts)
<1> DEFINE message == Queued(mail, rcpts)
<1>1. Recipients(rcpts) \in Seq(Addresses)
  BY RecipientsLemma
<1>2. message.to = Recipients(rcpts) /\ message.from = Sender(ParseMailFrom(mail))
  BY <1>1, DecodeEncode DEF Queued
<1> HIDE DEF message
<1>3. \A w : (\E a \in message.from : a.who = w) <=> w \in Given(mail)
  <2>1. {a.who : a \in message.from} = Given(mail)
    BY <1>2, MailLemma
  <2> QED
    BY <2>1
<1>4. \A w : (\E i \in 1 .. Len(message.to) : message.to[i].who = w) <=> w \in GivenBy(rcpts)
  <2> DEFINE to == Recipients(rcpts)
  <2>1. \A w : (\E i \in 1 .. Len(to) : to[i].who = w)
                 <=> (\E i \in 1 .. Len(rcpts) : w \in Given(rcpts[i]))
    BY RecipientsLemma
  <2>2. \A w : w \in GivenBy(rcpts) <=> (\E i \in 1 .. Len(rcpts) : w \in Given(rcpts[i]))
    BY DEF GivenBy
  <2>3. message.to = to
    BY <1>2
  <2> HIDE DEF to
  <2> QED
    BY <2>1, <2>2, <2>3
<1>5. \A selector : NamedBy(selector) = {a.who : a \in BlankToNone(selector)}
  BY DEF NamedBy, BlankToNone
<1>6. (\A want \in BlankToNone(rule.from) : \E a \in message.from : SameMailbox(a, want))
        <=> NamedBy(rule.from) \subseteq Given(mail)
  BY <1>3, <1>5 DEF SameMailbox
<1>7. (\A want \in BlankToNone(rule.to) :
          \E i \in 1 .. Len(message.to) : SameMailbox(message.to[i], want))
        <=> NamedBy(rule.to) \subseteq GivenBy(rcpts)
  BY <1>4, <1>5 DEF SameMailbox
<1> QED
  BY <1>6, <1>7 DEF Matches, message

\* For every list of rules and every envelope: the room is that of the first
\* rule whose selectors are among the addresses the client gave, and the default
\* room if there is none (parse_data, Router::resolve).
THEOREM RoutingFollowsTheEnvelope == Spec => []RoutedAsGiven
<1>1. Init => RoutedAsGiven
  BY InitOutput DEF RoutedAsGiven
<1>2. InputKnown /\ RoutedAsGiven /\ [Next]_avars => RoutedAsGiven'
  <2> SUFFICES ASSUME InputKnown, RoutedAsGiven, [Next]_avars PROVE RoutedAsGiven'
    OBVIOUS
  <2>1. CASE UNCHANGED avars
    BY <2>1 DEF avars, RoutedAsGiven, Computed
  <2>2. CASE Next
    <3> SUFFICES ASSUME Computed("room")' PROVE RoutedAsGiven'
      BY DEF RoutedAsGiven
    <3> DEFINE message == Queued(input.mail, input.rcpts)
               matching == {i \in 1 .. Len(input.rules) : Matches(input.rules[i], message)}
               Fits(i) == /\ NamedBy(input.rules[i].from) \subseteq Given(input.mail)
                          /\ NamedBy(input.rules[i].to) \subseteq GivenBy(input.rcpts)
    <3>1. Route /\ input' = input
      BY <2>2, NextOutput
    <3>2. /\ input.mail \in Commands /\ input.rcpts \in Seq(Commands)
          /\ output'.room = Resolve(input.rules, 0, message)
      BY <3>1, RouteLemma
    <3>3. output'.room = IF matching = {} THEN 0 ELSE input.rules[Min(matching)].room
      BY <3>2 DEF Resolve
    <3>4. matching = {i \in 1 .. Len(input.rules) : Fits(i)}
      BY <3>2, MatchesGiven
    <3> HIDE DEF matching
    <3> QED
      BY <3>1, <3>3, <3>4 DEF RoutedAsGiven, GivenBy
  <2> QED
    BY <2>1, <2>2
<1> QED
  BY <1>1, <1>2, InputKnownHolds, PTL DEF Spec, avars

-----------------------------------------------------------------------------
(***************************************************************************)
(* extract_subject_and_body.                                               *)
(***************************************************************************)
\* The numbers of the lines from a to b, in order.
Stretch(a, b) == [k \in 1 .. b - a + 1 |-> a + k - 1]

\* How the loop builds such a list: from nothing, or from one line, by appending.
LEMMA StretchGrows ==
  ASSUME NEW a \in Nat \ {0}
  PROVE  /\ Stretch(a, a - 1) = <<>>
         /\ Stretch(a, a) = <<a>>
         /\ \A b \in Nat : b >= a - 1 =>
              Stretch(a, b) \in Seq(Nat) /\ Append(Stretch(a, b), b + 1) = Stretch(a, b + 1)
<1>1. Stretch(a, a - 1) = <<>>
  BY DEF Stretch
<1>2. Stretch(a, a) = <<a>>
  BY DEF Stretch
<1>3. ASSUME NEW b \in Nat, b >= a - 1
      PROVE  Stretch(a, b) \in Seq(Nat) /\ Append(Stretch(a, b), b + 1) = Stretch(a, b + 1)
  <2> DEFINE s == Stretch(a, b)
             t == Append(s, b + 1)
             u == Stretch(a, b + 1)
  <2>1. b - a + 1 \in Nat /\ b + 1 \in Nat
    BY <1>3
  <2>2. s \in Seq(Nat) /\ Len(s) = b - a + 1 /\ \A k \in 1 .. b - a + 1 : s[k] = a + k - 1
    BY <2>1 DEF Stretch
  <2>3. u \in Seq(Nat) /\ Len(u) = b - a + 2 /\ \A k \in 1 .. b - a + 2 : u[k] = a + k - 1
    BY <2>1 DEF Stretch
  <2> HIDE DEF s, u
  <2>4. /\ t \in Seq(Nat) /\ Len(t) = b - a + 2
        /\ \A k \in 1 .. b - a + 1 : t[k] = s[k]
        /\ t[b - a + 2] = b + 1
    BY <2>1, <2>2, AppendProperties
  <2> HIDE DEF t
  <2>5. ASSUME NEW k \in 1 .. b - a + 2 PROVE t[k] = u[k]
    <3>1. u[k] = a + k - 1
      BY <2>3
    <3>2. CASE k = b - a + 2
      <4>1. a + k - 1 = b + 1
        BY <3>2
      <4> QED
        BY <2>4, <3>1, <3>2, <4>1
    <3>3. CASE k # b - a + 2
      <4>1. k \in 1 .. b - a + 1
        BY <2>1, <3>3
      <4> QED
        BY <2>2, <2>4, <3>1, <4>1
    <3> QED
      BY <3>2, <3>3
  <2>6. t = u
    BY <2>3, <2>4, <2>5, SeqEqual
  <2> QED
    BY <2>2, <2>6 DEF s, t, u
<1> QED
  BY <1>1, <1>2, <1>3

\* The states of the loop, and that a turn leads from one to another.
ScanStates ==
  [inHeaders : BOOLEAN, subject : Seq(Nat), last : {"none", "subject", "other"}, body : Seq(Nat)]

LEMMA ScanTyped ==
  ASSUME NEW s \in ScanStates, NEW i \in Nat, NEW kind
  PROVE  Scan(s, i, kind) \in ScanStates
<1>1. Append(s.body, i) \in Seq(Nat) /\ Append(s.subject, i) \in Seq(Nat) /\ <<i>> \in Seq(Nat)
  BY AppendProperties DEF ScanStates
<1>2. CASE ~s.inHeaders
  BY <1>1, <1>2 DEF Scan, ScanStates
<1>3. CASE s.inHeaders
  <2>1. CASE kind = "blank"
    BY <1>3, <2>1 DEF Scan, ScanStates
  <2>2. CASE kind = "fold"
    BY <1>1, <1>3, <2>2 DEF Scan, ScanStates
  <2>3. CASE kind = "subject"
    BY <1>1, <1>3, <2>3 DEF Scan, ScanStates
  <2>4. CASE kind \notin {"blank", "fold", "subject"}
    BY <1>3, <2>4 DEF Scan, ScanStates
  <2> QED
    BY <2>1, <2>2, <2>3, <2>4
<1> QED
  BY <1>2, <1>3 DEF ScanStates

\* The loop starts at Start and makes a turn for each line.
LEMMA ScanLoop ==
  ASSUME NEW lines \in Seq(LineKinds)
  PROVE  /\ Scanned(lines)[0] = Start
         /\ \A n \in 1 .. Len(lines) :
              Scanned(lines)[n] = Scan(Scanned(lines)[n - 1], n, lines[n])
         /\ \A n \in 0 .. Len(lines) : Scanned(lines)[n] \in ScanStates
<1> DEFINE S == ScanStates
           L == Len(lines)
           step == [n \in 1 .. L |-> [s \in S |-> Scan(s, n, lines[n])]]
           f == CHOOSE f : f = [n \in 0 .. L |-> IF n = 0 THEN Start
                                                 ELSE Scan(f[n - 1], n, lines[n])]
<1>1. L \in Nat /\ Start \in S
  <2> DEFINE none == <<>>
  <2>1. none \in Seq(Nat)
    BY EmptySeq
  <2>2. Start = [inHeaders |-> TRUE, subject |-> none, last |-> "none", body |-> none]
    BY DEF Start
  <2> HIDE DEF none
  <2> QED
    BY <2>1, <2>2, LenProperties DEF ScanStates
<1>2. ASSUME NEW n \in 1 .. L, NEW s \in S PROVE Scan(s, n, lines[n]) \in S
  BY <1>1, ScanTyped
<1> HIDE DEF S, L
<1>3. step \in [1 .. L -> [S -> S]]
  BY <1>2
<1> HIDE DEF step
<1>4. PICK g \in [0 .. L -> S] : g[0] = Start /\ \A n \in 1 .. L : g[n] = step[n][g[n - 1]]
  BY <1>1, <1>3, LoopExists
<1>5. \A n \in 1 .. L : step[n][g[n - 1]] = Scan(g[n - 1], n, lines[n])
  BY <1>1 DEF step
<1>6. g = [n \in 0 .. L |-> IF n = 0 THEN Start ELSE Scan(g[n - 1], n, lines[n])]
  BY <1>1, <1>4, <1>5
<1>7. f = [n \in 0 .. L |-> IF n = 0 THEN Start ELSE Scan(f[n - 1], n, lines[n])]
  BY <1>6
<1>8. Scanned(lines) = f
  BY DEF Scanned, L
<1> HIDE DEF f
<1>9. f[0] = Start /\ \A n \in 1 .. L : f[n] = Scan(f[n - 1], n, lines[n])
  BY <1>1, <1>7
<1> DEFINE T == {n \in 0 .. L : f[n] \in S}
<1>10. 0 \in T
  BY <1>1, <1>9
<1>11. ASSUME NEW n \in 1 .. L, n - 1 \in T PROVE n \in T
  BY <1>1, <1>2, <1>9, <1>11
<1> HIDE DEF T
<1>12. \A n \in 0 .. L : n \in T
  BY <1>1, <1>10, <1>11, UpTo
<1>13. \A n \in 0 .. L : f[n] \in S
  BY <1>12 DEF T
<1> QED
  BY <1>8, <1>9, <1>13 DEF L, S

\* The subject found in the first n lines, all of them headers: none, or that of
\* the last Subject line and the lines folded onto it; open says whether a line
\* folded next would be folded onto it.
SubjectIs(lines, n, subject, open) ==
  \/ /\ \A i \in 1 .. n : lines[i] # "subject"
     /\ subject = <<>> /\ ~open
  \/ \E a \in 1 .. n : \E e \in a .. n :
       /\ lines[a] = "subject" /\ subject = Stretch(a, e)
       /\ \A i \in a + 1 .. n : lines[i] # "subject"
       /\ \A i \in a + 1 .. e : lines[i] = "fold"
       /\ e < n => lines[e + 1] # "fold"
       /\ open <=> e = n

\* One more header line.
LEMMA SubjectStep ==
  ASSUME NEW lines \in Seq(LineKinds), NEW n \in 1 .. Len(lines), NEW s \in ScanStates,
         s.inHeaders, SubjectIs(lines, n - 1, s.subject, s.last = "subject"),
         lines[n] # "blank"
  PROVE  SubjectIs(lines, n, Scan(s, n, lines[n]).subject, Scan(s, n, lines[n]).last = "subject")
<1> DEFINE t == Scan(s, n, lines[n])
<1>0. n \in Nat \ {0} /\ n - 1 \in Nat
  BY LenProperties
<1>1. CASE lines[n] = "subject"
  <2>1. t.subject = <<n>> /\ t.last = "subject"
    BY <1>1 DEF Scan, ScanStates
  <2>2. Stretch(n, n) = <<n>>
    BY <1>0, StretchGrows
  <2> HIDE DEF t
  <2>3. t.subject = Stretch(n, n)
    BY <2>1, <2>2
  <2>4. n \in 1 .. n /\ n \in n .. n
    BY <1>0
  <2> QED
    BY <1>0, <1>1, <2>1, <2>3, <2>4 DEF SubjectIs, t
<1>2. CASE lines[n] = "fold"
  <2>1. t.last = s.last /\ t.subject = IF s.last = "subject" THEN Append(s.subject, n) ELSE s.subject
    BY <1>2 DEF Scan, ScanStates
  <2>2. CASE /\ \A i \in 1 .. n - 1 : lines[i] # "subject"
             /\ s.subject = <<>> /\ s.last # "subject"
    <3>1. \A i \in 1 .. n : lines[i] # "subject"
      BY <1>0, <1>2, <2>2
    <3> HIDE DEF t
    <3> QED
      BY <2>1, <2>2, <3>1 DEF SubjectIs, t
  <2>3. ASSUME NEW a \in 1 .. n - 1, NEW e \in a .. n - 1,
               lines[a] = "subject", s.subject = Stretch(a, e),
               \A i \in a + 1 .. n - 1 : lines[i] # "subject",
               \A i \in a + 1 .. e : lines[i] = "fold",
               e < n - 1 => lines[e + 1] # "fold",
               s.last = "subject" <=> e = n - 1
        PROVE  SubjectIs(lines, n, t.subject, t.last = "subject")
    <3>1. a \in 1 .. n /\ \A i \in a + 1 .. n : lines[i] # "subject"
      BY <1>0, <1>2, <2>3
    <3>2. CASE e = n - 1
      <4>1. t.last = "subject" /\ t.subject = Append(Stretch(a, n - 1), n)
        BY <2>1, <2>3, <3>2
      <4>2. Append(Stretch(a, n - 1), (n - 1) + 1) = Stretch(a, (n - 1) + 1)
        <5>1. a \in Nat \ {0} /\ n - 1 >= a - 1
          BY <1>0
        <5> QED
          BY <1>0, <5>1, StretchGrows
      <4>3. (n - 1) + 1 = n
        BY <1>0
      <4>4. t.subject = Stretch(a, n)
        BY <4>1, <4>2, <4>3
      <4>5. n \in a .. n /\ \A i \in a + 1 .. n : lines[i] = "fold"
        BY <1>0, <1>2, <2>3, <3>2
      <4> HIDE DEF t
      <4>6. ~(n < n)
        BY <1>0
      <4> QED
        BY <2>3, <3>1, <4>1, <4>4, <4>5, <4>6, Zenon DEF SubjectIs
    <3>3. CASE e # n - 1
      <4>1. t.last # "subject" /\ t.subject = Stretch(a, e)
        BY <2>1, <2>3, <3>3
      <4>2. e \in a .. n /\ e < n /\ e # n /\ lines[e + 1] # "fold"
        BY <1>0, <2>3, <3>3
      <4> HIDE DEF t
      <4> QED
        BY <1>0, <2>3, <3>1, <4>1, <4>2 DEF SubjectIs
    <3> QED
      BY <3>2, <3>3
  <2> HIDE DEF t
  <2> QED
    BY <2>2, <2>3 DEF SubjectIs, t
<1>3. CASE lines[n] \notin {"subject", "fold"}
  <2>1. t.last # "subject" /\ t.subject = s.subject
    BY <1>3 DEF Scan, ScanStates
  <2> HIDE DEF t
  <2>2. CASE /\ \A i \in 1 .. n - 1 : lines[i] # "subject"
             /\ s.subject = <<>> /\ s.last # "subject"
    <3>1. \A i \in 1 .. n : lines[i] # "subject"
      BY <1>0, <1>3, <2>2
    <3> QED
      BY <2>1, <2>2, <3>1 DEF SubjectIs, t
  <2>3. ASSUME NEW a \in 1 .. n - 1, NEW e \in a .. n - 1,
               lines[a] = "subject", s.subject = Stretch(a, e),
               \A i \in a + 1 .. n - 1 : lines[i] # "subject",
               \A i \in a + 1 .. e : lines[i] = "fold",
               e < n - 1 => lines[e + 1] # "fold",
               s.last = "subject" <=> e = n - 1
        PROVE  SubjectIs(lines, n, t.subject, t.last = "subject")
    <3>1. a \in 1 .. n /\ \A i \in a + 1 .. n : lines[i] # "subject"
      BY <1>0, <1>3, <2>3
    <3>2. e \in a .. n /\ e # n /\ lines[e + 1] # "fold"
      BY <1>0, <1>3, <2>3
    <3> QED
      BY <1>0, <2>1, <2>3, <3>1, <3>2 DEF SubjectIs
  <2> QED
    BY <2>2, <2>3 DEF SubjectIs, t
<1> HIDE DEF t
<1> QED
  BY <1>1, <1>2, <1>3 DEF t

\* The loop after n lines: still in the headers, or past the blank line h, with
\* every line since then in the body.
ScanInv(lines, n, s) ==
  \/ /\ \A i \in 1 .. n : lines[i] # "blank"
     /\ s.inHeaders /\ s.body = <<>>
     /\ SubjectIs(lines, n, s.subject, s.last = "subject")
  \/ \E h \in 1 .. n :
       /\ lines[h] = "blank" /\ \A i \in 1 .. h - 1 : lines[i] # "blank"
       /\ ~s.inHeaders /\ s.body = Stretch(h + 1, n)
       /\ SubjectIs(lines, h - 1, s.subject, s.last = "subject")

LEMMA ScanStep ==
  ASSUME NEW lines \in Seq(LineKinds), NEW n \in 1 .. Len(lines), NEW s \in ScanStates,
         ScanInv(lines, n - 1, s)
  PROVE  ScanInv(lines, n, Scan(s, n, lines[n]))
<1> DEFINE t == Scan(s, n, lines[n])
<1>0. n \in Nat \ {0} /\ n - 1 \in Nat /\ (n - 1) + 1 = n
  BY LenProperties
<1>1. CASE s.inHeaders /\ lines[n] = "blank"
  <2>1. /\ \A i \in 1 .. n - 1 : lines[i] # "blank"
        /\ s.body = <<>> /\ SubjectIs(lines, n - 1, s.subject, s.last = "subject")
    BY <1>1 DEF ScanInv
  <2>2. t.inHeaders = FALSE /\ t.body = s.body /\ t.subject = s.subject /\ t.last = s.last
    BY <1>1 DEF Scan, ScanStates
  <2>3. Stretch(n + 1, (n + 1) - 1) = <<>> /\ (n + 1) - 1 = n /\ n \in 1 .. n
    BY <1>0, StretchGrows
  <2>4. t.body = Stretch(n + 1, n)
    BY <2>1, <2>2, <2>3
  <2> HIDE DEF t
  <2> QED
    BY <1>1, <2>1, <2>2, <2>3, <2>4 DEF ScanInv, t
<1>2. CASE s.inHeaders /\ lines[n] # "blank"
  <2>1. /\ \A i \in 1 .. n - 1 : lines[i] # "blank"
        /\ s.body = <<>> /\ SubjectIs(lines, n - 1, s.subject, s.last = "subject")
    BY <1>2 DEF ScanInv
  <2>2. SubjectIs(lines, n, t.subject, t.last = "subject")
    BY <1>2, <2>1, SubjectStep
  <2>3. t.inHeaders /\ t.body = s.body
    BY <1>2 DEF Scan, ScanStates
  <2> HIDE DEF t
  <2>4. \A i \in 1 .. n : lines[i] # "blank"
    BY <1>0, <1>2, <2>1
  <2> QED
    BY <2>1, <2>2, <2>3, <2>4 DEF ScanInv, t
<1>3. CASE ~s.inHeaders
  <2>1. PICK h \in 1 .. n - 1 :
          /\ lines[h] = "blank" /\ \A i \in 1 .. h - 1 : lines[i] # "blank"
          /\ s.body = Stretch(h + 1, n - 1)
          /\ SubjectIs(lines, h - 1, s.subject, s.last = "subject")
    BY <1>3 DEF ScanInv
  <2>2. /\ t.inHeaders = s.inHeaders /\ t.body = Append(s.body, n)
        /\ t.subject = s.subject /\ t.last = s.last
    BY <1>3 DEF Scan, ScanStates
  <2> HIDE DEF t
  <2>3. h + 1 \in Nat \ {0} /\ n - 1 >= (h + 1) - 1 /\ h \in 1 .. n
    BY <1>0
  <2>4. Append(Stretch(h + 1, n - 1), (n - 1) + 1) = Stretch(h + 1, (n - 1) + 1)
    BY <1>0, <2>3, StretchGrows
  <2>5. t.body = Stretch(h + 1, n)
    BY <1>0, <2>1, <2>2, <2>4
  <2> QED
    BY <1>3, <2>1, <2>2, <2>3, <2>5 DEF ScanInv, t
<1> HIDE DEF t
<1> QED
  BY <1>1, <1>2, <1>3 DEF t

\* What the loop has found after the last line.
LEMMA ScanFinds ==
  ASSUME NEW lines \in Seq(LineKinds)
  PROVE  ScanInv(lines, Len(lines), ExtractSubjectAndBody(lines))
<1> DEFINE L == Len(lines)
           f == Scanned(lines)
           T == {n \in 0 .. L : ScanInv(lines, n, f[n])}
<1>1. L \in Nat
  BY LenProperties
<1>2. /\ f[0] = Start /\ \A n \in 1 .. L : f[n] = Scan(f[n - 1], n, lines[n])
      /\ \A n \in 0 .. L : f[n] \in ScanStates
  BY ScanLoop
<1> HIDE DEF f
<1>3. 0 \in T
  <2>1. ScanInv(lines, 0, Start)
    BY DEF ScanInv, SubjectIs, Start
  <2> QED
    BY <1>1, <1>2, <2>1
<1>4. ASSUME NEW n \in 1 .. L, n - 1 \in T PROVE n \in T
  <2>1. f[n - 1] \in ScanStates /\ ScanInv(lines, n - 1, f[n - 1])
    BY <1>2, <1>4
  <2>2. ScanInv(lines, n, Scan(f[n - 1], n, lines[n]))
    BY <2>1, ScanStep
  <2>3. f[n] = Scan(f[n - 1], n, lines[n]) /\ n \in 0 .. L
    BY <1>1, <1>2
  <2> QED
    BY <2>2, <2>3
<1> HIDE DEF T, L
<1>5. \A n \in 0 .. L : n \in T
  BY <1>1, <1>3, <1>4, UpTo
<1>6. L \in T
  BY <1>1, <1>5
<1> QED
  BY <1>6 DEF T, L, f, ExtractSubjectAndBody

\* Min and Max of a set with a known bound.
LEMMA BoundIsMin ==
  ASSUME NEW T \in SUBSET Nat, NEW a \in T, \A j \in T : a <= j
  PROVE  Min(T) = a
<1>1. Min(T) \in T /\ \A j \in T : Min(T) <= j
  BY MinIsLeast
<1>2. Min(T) \in Nat /\ a \in Nat /\ Min(T) <= a /\ a <= Min(T)
  BY <1>1
<1> QED
  BY <1>2

LEMMA BoundIsMax ==
  ASSUME NEW T \in SUBSET Nat, NEW a \in T, \A j \in T : j <= a
  PROVE  Max(T) = a
<1>1. Max(T) \in T /\ \A j \in T : Max(T) >= j
  <2>1. \E i \in T : \A j \in T : i >= j
    OBVIOUS
  <2> QED
    BY <2>1, Zenon DEF Max
<1>2. Max(T) \in Nat /\ a \in Nat /\ Max(T) >= a /\ Max(T) <= a
  BY <1>1
<1> QED
  BY <1>2

\* The subject so found is the one asked for, hend being where the headers end.
LEMMA SubjectFound ==
  ASSUME NEW lines \in Seq(LineKinds), NEW hend \in 1 .. Len(lines) + 1, NEW subject, NEW open,
         SubjectIs(lines, hend - 1, subject, open)
  PROVE  LET subjects == {i \in 1 .. hend - 1 : lines[i] = "subject"}
             start == Max(subjects)
             stops == {i \in start + 1 .. hend : i = hend \/ lines[i] # "fold"}
         IN  subject = IF subjects = {} THEN <<>>
                       ELSE [k \in 1 .. Min(stops) - start |-> start + k - 1]
<1> DEFINE subjects == {i \in 1 .. hend - 1 : lines[i] = "subject"}
           start == Max(subjects)
           stops == {i \in start + 1 .. hend : i = hend \/ lines[i] # "fold"}
<1>0. hend \in Nat \ {0}
  BY LenProperties
<1>1. CASE \A i \in 1 .. hend - 1 : lines[i] # "subject"
  <2>1. subjects = {}
    BY <1>1
  <2>2. subject = <<>>
    <3>1. ~ \E a \in 1 .. hend - 1 : lines[a] = "subject"
      BY <1>1
    <3> QED
      BY <3>1 DEF SubjectIs
  <2> QED
    BY <2>1, <2>2
<1>2. CASE ~ \A i \in 1 .. hend - 1 : lines[i] # "subject"
  <2>1. PICK a \in 1 .. hend - 1, e \in 1 .. hend - 1 :
          /\ a <= e
          /\ lines[a] = "subject" /\ subject = Stretch(a, e)
          /\ \A i \in a + 1 .. hend - 1 : lines[i] # "subject"
          /\ \A i \in a + 1 .. e : lines[i] = "fold"
          /\ e < hend - 1 => lines[e + 1] # "fold"
    BY <1>2 DEF SubjectIs
  <2>2. subjects \in SUBSET Nat /\ a \in subjects /\ \A j \in subjects : j <= a
    BY <1>0, <2>1
  <2>3. start = a
    BY <2>2, BoundIsMax
  <2> DEFINE ends == {i \in a + 1 .. hend : i = hend \/ lines[i] # "fold"}
  <2>4. ends \in SUBSET Nat /\ e + 1 \in ends /\ \A j \in ends : e + 1 <= j
    BY <1>0, <2>1
  <2>5. stops = ends
    BY <2>3
  <2> HIDE DEF start, ends
  <2>6. Min(ends) = e + 1
    BY <2>4, BoundIsMin
  <2>7. Min(stops) - start = e - a + 1
    <3>1. Min(stops) = e + 1
      BY <2>5, <2>6
    <3> HIDE DEF stops
    <3> QED
      BY <2>3, <3>1
  <2> HIDE DEF stops
  <2>8. subject = [k \in 1 .. Min(stops) - start |-> start + k - 1]
    BY <2>1, <2>3, <2>7 DEF Stretch
  <2>9. subjects # {}
    BY <2>2
  <2>10. subject = IF subjects = {} THEN <<>>
                   ELSE [k \in 1 .. Min(stops) - start |-> start + k - 1]
    <3> HIDE DEF subjects
    <3> QED
      BY <2>8, <2>9
  <2> QED
    BY <2>10, Zenon DEF stops, start
<1> QED
  BY <1>1, <1>2

\* For a message of any length: the body is every line after the first blank one,
\* and the subject is the last Subject header with the lines folded onto it and
\* no others (extract_subject_and_body).
THEOREM SubjectAndBodyAreFound == Spec => []SplitAtFirstBlank
<1>1. Init => SplitAtFirstBlank
  BY InitOutput DEF SplitAtFirstBlank
<1>2. InputKnown /\ SplitAtFirstBlank /\ [Next]_avars => SplitAtFirstBlank'
  <2> SUFFICES ASSUME InputKnown, SplitAtFirstBlank, [Next]_avars PROVE SplitAtFirstBlank'
    OBVIOUS
  <2>1. CASE UNCHANGED avars
    BY <2>1 DEF avars, SplitAtFirstBlank, Computed
  <2>2. CASE Next
    <3> SUFFICES ASSUME Computed("split")' PROVE SplitAtFirstBlank'
      BY DEF SplitAtFirstBlank
    <3> DEFINE lines == input.lines
               found == ExtractSubjectAndBody(lines)
               blanks == {i \in 1 .. Len(lines) : lines[i] = "blank"}
               hend == IF blanks = {} THEN Len(lines) + 1 ELSE Min(blanks)
    <3>1. SplitHeaders /\ input' = input
      BY <2>2, NextOutput
    <3>2. output'.split = found /\ lines \in Seq(LineKinds)
      BY <3>1, AlgorithmsAssumption DEF SplitHeaders, Fresh, InputKnown
    <3>3. Len(lines) \in Nat /\ ScanInv(lines, Len(lines), found)
      BY <3>2, LenProperties, ScanFinds
    <3> HIDE DEF found
    <3>4. /\ hend \in 1 .. Len(lines) + 1
          /\ found.body = [k \in 1 .. Len(lines) - hend |-> hend + k]
          /\ SubjectIs(lines, hend - 1, found.subject, found.last = "subject")
      <4>1. CASE blanks = {}
        <5>1. \A i \in 1 .. Len(lines) : lines[i] # "blank"
          BY <4>1
        <5>2. found.body = <<>> /\ SubjectIs(lines, Len(lines), found.subject, found.last = "subject")
          BY <3>3, <5>1 DEF ScanInv
        <5>3. hend = Len(lines) + 1
          BY <4>1
        <5>4. hend - 1 = Len(lines) /\ Len(lines) - hend = -1
          BY <3>3, <5>3
        <5> HIDE DEF hend
        <5>5. [k \in 1 .. Len(lines) - hend |-> hend + k] = <<>>
          BY <5>4
        <5> QED
          BY <3>3, <5>2, <5>3, <5>4, <5>5
      <4>2. CASE blanks # {}
        <5>1. PICK h \in 1 .. Len(lines) :
                /\ lines[h] = "blank" /\ \A i \in 1 .. h - 1 : lines[i] # "blank"
                /\ found.body = Stretch(h + 1, Len(lines))
                /\ SubjectIs(lines, h - 1, found.subject, found.last = "subject")
          BY <3>3, <4>2 DEF ScanInv
        <5>2. blanks \in SUBSET Nat /\ h \in blanks /\ \A j \in blanks : h <= j
          BY <3>3, <5>1
        <5>3. hend = h
          BY <4>2, <5>2, BoundIsMin
        <5> HIDE DEF hend
        <5>4. Stretch(h + 1, Len(lines)) = [k \in 1 .. Len(lines) - h |-> h + k]
          BY <3>3 DEF Stretch
        <5> QED
          BY <3>3, <5>1, <5>3, <5>4
      <4> QED
        BY <4>1, <4>2
    <3>5. LET subjects == {i \in 1 .. hend - 1 : lines[i] = "subject"}
              start == Max(subjects)
              stops == {i \in start + 1 .. hend : i = hend \/ lines[i] # "fold"}
          IN  found.subject = IF subjects = {} THEN <<>>
                              ELSE [k \in 1 .. Min(stops) - start |-> start + k - 1]
      <4> HIDE DEF hend
      <4> QED
        BY <3>2, <3>4, SubjectFound
    <3> QED
      <4>1. IsSplit(lines, found)
        BY <3>4, <3>5 DEF IsSplit
      <4> HIDE DEF lines
      <4>2. input'.lines = lines
        BY <3>1 DEF lines
      <4> QED
        BY <3>2, <4>1, <4>2 DEF SplitAtFirstBlank
  <2> QED
    BY <2>1, <2>2
<1> QED
  BY <1>1, <1>2, InputKnownHolds, PTL DEF Spec, avars

-----------------------------------------------------------------------------
(***************************************************************************)
(* html_to_text: the passes over the tokens.                               *)
(***************************************************************************)
\* g[c] is what a walk from c writes.
Walked(g, L, piece, next) ==
  g[L + 1] = <<>> /\ \A c \in 1 .. L : g[c] = piece[c] \o g[next[c]]

\* A cursor that always moves on comes to the end, wherever it starts.
LEMMA WalkExists ==
  ASSUME NEW V, NEW L \in Nat, NEW piece \in [1 .. L -> Seq(V)], NEW next \in [1 .. L -> Nat],
         \A c \in 1 .. L : c < next[c] /\ next[c] <= L + 1
  PROVE  \E g \in [1 .. L + 1 -> Seq(V)] : Walked(g, L, piece, next)
<1> DEFINE none == <<>>
           Run(m, g) == g[L + 1] = none /\ \A c \in L + 1 - m .. L : g[c] = piece[c] \o g[next[c]]
           T == {m \in 0 .. L : \E g \in [L + 1 - m .. L + 1 -> Seq(V)] : Run(m, g)}
<1>1. none \in Seq(V)
  BY EmptySeq
<1> HIDE DEF none
<1>2. 0 \in T
  <2> DEFINE g == [c \in L + 1 - 0 .. L + 1 |-> none]
  <2>1. g \in [L + 1 - 0 .. L + 1 -> Seq(V)]
    BY <1>1
  <2>2. g[L + 1] = none /\ L + 1 - 0 .. L = {}
    OBVIOUS
  <2>3. Run(0, g)
    BY <2>2
  <2> HIDE DEF g, Run
  <2> QED
    BY <2>1, <2>3
<1>3. ASSUME NEW m \in 1 .. L, m - 1 \in T PROVE m \in T
  <2>1. PICK g \in [L + 1 - (m - 1) .. L + 1 -> Seq(V)] : Run(m - 1, g)
    BY <1>3
  <2> DEFINE k == L + 1 - m
             w == piece[k] \o g[next[k]]
             h == [c \in k .. L + 1 |-> IF c = k THEN w ELSE g[c]]
  <2>2. k \in 1 .. L /\ L + 1 - (m - 1) = k + 1
    OBVIOUS
  <2> HIDE DEF k
  <2>3. next[k] \in k + 1 .. L + 1 /\ piece[k] \in Seq(V)
    BY <2>2
  <2>4. g \in [k + 1 .. L + 1 -> Seq(V)] /\ g[next[k]] \in Seq(V)
    BY <2>2, <2>3
  <2>5. w \in Seq(V)
    BY <2>3, <2>4, ConcatProperties
  <2> HIDE DEF w
  <2>6. h \in [k .. L + 1 -> Seq(V)]
    <3>1. \A c \in k .. L + 1 : c = k \/ c \in k + 1 .. L + 1
      BY <2>2
    <3>2. \A c \in k .. L + 1 : (IF c = k THEN w ELSE g[c]) \in Seq(V)
      BY <2>4, <2>5, <3>1
    <3> QED
      BY <3>2
  <2>7. h[L + 1] = none
    BY <2>1, <2>2
  <2>8. ASSUME NEW c \in k .. L PROVE h[c] = piece[c] \o h[next[c]]
    <3>1. next[c] \in k + 1 .. L + 1 /\ c \in 1 .. L
      BY <2>2
    <3>2. h[next[c]] = g[next[c]]
      BY <2>2, <3>1
    <3>3. CASE c = k
      <4>1. h[k] = w
        BY <2>2
      <4> QED
        BY <3>2, <3>3, <4>1 DEF w
    <3>4. CASE c # k
      <4>1. c \in k + 1 .. L /\ h[c] = g[c]
        BY <2>2, <3>4
      <4>2. g[c] = piece[c] \o g[next[c]]
        BY <2>1, <2>2, <4>1
      <4> QED
        BY <3>2, <4>1, <4>2
    <3> QED
      BY <3>3, <3>4
  <2> HIDE DEF h
  <2>9. Run(m, h)
    BY <2>7, <2>8 DEF k
  <2> HIDE DEF Run
  <2>10. h \in [L + 1 - m .. L + 1 -> Seq(V)] /\ m \in 0 .. L
    BY <2>6 DEF k
  <2> QED
    BY <2>9, <2>10
<1> HIDE DEF T
<1>4. \A m \in 0 .. L : m \in T
  BY <1>2, <1>3, UpTo
<1>5. PICK g \in [L + 1 - L .. L + 1 -> Seq(V)] : Run(L, g)
  <2>1. L \in T
    BY <1>4
  <2> QED
    BY <2>1 DEF T
<1>6. L + 1 - L = 1
  OBVIOUS
<1> QED
  BY <1>5, <1>6 DEF none, Walked

\* f[c] is what the walk writes from c on.
WalkFrom(f, V, L, piece, next) ==
  f \in [1 .. L + 1 -> Seq(V)] /\ Walked(f, L, piece, next) /\ Walk(piece, next) = f[1]

\* Such a walk has a result, and it is a text.
LEMMA WalkRuns ==
  ASSUME NEW V, NEW L \in Nat, NEW piece \in [1 .. L -> Seq(V)], NEW next \in [1 .. L -> Nat],
         \A c \in 1 .. L : c < next[c] /\ next[c] <= L + 1
  PROVE  \E f : WalkFrom(f, V, L, piece, next)
<1> DEFINE f == CHOOSE f : f = [c \in 1 .. L + 1 |->
                                  IF c > L THEN <<>> ELSE piece[c] \o f[next[c]]]
<1>1. Len(piece) = L
  BY LenProperties
<1>2. PICK g \in [1 .. L + 1 -> Seq(V)] : Walked(g, L, piece, next)
  <2> HIDE DEF f
  <2> QED
    BY WalkExists
<1>3. g = [c \in 1 .. L + 1 |-> IF c > L THEN <<>> ELSE piece[c] \o g[next[c]]]
  <2>1. ASSUME NEW c \in 1 .. L + 1 PROVE g[c] = IF c > L THEN <<>> ELSE piece[c] \o g[next[c]]
    <3>1. CASE c > L
      <4>1. c = L + 1
        BY <3>1
      <4> QED
        BY <1>2, <3>1, <4>1 DEF Walked
    <3>2. CASE ~(c > L)
      <4>1. c \in 1 .. L
        BY <3>2
      <4> QED
        BY <1>2, <3>2, <4>1 DEF Walked
    <3> QED
      BY <3>1, <3>2
  <2> QED
    BY <2>1
<1>4. f = [c \in 1 .. L + 1 |-> IF c > L THEN <<>> ELSE piece[c] \o f[next[c]]]
  BY <1>3
<1>5. Walk(piece, next) = f[1]
  BY <1>1 DEF Walk
<1> HIDE DEF f
<1>6. \A c \in 1 .. L + 1 : f[c] \in Seq(V)
  <2> DEFINE U == {m \in 0 .. L : \A c \in L + 1 - m .. L + 1 : f[c] \in Seq(V)}
             none == <<>>
  <2>1. 0 \in U
    <3>1. f[L + 1] = none /\ none \in Seq(V)
      BY <1>4, EmptySeq
    <3> HIDE DEF none
    <3> QED
      BY <3>1
  <2>2. ASSUME NEW m \in 1 .. L, m - 1 \in U PROVE m \in U
    <3> DEFINE k == L + 1 - m
    <3>1. k \in 1 .. L /\ L + 1 - (m - 1) = k + 1
      OBVIOUS
    <3>2. \A c \in k + 1 .. L + 1 : f[c] \in Seq(V)
      BY <2>2, <3>1
    <3> HIDE DEF k
    <3>3. next[k] \in k + 1 .. L + 1 /\ piece[k] \in Seq(V)
      BY <3>1
    <3>4. f[next[k]] \in Seq(V)
      BY <3>2, <3>3
    <3>5. f[k] = piece[k] \o f[next[k]]
      <4>1. k \in 1 .. L + 1 /\ ~(k > L)
        BY <3>1
      <4> QED
        BY <1>4, <4>1
    <3>6. f[k] \in Seq(V)
      BY <3>3, <3>4, <3>5, ConcatProperties
    <3>7. \A c \in k .. L + 1 : f[c] \in Seq(V)
      <4>1. \A c \in k .. L + 1 : c = k \/ c \in k + 1 .. L + 1
        BY <3>1
      <4> QED
        BY <3>2, <3>6, <4>1
    <3> QED
      BY <3>7 DEF k
  <2> HIDE DEF U
  <2>3. \A m \in 0 .. L : m \in U
    BY <2>1, <2>2, UpTo
  <2>4. L \in U
    BY <2>3
  <2>5. L + 1 - L = 1
    OBVIOUS
  <2> QED
    BY <2>4, <2>5 DEF U
<1>7. f \in [1 .. L + 1 -> Seq(V)]
  BY <1>4, <1>6
<1>8. Walked(f, L, piece, next)
  <2>1. f[L + 1] = <<>>
    BY <1>4
  <2>2. ASSUME NEW c \in 1 .. L PROVE f[c] = piece[c] \o f[next[c]]
    <3>1. c \in 1 .. L + 1 /\ ~(c > L)
      OBVIOUS
    <3> QED
      BY <1>4, <3>1
  <2> QED
    BY <2>1, <2>2 DEF Walked
<1> QED
  BY <1>5, <1>7, <1>8 DEF WalkFrom

LEMMA WalkTyped ==
  ASSUME NEW V, NEW L \in Nat, NEW piece \in [1 .. L -> Seq(V)], NEW next \in [1 .. L -> Nat],
         \A c \in 1 .. L : c < next[c] /\ next[c] <= L + 1
  PROVE  Walk(piece, next) \in Seq(V)
<1>1. PICK f : WalkFrom(f, V, L, piece, next)
  BY WalkRuns
<1> QED
  BY <1>1 DEF WalkFrom

\* strip_elements finds the first closing tag from c on at j.
FirstClose(doc, name, c, j) ==
  doc[j] \in Close(name) /\ \A i \in c .. j - 1 : doc[i] \notin Close(name)

\* f[c] is what the pass for a name writes from token c on.
Stripping(f, A, doc, name) ==
  /\ f \in [1 .. Len(doc) + 1 -> Seq(A)]
  /\ f[Len(doc) + 1] = <<>>
  /\ \A c \in 1 .. Len(doc) :
       /\ doc[c] \notin Open(name) => f[c] = <<doc[c]>> \o f[c + 1]
       /\ doc[c] \in Open(name) =>
            /\ \A j \in c .. Len(doc) : FirstClose(doc, name, c, j) => f[c] = f[j + 1]
            /\ (\A j \in c .. Len(doc) : doc[j] \notin Close(name)) => f[c] = <<>>

\* The pass for a name does that.
LEMMA StripRuns ==
  ASSUME NEW A, NEW doc \in Seq(A), NEW name
  PROVE  \E f : Stripping(f, A, doc, name) /\ StripElement(doc, name) = f[1]
<1> DEFINE L == Len(doc)
           none == <<>>
           One(c) == <<doc[c]>>
           Closing(c) == {i \in c .. L : doc[i] \in Close(name)}
           piece == [c \in 1 .. L |-> IF doc[c] \in Open(name) THEN none ELSE One(c)]
           next == [c \in 1 .. L |-> IF doc[c] \notin Open(name) THEN c + 1
                                     ELSE IF Closing(c) = {} THEN L + 1 ELSE Min(Closing(c)) + 1]
<1>1. L \in Nat /\ none \in Seq(A)
  BY LenProperties, EmptySeq
<1>2. ASSUME NEW c \in 1 .. L PROVE One(c) \in Seq(A)
  <2>1. doc[c] \in A
    BY ElementOfSeq
  <2> QED
    BY <2>1
<1>3. StripElement(doc, name) = Walk(piece, next)
  BY DEF StripElement
<1> HIDE DEF L, none, One
<1>4. piece \in [1 .. L -> Seq(A)]
  BY <1>1, <1>2
<1>5. ASSUME NEW c \in 1 .. L, Closing(c) # {}
      PROVE  Min(Closing(c)) \in Closing(c) /\ \A j \in Closing(c) : Min(Closing(c)) <= j
  <2>1. Closing(c) \in SUBSET Nat
    BY <1>1
  <2> HIDE DEF Closing
  <2> QED
    BY <1>5, <2>1, MinIsLeast
<1>6. ASSUME NEW c \in 1 .. L PROVE next[c] \in Nat /\ c < next[c] /\ next[c] <= L + 1
  <2>1. CASE doc[c] \notin Open(name)
    BY <1>1, <2>1
  <2>2. CASE doc[c] \in Open(name) /\ Closing(c) = {}
    BY <1>1, <2>2
  <2>3. CASE doc[c] \in Open(name) /\ Closing(c) # {}
    <3>1. Min(Closing(c)) \in c .. L
      BY <1>5, <2>3
    <3>2. next[c] = Min(Closing(c)) + 1
      BY <2>3
    <3> HIDE DEF next, Closing
    <3> QED
      BY <1>1, <3>1, <3>2
  <2> QED
    BY <2>1, <2>2, <2>3
<1>7. next \in [1 .. L -> Nat] /\ \A c \in 1 .. L : c < next[c] /\ next[c] <= L + 1
  <2>1. next = [c \in 1 .. L |-> next[c]]
    OBVIOUS
  <2> HIDE DEF next
  <2> QED
    BY <1>6, <2>1
<1>8. \A c \in 1 .. L : /\ doc[c] \notin Open(name) => piece[c] = One(c) /\ next[c] = c + 1
                        /\ doc[c] \in Open(name) => piece[c] = none
                        /\ doc[c] \in Open(name) /\ Closing(c) = {} => next[c] = L + 1
                        /\ doc[c] \in Open(name) /\ Closing(c) # {} => next[c] = Min(Closing(c)) + 1
  OBVIOUS
<1> HIDE DEF piece, next
<1>9. PICK f : WalkFrom(f, A, L, piece, next)
  BY <1>1, <1>4, <1>7, WalkRuns
<1>10. /\ f \in [1 .. L + 1 -> Seq(A)] /\ Walk(piece, next) = f[1] /\ f[L + 1] = none
       /\ \A c \in 1 .. L : f[c] = piece[c] \o f[next[c]]
  BY <1>9 DEF WalkFrom, Walked, none
<1>11. ASSUME NEW c \in 1 .. L, doc[c] \notin Open(name) PROVE f[c] = One(c) \o f[c + 1]
  BY <1>8, <1>10, <1>11
<1>12. ASSUME NEW c \in 1 .. L, doc[c] \in Open(name) PROVE f[c] = f[next[c]]
  <2>1. f[next[c]] \in Seq(A)
    <3>1. next[c] \in 1 .. L + 1
      BY <1>1, <1>7
    <3> QED
      BY <1>10, <3>1
  <2>2. f[c] = none \o f[next[c]]
    BY <1>8, <1>10, <1>12
  <2> QED
    BY <2>1, <2>2, ConcatEmptySeq DEF none
<1>13. ASSUME NEW c \in 1 .. L, doc[c] \in Open(name), NEW j \in c .. L, FirstClose(doc, name, c, j)
       PROVE  f[c] = f[j + 1]
  <2>1. j \in Closing(c) /\ \A i \in Closing(c) : j <= i
    BY <1>1, <1>13 DEF FirstClose
  <2>2. Min(Closing(c)) \in Closing(c) /\ Min(Closing(c)) <= j
    BY <1>5, <2>1
  <2>3. Min(Closing(c)) = j
    <3>1. j <= Min(Closing(c)) /\ Min(Closing(c)) \in c .. L
      BY <2>1, <2>2
    <3> HIDE DEF Closing
    <3> QED
      BY <1>1, <2>2, <3>1
  <2>4. next[c] = j + 1
    BY <1>8, <1>13, <2>1, <2>3
  <2> QED
    BY <1>12, <1>13, <2>4
<1>14. ASSUME NEW c \in 1 .. L, doc[c] \in Open(name), \A j \in c .. L : doc[j] \notin Close(name)
       PROVE  f[c] = none
  <2>1. Closing(c) = {}
    BY <1>14
  <2>2. next[c] = L + 1
    BY <1>8, <1>14, <2>1
  <2> QED
    BY <1>10, <1>12, <1>14, <2>2
<1>15. Stripping(f, A, doc, name)
  BY <1>10, <1>11, <1>13, <1>14 DEF Stripping, L, none, One
<1> QED
  BY <1>3, <1>10, <1>15

\* The pass turns a text into one of the same tokens.
LEMMA StripTyped ==
  ASSUME NEW A, NEW doc \in Seq(A), NEW name
  PROVE  StripElement(doc, name) \in Seq(A)
<1>1. PICK f : Stripping(f, A, doc, name) /\ StripElement(doc, name) = f[1]
  BY StripRuns
<1>2. 1 \in 1 .. Len(doc) + 1
  BY LenProperties
<1> QED
  BY <1>1, <1>2 DEF Stripping

\* So do the other passes.
LEMMA DropTagsTyped ==
  ASSUME NEW doc \in Seq(Tokens)
  PROVE  DropTags(doc) \in Seq(Tokens)
<1> DEFINE L == Len(doc)
           none == <<>>
           nl == <<Newline>>
           Ending(c) == {i \in c + 1 .. L : doc[i] \in Tags}
           piece == [c \in 1 .. L |-> IF doc[c] \notin Tags \cup {"<"} THEN <<doc[c]>>
                                      ELSE IF BreaksLine(doc[c]) THEN nl ELSE none]
           next == [c \in 1 .. L |-> IF doc[c] # "<" THEN c + 1
                                     ELSE IF Ending(c) = {} THEN L + 1 ELSE Min(Ending(c)) + 1]
<1>1. L \in Nat /\ none \in Seq(Tokens)
  BY LenProperties, EmptySeq
<1>2. nl \in Seq(Tokens)
  <2>1. Newline \in Tokens
    BY DEF Tokens, Blanks
  <2> QED
    BY <2>1
<1>3. ASSUME NEW c \in 1 .. L PROVE <<doc[c]>> \in Seq(Tokens)
  <2>1. doc[c] \in Tokens
    BY ElementOfSeq
  <2> QED
    BY <2>1
<1>4. DropTags(doc) = Walk(piece, next)
  BY DEF DropTags
<1> HIDE DEF L, none, nl
<1>5. piece \in [1 .. L -> Seq(Tokens)]
  BY <1>1, <1>2, <1>3
<1>6. ASSUME NEW c \in 1 .. L PROVE next[c] \in Nat /\ c < next[c] /\ next[c] <= L + 1
  <2>1. CASE doc[c] # "<"
    BY <1>1, <2>1
  <2>2. CASE doc[c] = "<" /\ Ending(c) = {}
    BY <1>1, <2>2
  <2>3. CASE doc[c] = "<" /\ Ending(c) # {}
    <3>1. Ending(c) \in SUBSET Nat
      BY <1>1
    <3>2. Min(Ending(c)) \in c + 1 .. L
      <4>1. Min(Ending(c)) \in Ending(c)
        BY <2>3, <3>1, MinIsLeast
      <4> QED
        BY <4>1
    <3>3. next[c] = Min(Ending(c)) + 1
      BY <2>3
    <3> HIDE DEF next, Ending
    <3> QED
      BY <1>1, <3>2, <3>3
  <2> QED
    BY <2>1, <2>2, <2>3
<1>7. next \in [1 .. L -> Nat] /\ \A c \in 1 .. L : c < next[c] /\ next[c] <= L + 1
  <2>1. next = [c \in 1 .. L |-> next[c]]
    OBVIOUS
  <2> HIDE DEF next
  <2> QED
    BY <1>6, <2>1
<1> HIDE DEF piece, next
<1> QED
  BY <1>1, <1>4, <1>5, <1>7, WalkTyped

LEMMA DecodeEntitiesTyped ==
  ASSUME NEW text \in Seq(Tokens)
  PROVE  DecodeEntities(text) \in Seq(Tokens)
<1> DEFINE L == Len(text)
           Ends(c) == {i \in c + 1 .. L : text[i] \in Entities}
           Swallows(c) == /\ text[c] = "&" /\ Ends(c) # {}
                          /\ Min(Ends(c)) - c + Span(text[Min(Ends(c))]) <= 10
           next == [c \in 1 .. L |-> IF Swallows(c) THEN Min(Ends(c)) + 1 ELSE c + 1]
           Copied(c) == SubSeq(text, c, next[c] - 1)
           piece == [c \in 1 .. L |-> IF text[c] \in Entities THEN <<Entity(text[c])>> ELSE Copied(c)]
<1>1. L \in Nat
  BY LenProperties
<1>2. ASSUME NEW c \in 1 .. L PROVE <<Entity(text[c])>> \in Seq(Tokens)
  <2>1. Entity(text[c]) \in Tokens
    BY DEF Entity, Tokens, Blanks
  <2> QED
    BY <2>1
<1>3. DecodeEntities(text) = Walk(piece, next)
  BY DEF DecodeEntities
<1>4. ASSUME NEW c \in 1 .. L PROVE next[c] \in Nat /\ c < next[c] /\ next[c] <= L + 1
  <2> HIDE DEF L
  <2>1. CASE ~Swallows(c)
    <3>1. next[c] = c + 1
      BY <2>1
    <3> HIDE DEF next, Swallows
    <3> QED
      BY <1>1, <3>1
  <2>2. CASE Swallows(c)
    <3>1. Ends(c) \in SUBSET Nat /\ Ends(c) # {}
      BY <1>1, <2>2
    <3>2. Min(Ends(c)) \in c + 1 .. L
      <4>1. Min(Ends(c)) \in Ends(c)
        BY <3>1, MinIsLeast
      <4> QED
        BY <4>1
    <3>3. next[c] = Min(Ends(c)) + 1
      BY <2>2
    <3> HIDE DEF next, Ends, Swallows
    <3> QED
      BY <1>1, <3>2, <3>3
  <2> QED
    BY <2>1, <2>2
<1>5. next \in [1 .. L -> Nat] /\ \A c \in 1 .. L : c < next[c] /\ next[c] <= L + 1
  <2>1. next = [c \in 1 .. L |-> next[c]]
    OBVIOUS
  <2> HIDE DEF next, L
  <2> QED
    BY <1>4, <2>1
<1> HIDE DEF next
<1>6. ASSUME NEW c \in 1 .. L PROVE Copied(c) \in Seq(Tokens)
  <2>1. c \in 1 .. L + 1 /\ next[c] - 1 \in c - 1 .. L
    BY <1>1, <1>4
  <2> QED
    BY <1>1, <2>1, SubSeqProperties
<1> HIDE DEF L, Copied
<1>7. piece \in [1 .. L -> Seq(Tokens)]
  BY <1>2, <1>6
<1> HIDE DEF piece
<1> QED
  BY <1>1, <1>3, <1>5, <1>7, WalkTyped

\* html_to_text tidies a text.
LEMMA HtmlToTextTidies ==
  ASSUME NEW doc \in Seq(Tokens)
  PROVE  \E text \in Seq(Tokens) : HtmlToText(doc) = Tidy(text)
<1>1. StripElements(doc) \in Seq(Tokens)
  BY StripTyped DEF StripElements
<1>2. DecodeEntities(DropTags(StripElements(doc))) \in Seq(Tokens)
  BY <1>1, DropTagsTyped, DecodeEntitiesTyped
<1> QED
  BY <1>2 DEF HtmlToText

-----------------------------------------------------------------------------
(***************************************************************************)
(* tidy.                                                                   *)
(***************************************************************************)
\* f[n] is what lines() has of the first n tokens: there is always a last line.
LineLists == {r \in Seq(Seq(Tokens)) : Len(r) > 0}

LinesRun(f, text) ==
  /\ \A n \in 0 .. Len(text) : f[n] \in LineLists
  /\ f[0] = <<<<>>>>
  /\ \A n \in 1 .. Len(text) :
       f[n] = IF text[n] = Newline THEN Append(f[n - 1], <<>>)
              ELSE [f[n - 1] EXCEPT ![Len(f[n - 1])] = Append(@, text[n])]

\* lines() does that.
LEMMA LinesLoop ==
  ASSUME NEW text \in Seq(Tokens)
  PROVE  \E f : LinesRun(f, text) /\ Lines(text) = f[Len(text)]
<1> DEFINE L == Len(text)
           none == <<>>
           start == <<none>>
           S == LineLists
           Add(n, r) == IF text[n] = Newline THEN Append(r, none)
                        ELSE [r EXCEPT ![Len(r)] = Append(@, text[n])]
           step == [n \in 1 .. L |-> [r \in S |-> Add(n, r)]]
           f == CHOOSE f : f = [n \in 0 .. L |-> IF n = 0 THEN start ELSE Add(n, f[n - 1])]
<1>1. L \in Nat /\ none \in Seq(Tokens)
  BY LenProperties, EmptySeq
<1>2. Lines(text) = f[L]
  BY DEF Lines, LinesUpTo
<1> HIDE DEF none
<1>3. start \in S
  BY <1>1 DEF LineLists
<1>4. ASSUME NEW n \in 1 .. L, NEW r \in S PROVE Add(n, r) \in S
  <2>1. CASE text[n] = Newline
    <3>1. Append(r, none) \in S
      BY <1>1, AppendProperties DEF LineLists
    <3> QED
      BY <2>1, <3>1
  <2>2. CASE text[n] # Newline
    <3> DEFINE k == Len(r)
               last == Append(r[k], text[n])
    <3>1. k \in Nat \ {0} /\ r \in [1 .. k -> Seq(Tokens)]
      BY LenProperties DEF LineLists
    <3>2. text[n] \in Tokens /\ r[k] \in Seq(Tokens)
      BY <3>1, ElementOfSeq
    <3>3. last \in Seq(Tokens)
      BY <3>2, AppendProperties
    <3>4. Add(n, r) = [r EXCEPT ![k] = last]
      BY <2>2
    <3> HIDE DEF k, last
    <3>5. [r EXCEPT ![k] = last] \in [1 .. k -> Seq(Tokens)]
      BY <3>1, <3>3
    <3> QED
      BY <3>1, <3>4, <3>5 DEF LineLists
  <2> QED
    BY <2>1, <2>2
<1> HIDE DEF L, S, start, Add
<1>5. step \in [1 .. L -> [S -> S]]
  BY <1>4
<1>6. \A n \in 1 .. L, r \in S : step[n][r] = Add(n, r)
  OBVIOUS
<1> HIDE DEF step
<1>7. PICK g \in [0 .. L -> S] : Looped(g, start, L, step)
  BY <1>1, <1>3, <1>5, LoopRuns
<1>8. g = [n \in 0 .. L |-> IF n = 0 THEN start ELSE Add(n, g[n - 1])]
  BY <1>1, <1>6, <1>7 DEF Looped
<1>9. f = [n \in 0 .. L |-> IF n = 0 THEN start ELSE Add(n, f[n - 1])]
  BY <1>8
<1> HIDE DEF f
<1>10. Follows(f, S, start, L, step)
  BY <1>1, <1>6, <1>9 DEF Follows
<1>11. \A n \in 0 .. L : f[n] \in S
  BY <1>1, <1>3, <1>5, <1>10, LoopStays
<1>12. f[0] = start /\ \A n \in 1 .. L : f[n] = Add(n, f[n - 1])
  BY <1>1, <1>9
<1>13. LinesRun(f, text)
  BY <1>11, <1>12 DEF LinesRun, S, L, start, none, Add
<1> QED
  BY <1>2, <1>13 DEF L

\* A text has lines.
LEMMA LinesTyped ==
  ASSUME NEW text \in Seq(Tokens)
  PROVE  Lines(text) \in Seq(Seq(Tokens))
<1>1. PICK f : LinesRun(f, text) /\ Lines(text) = f[Len(text)]
  BY LinesLoop
<1>2. Len(text) \in 0 .. Len(text)
  BY LenProperties
<1> QED
  BY <1>1, <1>2 DEF LinesRun, LineLists

\* No space at the ends of a line or beside another.
Neat(line) ==
  \A j \in 1 .. Len(line) :
    line[j] = Space => j \notin {1, Len(line)} /\ line[j + 1] # Space

NeatLines == {line \in Seq(Tokens) : Neat(line)}

\* One token keeps the line neat.
LEMMA CollapseStep ==
  ASSUME NEW s \in [line : NeatLines, gap : BOOLEAN], s.gap => s.line # <<>>, NEW token \in Tokens
  PROVE  /\ Collapse(s, token) \in [line : NeatLines, gap : BOOLEAN]
         /\ Collapse(s, token).gap => Collapse(s, token).line # <<>>
<1> DEFINE line == s.line
           L == Len(line)
           none == <<>>
<1>1. line \in Seq(Tokens) /\ L \in Nat /\ (line = none <=> L = 0)
  BY LenProperties, EmptySeq DEF NeatLines
<1>2. \A j \in 1 .. L : line[j] = Space => j \notin {1, L} /\ line[j + 1] # Space
  BY DEF NeatLines, Neat
<1>3. CASE token = Space
  <2>1. Collapse(s, token) = [line |-> s.line, gap |-> (s.line # <<>>)]
    BY <1>3 DEF Collapse
  <2> QED
    BY <2>1
<1>4. CASE token # Space /\ ~s.gap
  <2> DEFINE new == Append(line, token)
  <2>1. Collapse(s, token) = [line |-> new, gap |-> FALSE]
    BY <1>4 DEF Collapse
  <2>2. /\ new \in Seq(Tokens) /\ Len(new) = L + 1 /\ new[L + 1] = token
        /\ \A j \in 1 .. L : new[j] = line[j]
    BY <1>1, AppendProperties
  <2> HIDE DEF new, L, line
  <2>3. ASSUME NEW j \in 1 .. L + 1, new[j] = Space
        PROVE  j \notin {1, L + 1} /\ new[j + 1] # Space
    <3>1. j \in 1 .. L /\ line[j] = Space
      BY <1>1, <1>4, <2>2, <2>3
    <3>2. j \notin {1, L} /\ line[j + 1] # Space /\ j + 1 \in 1 .. L
      BY <1>1, <1>2, <3>1
    <3> QED
      BY <1>1, <2>2, <3>1, <3>2
  <2>4. new \in NeatLines
    BY <2>2, <2>3 DEF NeatLines, Neat
  <2> QED
    BY <2>1, <2>4
<1>5. CASE token # Space /\ s.gap
  <2> DEFINE tail == <<Space, token>>
             new == line \o tail
  <2>0. tail \in Seq(Tokens) /\ Len(tail) = 2 /\ tail[1] = Space /\ tail[2] = token
    <3>1. Space \in Tokens
      BY DEF Tokens, Blanks
    <3> QED
      BY <3>1
  <2>1. Collapse(s, token) = [line |-> new, gap |-> FALSE]
    BY <1>5 DEF Collapse
  <2> HIDE DEF tail
  <2>2. /\ new \in Seq(Tokens) /\ Len(new) = L + 2
        /\ \A j \in 1 .. L + 2 : new[j] = IF j <= L THEN line[j] ELSE tail[j - L]
    <3> HIDE DEF line
    <3>1. /\ new \in Seq(Tokens) /\ Len(new) = Len(line) + Len(tail)
          /\ \A j \in 1 .. Len(line) + Len(tail) :
               new[j] = IF j <= Len(line) THEN line[j] ELSE tail[j - Len(line)]
      <4>1. line \in Seq(Tokens)
        BY <1>1
      <4> QED
        BY <2>0, <4>1, ConcatProperties, Zenon
    <3> HIDE DEF new
    <3> QED
      BY <2>0, <3>1
  <2> HIDE DEF new
  <2>3. L # 0
    BY <1>1, <1>5
  <2> HIDE DEF L, line
  <2>4. new[L + 1] = Space /\ new[L + 2] = token /\ \A j \in 1 .. L : new[j] = line[j]
    BY <1>1, <2>0, <2>2
  <2>5. ASSUME NEW j \in 1 .. L + 2, new[j] = Space
        PROVE  j \notin {1, L + 2} /\ new[j + 1] # Space
    <3>1. j # L + 2
      BY <1>5, <2>4, <2>5
    <3>2. CASE j = L + 1
      <4>1. j + 1 = L + 2 /\ j # 1
        BY <1>1, <2>3, <3>2
      <4> QED
        BY <1>5, <2>4, <3>1, <4>1
    <3>3. CASE j # L + 1
      <4>1. j \in 1 .. L /\ line[j] = Space
        BY <1>1, <2>4, <2>5, <3>1, <3>3
      <4>2. j \notin {1, L} /\ line[j + 1] # Space /\ j + 1 \in 1 .. L
        BY <1>1, <1>2, <4>1
      <4> QED
        BY <1>1, <2>4, <4>1, <4>2
    <3> QED
      BY <3>2, <3>3
  <2>6. new \in NeatLines
    BY <2>2, <2>5 DEF NeatLines, Neat
  <2> QED
    BY <2>1, <2>6
<1> QED
  BY <1>3, <1>4, <1>5

\* f[n] is the state of collapse_spaces after n tokens of a line.
CollapseStates == {s \in [line : NeatLines, gap : BOOLEAN] : s.gap => s.line # <<>>}

CollapseRun(f, line) ==
  /\ \A n \in 0 .. Len(line) : f[n] \in CollapseStates
  /\ f[0] = [line |-> <<>>, gap |-> FALSE]
  /\ \A n \in 1 .. Len(line) : f[n] = Collapse(f[n - 1], line[n])

\* collapse_spaces goes through such states.
LEMMA CollapseLoop ==
  ASSUME NEW line \in Seq(Tokens)
  PROVE  \E f : CollapseRun(f, line) /\ CollapseSpaces(line) = f[Len(line)].line
<1> DEFINE L == Len(line)
           none == <<>>
           start == [line |-> none, gap |-> FALSE]
           S == CollapseStates
           step == [n \in 1 .. L |-> [s \in S |-> Collapse(s, line[n])]]
           f == CHOOSE f : f = [n \in 0 .. L |-> IF n = 0 THEN start ELSE Collapse(f[n - 1], line[n])]
<1>1. L \in Nat /\ none \in Seq(Tokens) /\ Len(none) = 0
  BY LenProperties, EmptySeq
<1>2. CollapseSpaces(line) = f[L].line
  BY DEF CollapseSpaces, Collapsed
<1> HIDE DEF none
<1>3. start \in S
  BY <1>1 DEF NeatLines, Neat, CollapseStates
<1>4. ASSUME NEW n \in 1 .. L, NEW s \in S PROVE Collapse(s, line[n]) \in S
  <2>1. line[n] \in Tokens
    BY ElementOfSeq
  <2> QED
    BY <2>1, CollapseStep DEF CollapseStates
<1> HIDE DEF L, S, start
<1>5. step \in [1 .. L -> [S -> S]]
  BY <1>4
<1>6. \A n \in 1 .. L, s \in S : step[n][s] = Collapse(s, line[n])
  OBVIOUS
<1> HIDE DEF step
<1>7. PICK g \in [0 .. L -> S] : Looped(g, start, L, step)
  BY <1>1, <1>3, <1>5, LoopRuns
<1>8. g = [n \in 0 .. L |-> IF n = 0 THEN start ELSE Collapse(g[n - 1], line[n])]
  BY <1>1, <1>6, <1>7 DEF Looped
<1>9. f = [n \in 0 .. L |-> IF n = 0 THEN start ELSE Collapse(f[n - 1], line[n])]
  BY <1>8
<1> HIDE DEF f
<1>10. Follows(f, S, start, L, step)
  BY <1>1, <1>6, <1>9 DEF Follows
<1>11. \A n \in 0 .. L : f[n] \in S
  BY <1>1, <1>3, <1>5, <1>10, LoopStays
<1>12. f[0] = start /\ \A n \in 1 .. L : f[n] = Collapse(f[n - 1], line[n])
  BY <1>1, <1>9
<1>13. CollapseRun(f, line)
  BY <1>11, <1>12 DEF CollapseRun, S, L, start, none
<1> QED
  BY <1>2, <1>13 DEF L

\* Of any line, trim and collapse_spaces make a neat one.
LEMMA CollapseSpacesNeat ==
  ASSUME NEW line \in Seq(Tokens)
  PROVE  CollapseSpaces(line) \in NeatLines
<1>1. PICK f : CollapseRun(f, line) /\ CollapseSpaces(line) = f[Len(line)].line
  BY CollapseLoop
<1>2. Len(line) \in 0 .. Len(line)
  BY LenProperties
<1> QED
  BY <1>1, <1>2 DEF CollapseRun, CollapseStates

\* No blank line at the top, and no two in a row.
Spaced(lines) ==
  /\ lines # <<>> => lines[1] # <<>>
  /\ \A i \in 1 .. Len(lines) - 1 : lines[i] # <<>> \/ lines[i + 1] # <<>>

\* The states of tidy's loop: blankRun counts the blank lines seen last.
TidyStates ==
  {s \in [lines : Seq(NeatLines), blankRun : Nat] :
     /\ Spaced(s.lines)
     /\ s.lines # <<>> /\ s.lines[Len(s.lines)] = <<>> => s.blankRun > 0}

\* One turn of the loop (tidy).
LEMMA AddLineStep ==
  ASSUME NEW s \in TidyStates, NEW line \in NeatLines
  PROVE  AddLine(s, line) \in TidyStates
<1> DEFINE lines == s.lines
           L == Len(lines)
           none == <<>>
           new == Append(lines, line)
           t == AddLine(s, line)
<1>1. lines \in Seq(NeatLines) /\ L \in Nat /\ s.blankRun \in Nat /\ (lines = none <=> L = 0)
  BY LenProperties, EmptySeq DEF TidyStates
<1>2. /\ L # 0 => lines[1] # none
      /\ \A i \in 1 .. L - 1 : lines[i] # none \/ lines[i + 1] # none
      /\ L # 0 /\ lines[L] = none => s.blankRun > 0
  BY <1>1 DEF TidyStates, Spaced
<1>3. /\ new \in Seq(NeatLines) /\ Len(new) = L + 1 /\ new[L + 1] = line
      /\ \A i \in 1 .. L : new[i] = lines[i]
  BY <1>1, AppendProperties
<1>4. /\ t.lines = IF line = none /\ (s.blankRun >= 1 \/ lines = none) THEN lines ELSE new
      /\ t.blankRun = IF line = none THEN s.blankRun + 1 ELSE 0
      /\ t = [lines |-> t.lines, blankRun |-> t.blankRun]
  BY DEF AddLine
<1>5. new # none
  <2>1. \A q \in Seq(NeatLines) : q = none <=> Len(q) = 0
    BY EmptySeq
  <2> HIDE DEF new, L
  <2> QED
    BY <1>1, <1>3, <2>1
<1> HIDE DEF lines, L, new, t, none
<1>6. CASE line = none /\ (s.blankRun >= 1 \/ lines = none)
  <2>1. t.lines = lines /\ t.blankRun \in Nat /\ t.blankRun > 0
    BY <1>1, <1>4, <1>6
  <2>2. Spaced(t.lines)
    BY <2>1 DEF TidyStates, lines
  <2> QED
    BY <1>1, <1>4, <2>1, <2>2 DEF TidyStates, t
<1>7. CASE ~(line = none /\ (s.blankRun >= 1 \/ lines = none))
  <2>1. t.lines = new /\ t.blankRun \in Nat /\ (line = none => t.blankRun > 0)
    BY <1>1, <1>4, <1>7
  <2>2. new[1] # none
    <3>1. CASE L = 0
      BY <1>1, <1>3, <1>7, <3>1
    <3>2. CASE L # 0
      <4>1. 1 \in 1 .. L
        BY <1>1, <3>2
      <4> QED
        BY <1>2, <1>3, <3>2, <4>1
    <3> QED
      BY <3>1, <3>2
  <2>3. ASSUME NEW i \in 1 .. Len(new) - 1 PROVE new[i] # none \/ new[i + 1] # none
    <3>1. i \in 1 .. L /\ new[i] = lines[i]
      BY <1>1, <1>3
    <3>2. CASE i = L
      <4>1. CASE line # none
        BY <1>3, <3>2, <4>1
      <4>2. CASE line = none
        <5>1. ~(s.blankRun > 0) /\ L # 0
          BY <1>1, <1>7, <3>1, <4>2
        <5> QED
          BY <1>2, <3>1, <3>2, <5>1
      <4> QED
        BY <4>1, <4>2
    <3>3. CASE i # L
      <4>1. i \in 1 .. L - 1 /\ i + 1 \in 1 .. L
        BY <1>1, <3>1, <3>3
      <4> QED
        BY <1>2, <1>3, <3>1, <4>1
    <3> QED
      BY <3>2, <3>3
  <2>4. Spaced(new)
    BY <2>2, <2>3 DEF Spaced, none
  <2>5. t.lines[Len(t.lines)] = none => t.blankRun > 0
    BY <1>3, <2>1
  <2>6. t.lines \in Seq(NeatLines) /\ Spaced(t.lines)
    BY <1>3, <2>1, <2>4
  <2>7. t \in TidyStates
    BY <1>4, <2>1, <2>5, <2>6 DEF TidyStates, none
  <2> QED
    BY <2>7 DEF t
<1> QED
  BY <1>6, <1>7

\* f[n] is the state of tidy's loop after n lines.
AddRun(f, lines) ==
  /\ \A n \in 0 .. Len(lines) : f[n] \in TidyStates
  /\ f[0] = [lines |-> <<>>, blankRun |-> 0]
  /\ \A n \in 1 .. Len(lines) : f[n] = AddLine(f[n - 1], CollapseSpaces(lines[n]))

\* The loop over the lines of a text goes through such states (tidy).
LEMMA AddLoop ==
  ASSUME NEW lines \in Seq(Seq(Tokens))
  PROVE  AddRun(Added(lines), lines)
<1> DEFINE L == Len(lines)
           none == <<>>
           start == [lines |-> none, blankRun |-> 0]
           S == TidyStates
           Add(s, n) == AddLine(s, CollapseSpaces(lines[n]))
           step == [n \in 1 .. L |-> [s \in S |-> Add(s, n)]]
           f == CHOOSE f : f = [n \in 0 .. L |-> IF n = 0 THEN start ELSE Add(f[n - 1], n)]
<1>1. L \in Nat /\ none \in Seq(NeatLines) /\ Len(none) = 0
  BY LenProperties, EmptySeq
<1>2. Added(lines) = f
  BY DEF Added
<1>3. start \in S
  <2>1. Spaced(none)
    BY <1>1 DEF Spaced
  <2>2. start.lines = <<>> /\ start.lines = none
    OBVIOUS
  <2> HIDE DEF none
  <2> QED
    BY <1>1, <2>1, <2>2 DEF TidyStates
<1>4. ASSUME NEW n \in 1 .. L, NEW s \in S PROVE Add(s, n) \in S
  <2>1. lines[n] \in Seq(Tokens)
    BY ElementOfSeq
  <2> QED
    BY <2>1, CollapseSpacesNeat, AddLineStep
<1> HIDE DEF L, S, start, none, Add
<1>5. step \in [1 .. L -> [S -> S]]
  BY <1>4
<1>6. \A n \in 1 .. L, s \in S : step[n][s] = Add(s, n)
  OBVIOUS
<1> HIDE DEF step
<1>7. PICK g \in [0 .. L -> S] : Looped(g, start, L, step)
  BY <1>1, <1>3, <1>5, LoopRuns
<1>8. g = [n \in 0 .. L |-> IF n = 0 THEN start ELSE Add(g[n - 1], n)]
  BY <1>1, <1>6, <1>7 DEF Looped
<1>9. f = [n \in 0 .. L |-> IF n = 0 THEN start ELSE Add(f[n - 1], n)]
  BY <1>8
<1> HIDE DEF f
<1>10. Follows(f, S, start, L, step)
  BY <1>1, <1>6, <1>9 DEF Follows
<1>11. \A n \in 0 .. L : f[n] \in S
  BY <1>1, <1>3, <1>5, <1>10, LoopStays
<1>12. AddRun(f, lines)
  BY <1>1, <1>9, <1>11 DEF AddRun, S, L, start, none, Add
<1> QED
  BY <1>2, <1>12

LEMMA AddedIsTidy ==
  ASSUME NEW lines \in Seq(Seq(Tokens))
  PROVE  Added(lines)[Len(lines)] \in TidyStates
<1>1. AddRun(Added(lines), lines)
  BY AddLoop
<1>2. Len(lines) \in 0 .. Len(lines)
  BY LenProperties
<1> QED
  BY <1>1, <1>2 DEF AddRun

\* A set of numbers up to n has a greatest one, its Max.
LEMMA MaxIsGreatest ==
  ASSUME NEW n \in Nat, NEW T \in SUBSET (1 .. n), T # {}
  PROVE  Max(T) \in T /\ \A j \in T : j <= Max(T)
<1> DEFINE D == {n - i : i \in T}
<1>0. \A i \in T : i \in 1 .. n /\ n - i \in Nat /\ n - i \in D
  OBVIOUS
<1>1. D \in SUBSET Nat /\ D # {}
  BY <1>0
<1>2. PICK d \in D : \A e \in D : d <= e
  BY <1>1, LeastExists
<1>3. PICK a \in T : d = n - a
  OBVIOUS
<1>4. ASSUME NEW j \in T PROVE j <= a
  <2>1. n - a <= n - j
    BY <1>0, <1>2, <1>3
  <2> QED
    BY <1>0, <2>1
<1>5. T \in SUBSET Nat
  OBVIOUS
<1> HIDE DEF D
<1>6. Max(T) = a
  BY <1>4, <1>5, BoundIsMax
<1> QED
  BY <1>4, <1>6

\* Whatever the text, what tidy makes of it is neat and spaced, and does not end
\* with a blank line.
LEMMA TidyIsTidy ==
  ASSUME NEW text \in Seq(Tokens)
  PROVE  /\ Tidy(text) \in Seq(NeatLines) /\ Spaced(Tidy(text))
         /\ Tidy(text) # <<>> => Tidy(text)[Len(Tidy(text))] # <<>>
<1> DEFINE lines == Lines(text)
           kept == Added(lines)[Len(lines)].lines
           used == {i \in 1 .. Len(kept) : kept[i] # <<>>}
           none == <<>>
           m == Max(used)
           cut == SubSeq(kept, 1, m)
<1>1. kept \in Seq(NeatLines) /\ Spaced(kept)
  <2>1. Added(lines)[Len(lines)] \in TidyStates
    BY LinesTyped, AddedIsTidy
  <2> HIDE DEF lines
  <2> QED
    BY <2>1 DEF TidyStates
<1>2. Tidy(text) = IF used = {} THEN none ELSE cut
  BY DEF Tidy
<1> HIDE DEF kept
<1>3. CASE used = {}
  <2>1. none \in Seq(NeatLines) /\ Len(none) = 0
    BY EmptySeq
  <2>2. Spaced(none)
    BY <2>1 DEF Spaced
  <2> QED
    BY <1>2, <1>3, <2>1, <2>2
<1>4. CASE used # {}
  <2>0. Len(kept) \in Nat
    BY <1>1, LenProperties
  <2>1. m \in used /\ m \in 1 .. Len(kept)
    <3>1. used \in SUBSET (1 .. Len(kept))
      OBVIOUS
    <3>2. m \in used
      BY <1>4, <2>0, <3>1, MaxIsGreatest
    <3> QED
      BY <3>1, <3>2
  <2>2. kept[m] # <<>>
    BY <2>1
  <2> HIDE DEF m, used
  <2>3. /\ cut \in Seq(NeatLines) /\ Len(cut) = m
        /\ \A i \in 1 .. m : cut[i] = kept[i]
    <3>1. m \in Nat \ {0} /\ \A i \in 1 .. m : kept[i] \in NeatLines
      BY <1>1, <2>0, <2>1, ElementOfSeq
    <3>2. /\ cut \in Seq(NeatLines) /\ Len(cut) = m - 1 + 1
          /\ \A i \in 1 .. m - 1 + 1 : cut[i] = kept[1 + i - 1]
      BY <3>1, SubSeqProperties
    <3> HIDE DEF cut
    <3> QED
      BY <3>1, <3>2
  <2> HIDE DEF cut
  <2>4. cut[1] # <<>>
    <3>1. kept # <<>>
      <4>1. Len(kept) # 0
        BY <2>0, <2>1
      <4> QED
        BY <1>1, <4>1, EmptySeq
    <3> QED
      BY <1>1, <2>0, <2>1, <2>3, <3>1 DEF Spaced
  <2>5. ASSUME NEW i \in 1 .. Len(cut) - 1 PROVE cut[i] # <<>> \/ cut[i + 1] # <<>>
    <3>1. i \in 1 .. Len(kept) - 1 /\ i \in 1 .. m /\ i + 1 \in 1 .. m
      BY <2>0, <2>1, <2>3
    <3> QED
      BY <1>1, <2>3, <3>1 DEF Spaced
  <2>6. Spaced(cut)
    BY <2>4, <2>5 DEF Spaced
  <2>7. cut[Len(cut)] # <<>>
    BY <2>0, <2>1, <2>2, <2>3
  <2> QED
    BY <1>2, <1>4, <2>3, <2>6, <2>7
<1> QED
  BY <1>3, <1>4

\* However long and ragged the document: the text has no blank line at either
\* end and no two in a row, and no line has a space at its ends or beside another
\* (html_to_text, tidy).
THEOREM RenderedTextIsTidy == Spec => []TidyText
<1>1. Init => TidyText
  BY InitOutput DEF TidyText
<1>2. InputKnown /\ TidyText /\ [Next]_avars => TidyText'
  <2> SUFFICES ASSUME InputKnown, TidyText, [Next]_avars PROVE TidyText'
    OBVIOUS
  <2>1. CASE UNCHANGED avars
    BY <2>1 DEF avars, TidyText, Computed
  <2>2. CASE Next
    <3> SUFFICES ASSUME Computed("text")' PROVE TidyText'
      BY DEF TidyText
    <3> DEFINE out == output'.text
    <3>1. Render
      BY <2>2, NextOutput
    <3>2. out = HtmlToText(input.doc) /\ input.doc \in Seq(Tokens)
      BY <3>1, AlgorithmsAssumption DEF Render, Fresh, InputKnown
    <3>3. PICK text \in Seq(Tokens) : out = Tidy(text)
      BY <3>2, HtmlToTextTidies
    <3>4. out \in Seq(NeatLines) /\ Spaced(out) /\ (out # <<>> => out[Len(out)] # <<>>)
      BY <3>3, TidyIsTidy
    <3> HIDE DEF out
    <3>5. ASSUME NEW i \in 1 .. Len(out) PROVE Neat(out[i])
      <4>1. out[i] \in NeatLines
        BY <3>4, ElementOfSeq
      <4> QED
        BY <4>1 DEF NeatLines
    <3> QED
      BY <3>4, <3>5 DEF TidyText, Spaced, Neat, out
  <2> QED
    BY <2>1, <2>2
<1> QED
  BY <1>1, <1>2, InputKnownHolds, PTL DEF Spec, avars

-----------------------------------------------------------------------------
(***************************************************************************)
(* Trees of parts.                                                         *)
(***************************************************************************)
\* Two functions agree below a place.
AgreeBelow(P, p, g, h) == \A q \in P : Len(q) > Len(p) => g[q] = h[q]

\* step calls what it is given for longer places only.
CallsBelow(P, S, step) ==
  \A p \in P : \A g, h \in [P -> S] : AgreeBelow(P, p, g, h) => step[p][g] = step[p][h]

\* g solves the recursion.
Solves(g, P, step) == \A p \in P : g[p] = step[p][g]

\* A function that calls itself for longer places only is well defined.
LEMMA TreeRecursion ==
  ASSUME NEW P, NEW D \in Nat, \A p \in P : Len(p) \in 0 .. D,
         NEW S, NEW s0 \in S, NEW step \in [P -> [[P -> S] -> S]], CallsBelow(P, S, step)
  PROVE  \E g \in [P -> S] : Solves(g, P, step)
<1> DEFINE Right(m, g) == \A p \in P : Len(p) > D - m => g[p] = step[p][g]
           T == {m \in 0 .. D + 1 : \E g \in [P -> S] : Right(m, g)}
<1>1. 0 \in T
  <2> DEFINE g == [p \in P |-> s0]
  <2>1. g \in [P -> S]
    OBVIOUS
  <2>2. Right(0, g)
    <3>1. \A p \in P : ~(Len(p) > D - 0)
      OBVIOUS
    <3> QED
      BY <3>1
  <2> HIDE DEF g, Right
  <2> QED
    BY <2>1, <2>2
<1>2. ASSUME NEW m \in 1 .. D + 1, m - 1 \in T PROVE m \in T
  <2>1. PICK g \in [P -> S] : Right(m - 1, g)
    BY <1>2
  <2> DEFINE k == D - (m - 1)
             h == [p \in P |-> IF Len(p) = k THEN step[p][g] ELSE g[p]]
  <2>2. k \in Nat /\ D - m = k - 1
    OBVIOUS
  <2>3. \A p \in P : Len(p) > k => g[p] = step[p][g]
    BY <2>1
  <2> HIDE DEF k
  <2>4. \A p \in P : step[p][g] \in S
    OBVIOUS
  <2>5. h \in [P -> S]
    BY <2>4
  <2>6. ASSUME NEW p \in P, Len(p) > k - 1 PROVE h[p] = step[p][h]
    <3>1. AgreeBelow(P, p, g, h)
      <4>1. \A q \in P : Len(q) > Len(p) => Len(q) # k
        BY <2>2, <2>6
      <4> QED
        BY <4>1 DEF AgreeBelow
    <3>2. step[p][g] = step[p][h]
      BY <2>5, <3>1 DEF CallsBelow
    <3>3. h[p] = step[p][g]
      <4>1. CASE Len(p) = k
        BY <4>1
      <4>2. CASE Len(p) # k
        <5>1. Len(p) > k
          BY <2>2, <2>6, <4>2
        <5> QED
          BY <2>3, <4>2, <5>1
      <4> QED
        BY <4>1, <4>2
    <3> QED
      BY <3>2, <3>3
  <2> HIDE DEF h
  <2>7. Right(m, h)
    BY <2>2, <2>6
  <2> HIDE DEF Right
  <2> QED
    BY <2>5, <2>7
<1> HIDE DEF T
<1>3. \A m \in 0 .. D + 1 : m \in T
  BY <1>1, <1>2, UpTo
<1>4. D + 1 \in T
  BY <1>3
<1>5. PICK g \in [P -> S] : Right(D + 1, g)
  BY <1>4 DEF T
<1>6. \A p \in P : Len(p) > D - (D + 1)
  OBVIOUS
<1> QED
  BY <1>5, <1>6 DEF Solves

\* Induction from the leaves up.
LEMMA TreeInduction ==
  ASSUME NEW P, NEW D \in Nat, \A p \in P : Len(p) \in 0 .. D, NEW G,
         \A p \in P : (\A q \in P : Len(q) > Len(p) => q \in G) => p \in G
  PROVE  \A p \in P : p \in G
<1> DEFINE T == {m \in 0 .. D + 1 : \A p \in P : Len(p) > D - m => p \in G}
<1>1. 0 \in T
  <2>1. \A p \in P : ~(Len(p) > D - 0)
    OBVIOUS
  <2> QED
    BY <2>1
<1>2. ASSUME NEW m \in 1 .. D + 1, m - 1 \in T PROVE m \in T
  <2>1. ASSUME NEW p \in P, Len(p) > D - m PROVE p \in G
    <3>1. \A q \in P : Len(q) > Len(p) => Len(q) > D - (m - 1)
      BY <2>1
    <3>2. \A q \in P : Len(q) > Len(p) => q \in G
      BY <1>2, <3>1
    <3> QED
      BY <3>2
  <2> QED
    BY <2>1
<1> HIDE DEF T
<1>3. \A m \in 0 .. D + 1 : m \in T
  BY <1>1, <1>2, UpTo
<1>4. D + 1 \in T
  BY <1>3
<1>5. \A p \in P : Len(p) > D - (D + 1)
  OBVIOUS
<1> QED
  BY <1>4, <1>5 DEF T

\* q is p, or a part of it, or of one of its parts.
Below(p, q) == Len(p) <= Len(q) /\ \A i \in 1 .. Len(p) : q[i] = p[i]

\* The parts of p are one longer, and told apart by their number.
LEMMA BelowChild ==
  ASSUME NEW p \in Seq(Nat), NEW i \in Nat, NEW q \in Seq(Nat)
  PROVE  /\ Append(p, i) \in Seq(Nat) /\ Len(Append(p, i)) = Len(p) + 1
         /\ Below(Append(p, i), q) <=>
              Below(p, q) /\ Len(q) > Len(p) /\ q[Len(p) + 1] = i
<1> DEFINE c == Append(p, i)
           L == Len(p)
<1>1. L \in Nat /\ Len(q) \in Nat
  BY LenProperties
<1>2. /\ c \in Seq(Nat) /\ Len(c) = L + 1 /\ c[L + 1] = i
      /\ \A j \in 1 .. L : c[j] = p[j]
  BY AppendProperties
<1> HIDE DEF c, L
<1>3. ASSUME Below(c, q) PROVE Below(p, q) /\ Len(q) > L /\ q[L + 1] = i
  BY <1>1, <1>2, <1>3 DEF Below, L
<1>4. ASSUME Below(p, q), Len(q) > L, q[L + 1] = i PROVE Below(c, q)
  <2>1. ASSUME NEW j \in 1 .. L + 1 PROVE q[j] = c[j]
    <3>1. CASE j = L + 1
      BY <1>2, <1>4, <3>1
    <3>2. CASE j # L + 1
      <4>1. j \in 1 .. L
        BY <1>1, <3>2
      <4> QED
        BY <1>2, <1>4, <4>1 DEF Below, L
    <3> QED
      BY <3>1, <3>2
  <2> QED
    BY <1>1, <1>2, <1>4, <2>1 DEF Below
<1> QED
  BY <1>2, <1>3, <1>4 DEF c, L

\* What is below an earlier part comes before what is below a later one.
LEMMA EarlierPartFirst ==
  ASSUME NEW p \in Seq(Nat), NEW q \in Seq(Nat), NEW r \in Seq(Nat),
         NEW i \in Nat, NEW j \in Nat, i < j, Below(Append(p, i), q), Below(Append(p, j), r)
  PROVE  Before(q, r)
<1> DEFINE k == Len(p) + 1
<1>1. Len(p) \in Nat /\ Len(q) \in Nat /\ Len(r) \in Nat
  BY LenProperties
<1>2. Below(p, q) /\ Len(q) > Len(p) /\ q[k] = i
  BY BelowChild
<1>3. Below(p, r) /\ Len(r) > Len(p) /\ r[k] = j
  BY BelowChild
<1>4. k \in 1 .. Len(q) /\ k <= Len(r) /\ q[k] < r[k]
  BY <1>1, <1>2, <1>3
<1>5. \A n \in 1 .. k - 1 : q[n] = r[n]
  BY <1>1, <1>2, <1>3 DEF Below
<1> HIDE DEF k
<1> QED
  BY <1>4, <1>5 DEF Before

\* Of two places at most one is to the left of the other.
LEMMA BeforeIsStrict ==
  ASSUME NEW p \in Seq(Nat), NEW q \in Seq(Nat), Before(p, q), Before(q, p)
  PROVE  FALSE
<1>1. Len(p) \in Nat /\ Len(q) \in Nat
  BY LenProperties
<1>2. PICK k \in 1 .. Len(p) : k <= Len(q) /\ p[k] < q[k] /\ \A i \in 1 .. k - 1 : p[i] = q[i]
  BY DEF Before
<1>3. PICK m \in 1 .. Len(q) : m <= Len(p) /\ q[m] < p[m] /\ \A i \in 1 .. m - 1 : q[i] = p[i]
  BY DEF Before
<1>4. p[k] \in Nat /\ q[k] \in Nat /\ p[m] \in Nat /\ q[m] \in Nat
  <2>1. k \in 1 .. Len(q) /\ m \in 1 .. Len(p)
    BY <1>1, <1>2, <1>3
  <2> QED
    BY <2>1, ElementOfSeq
<1>5. ~(k < m)
  BY <1>1, <1>2, <1>3, <1>4
<1>6. ~(m < k)
  BY <1>1, <1>2, <1>3, <1>4
<1>7. k = m
  BY <1>1, <1>5, <1>6
<1> QED
  BY <1>2, <1>3, <1>4, <1>7

\* What is below a part is the part itself or below one of its parts.
LEMMA BelowIsBelowAPart ==
  ASSUME NEW D \in Nat, NEW mail, IsMessage(mail, D), NEW p \in DOMAIN mail
  PROVE  \A q \in DOMAIN mail : Below(p, q) =>
           q = p \/ \E i \in 1 .. mail[p].parts : Below(Append(p, i), q)
<1> DEFINE P == DOMAIN mail
           Apart(q) == q = p \/ \E i \in 1 .. mail[p].parts : Below(Append(p, i), q)
           T == {n \in 0 .. D : \A q \in P : Len(q) = n /\ Below(p, q) => Apart(q)}
<1>1. \A q \in P : /\ q \in Seq(Nat) /\ Len(q) \in 0 .. D /\ mail[q].parts \in Nat
                   /\ q # <<>> => \E r \in P : \E i \in 1 .. mail[r].parts : q = Append(r, i)
  <2>1. \A q \in P : q \in Seq(Nat) /\ Len(q) <= D
    BY DEF IsMessage
  <2>2. \A q \in P : Len(q) \in 0 .. D
    BY <2>1, LenProperties
  <2> QED
    BY <2>1, <2>2 DEF IsMessage
<1> HIDE DEF P
<1>2. p \in P
  BY DEF P
<1>3. ASSUME NEW q \in P, Len(q) = Len(p), Below(p, q) PROVE q = p
  <2>1. Len(p) \in Nat /\ \A i \in 1 .. Len(p) : q[i] = p[i]
    BY <1>1, <1>2, <1>3 DEF Below
  <2> QED
    BY <1>1, <1>2, <1>3, <2>1, SeqEqual
<1>4. 0 \in T
  <2>1. ASSUME NEW q \in P, Len(q) = 0, Below(p, q) PROVE q = p
    <3>1. Len(q) = Len(p)
      BY <1>1, <1>2, <2>1 DEF Below
    <3> QED
      BY <1>3, <2>1, <3>1
  <2> QED
    BY <2>1
<1>5. ASSUME NEW n \in 1 .. D, n - 1 \in T PROVE n \in T
  <2>1. ASSUME NEW q \in P, Len(q) = n, Below(p, q) PROVE Apart(q)
    <3>1. CASE Len(q) = Len(p)
      BY <1>3, <2>1, <3>1
    <3>2. CASE Len(q) # Len(p)
      <4>1. Len(q) > Len(p) /\ q \in Seq(Nat) /\ p \in Seq(Nat) /\ Len(q) # 0
        BY <1>1, <1>2, <2>1, <3>2 DEF Below
      <4>2. q # <<>>
        BY <4>1, EmptySeq
      <4>3. PICK r \in P, i \in Nat : i \in 1 .. mail[r].parts /\ q = Append(r, i)
        BY <1>1, <4>2
      <4>4. r \in Seq(Nat) /\ Len(r) \in Nat /\ Len(p) \in Nat
        BY <1>1, <1>2
      <4>5. Len(q) = Len(r) + 1 /\ \A j \in 1 .. Len(r) : q[j] = r[j]
        BY <4>3, <4>4, AppendProperties
      <4>6. Below(p, r) /\ Len(r) = n - 1
        BY <2>1, <4>1, <4>4, <4>5 DEF Below
      <4>7. CASE r = p
        <5>1. Below(p, p)
          BY <4>4 DEF Below
        <5>2. q[Len(p) + 1] = i
          BY <4>3, <4>4, <4>7, AppendProperties
        <5>3. Below(Append(p, i), q)
          BY <2>1, <4>1, <5>2, BelowChild
        <5> QED
          BY <4>3, <4>7, <5>3
      <4>8. CASE r # p
        <5>1. PICK j \in 1 .. mail[p].parts : Below(Append(p, j), r)
          BY <1>5, <4>6, <4>8
        <5>2. j \in Nat
          BY <1>1, <1>2
        <5>3. Below(p, r) /\ Len(r) > Len(p) /\ r[Len(p) + 1] = j
          BY <4>1, <4>4, <5>1, <5>2, BelowChild
        <5>4. q[Len(p) + 1] = j
          <6>1. Len(p) + 1 \in 1 .. Len(r)
            BY <4>4, <5>3
          <6> QED
            BY <4>5, <5>3, <6>1
        <5>5. Below(Append(p, j), q)
          BY <2>1, <4>1, <5>2, <5>4, BelowChild
        <5> QED
          BY <5>5
      <4> QED
        BY <4>7, <4>8
    <3> QED
      BY <3>1, <3>2
  <2> QED
    BY <2>1
<1> HIDE DEF T, Apart
<1>6. \A n \in 0 .. D : n \in T
  BY <1>4, <1>5, UpTo
<1>7. ASSUME NEW q \in P, Below(p, q) PROVE Apart(q)
  <2>1. Len(q) \in 0 .. D
    BY <1>1
  <2>2. Len(q) \in T
    BY <1>6, <2>1
  <2> QED
    BY <1>7, <2>2 DEF T
<1> QED
  BY <1>7 DEF Apart, P

\* What find_text does at one place, given what it returns for the parts.
FindOne(mail, want, p, found) ==
  IF IsLeaf(mail[p]) THEN IF Found(mail[p], want) THEN {p} ELSE {}
  ELSE LET hits == {i \in 1 .. mail[p].parts : found[Append(p, i)] # {}}
       IN  IF hits = {} THEN {} ELSE found[Append(p, Min(hits))]

\* find_text is well defined.
LEMMA FindTree ==
  ASSUME NEW D \in Nat, NEW mail, IsMessage(mail, D), NEW want
  PROVE  \A p \in DOMAIN mail :
           TextsFound(mail, want)[p] = FindOne(mail, want, p, TextsFound(mail, want))
<1> DEFINE P == DOMAIN mail
           S == SUBSET P
           step == [p \in P |-> [h \in [P -> S] |-> FindOne(mail, want, p, h)]]
           f == CHOOSE f : f = [p \in P |-> FindOne(mail, want, p, f)]
<1>1. TextsFound(mail, want) = f
  BY DEF TextsFound, FindOne
<1>2. \A p \in P : /\ p \in Seq(Nat) /\ Len(p) \in 0 .. D /\ mail[p].parts \in Nat
                   /\ \A i \in 1 .. mail[p].parts :
                        Append(p, i) \in P /\ Len(Append(p, i)) = Len(p) + 1
  BY LenProperties, AppendProperties DEF IsMessage
<1> HIDE DEF P
<1>3. ASSUME NEW p \in P, NEW h \in [P -> S], ~IsLeaf(mail[p])
      PROVE  LET hits == {i \in 1 .. mail[p].parts : h[Append(p, i)] # {}}
             IN  hits # {} => Min(hits) \in 1 .. mail[p].parts
  <2> DEFINE hits == {i \in 1 .. mail[p].parts : h[Append(p, i)] # {}}
  <2> SUFFICES ASSUME hits # {} PROVE Min(hits) \in 1 .. mail[p].parts
    OBVIOUS
  <2>1. hits \in SUBSET Nat
    BY <1>2
  <2>2. Min(hits) \in hits
    BY <2>1, MinIsLeast
  <2> QED
    BY <2>2
<1>4. ASSUME NEW p \in P, NEW h \in [P -> S] PROVE FindOne(mail, want, p, h) \in S
  <2>1. CASE IsLeaf(mail[p])
    BY <2>1 DEF FindOne
  <2>2. CASE ~IsLeaf(mail[p])
    <3> DEFINE hits == {i \in 1 .. mail[p].parts : h[Append(p, i)] # {}}
    <3>1. FindOne(mail, want, p, h) = IF hits = {} THEN {} ELSE h[Append(p, Min(hits))]
      BY <2>2 DEF FindOne
    <3>2. hits # {} => Append(p, Min(hits)) \in P
      BY <1>2, <1>3, <2>2
    <3> HIDE DEF hits
    <3> QED
      BY <3>1, <3>2
  <2> QED
    BY <2>1, <2>2
<1>5. ASSUME NEW p \in P, NEW g \in [P -> S], NEW h \in [P -> S], AgreeBelow(P, p, g, h)
      PROVE  FindOne(mail, want, p, g) = FindOne(mail, want, p, h)
  <2>1. CASE IsLeaf(mail[p])
    BY <2>1 DEF FindOne
  <2>2. CASE ~IsLeaf(mail[p])
    <3> DEFINE Hits(k) == {i \in 1 .. mail[p].parts : k[Append(p, i)] # {}}
    <3>1. \A i \in 1 .. mail[p].parts : g[Append(p, i)] = h[Append(p, i)]
      <4>1. \A i \in 1 .. mail[p].parts :
              Append(p, i) \in P /\ Len(Append(p, i)) = Len(p) + 1 /\ Len(p) \in Nat
        BY <1>2
      <4>2. \A i \in 1 .. mail[p].parts : Append(p, i) \in P /\ Len(Append(p, i)) > Len(p)
        BY <4>1
      <4> QED
        BY <1>5, <4>2 DEF AgreeBelow
    <3>2. Hits(g) = Hits(h)
      BY <3>1
    <3>3. Hits(h) # {} => Min(Hits(h)) \in 1 .. mail[p].parts
      BY <1>3, <2>2
    <3>4. \A k : FindOne(mail, want, p, k) =
                   IF Hits(k) = {} THEN {} ELSE k[Append(p, Min(Hits(k)))]
      BY <2>2 DEF FindOne
    <3> HIDE DEF Hits
    <3> QED
      BY <3>1, <3>2, <3>3, <3>4
  <2> QED
    BY <2>1, <2>2
<1>6. {} \in S
  OBVIOUS
<1> HIDE DEF S
<1>7. step \in [P -> [[P -> S] -> S]] /\ \A p \in P : \A h \in [P -> S] :
                                           step[p][h] = FindOne(mail, want, p, h)
  BY <1>4
<1> HIDE DEF step
<1>8. CallsBelow(P, S, step)
  BY <1>5, <1>7 DEF CallsBelow
<1>9. \A p \in P : Len(p) \in 0 .. D
  BY <1>2
<1>10. PICK g \in [P -> S] : Solves(g, P, step)
  BY <1>6, <1>7, <1>8, <1>9, TreeRecursion
<1>11. g = [p \in P |-> FindOne(mail, want, p, g)]
  BY <1>7, <1>10 DEF Solves
<1>12. f = [p \in P |-> FindOne(mail, want, p, f)]
  BY <1>11
<1> HIDE DEF f
<1> QED
  BY <1>1, <1>12 DEF P

\* What find_text returns at a place: the first candidate below it, if any.
IsFirstBelow(mail, want, p, found) ==
  /\ \A q \in found : q \in Candidates(mail, want) /\ Below(p, q)
  /\ found = {} => \A r \in Candidates(mail, want) : ~Below(p, r)
  /\ \A q \in found : \A r \in Candidates(mail, want) : Below(p, r) => r = q \/ Before(q, r)

LEMMA FindsFirst ==
  ASSUME NEW D \in Nat, NEW mail, IsMessage(mail, D), NEW want, want # "other"
  PROVE  \A p \in DOMAIN mail : IsFirstBelow(mail, want, p, TextsFound(mail, want)[p])
<1> DEFINE P == DOMAIN mail
           f == TextsFound(mail, want)
           C == Candidates(mail, want)
           G == {p \in P : IsFirstBelow(mail, want, p, f[p])}
<1>1. \A p \in P : /\ p \in Seq(Nat) /\ Len(p) \in 0 .. D /\ mail[p].parts \in Nat
                   /\ \A i \in 1 .. mail[p].parts :
                        Append(p, i) \in P /\ Len(Append(p, i)) = Len(p) + 1
  BY LenProperties, AppendProperties DEF IsMessage
<1>2. \A p \in P : f[p] = FindOne(mail, want, p, f)
  BY FindTree
<1>3. \A q \in C : q \in P /\ IsLeaf(mail[q]) /\ Found(mail[q], want)
  BY DEF Candidates, Leaves, Found, IsAttachment
<1>4. \A q \in P : IsLeaf(mail[q]) /\ Found(mail[q], want) => q \in C
  BY DEF Candidates, Leaves, Found, IsAttachment
<1>5. ASSUME NEW p \in P PROVE \A q \in P : Below(p, q) =>
               q = p \/ \E i \in 1 .. mail[p].parts : Below(Append(p, i), q)
  BY BelowIsBelowAPart
<1> HIDE DEF P, f, C
<1>6. ASSUME NEW p \in P, \A q \in P : Len(q) > Len(p) => q \in G PROVE p \in G
  <2>1. CASE IsLeaf(mail[p])
    <3>1. f[p] = IF Found(mail[p], want) THEN {p} ELSE {}
      BY <1>2, <2>1 DEF FindOne
    <3>2. \A r \in C : Below(p, r) => r = p
      <4>1. 1 .. mail[p].parts = {}
        BY <2>1 DEF IsLeaf
      <4> QED
        BY <1>3, <1>5, <4>1
    <3>3. Below(p, p)
      BY <1>1 DEF Below
    <3>4. IsFirstBelow(mail, want, p, f[p])
      <4>1. CASE Found(mail[p], want)
        <5>1. f[p] = {p} /\ p \in C
          BY <1>4, <2>1, <3>1, <4>1
        <5> QED
          BY <3>2, <3>3, <5>1 DEF IsFirstBelow, C
      <4>2. CASE ~Found(mail[p], want)
        <5>1. f[p] = {} /\ p \notin C
          BY <1>3, <3>1, <4>2
        <5> QED
          BY <3>2, <5>1 DEF IsFirstBelow, C
      <4> QED
        BY <4>1, <4>2
    <3> QED
      BY <3>4
  <2>2. CASE ~IsLeaf(mail[p])
    <3> DEFINE n == mail[p].parts
               hits == {i \in 1 .. n : f[Append(p, i)] # {}}
    <3>1. f[p] = IF hits = {} THEN {} ELSE f[Append(p, Min(hits))]
      BY <1>2, <2>2 DEF FindOne
    <3>2. n \in Nat /\ \A i \in 1 .. n : i \in Nat /\ Append(p, i) \in P
      BY <1>1
    <3>3. p \notin C
      BY <1>3, <2>2
    <3>4. \A r \in C : Below(p, r) => \E i \in 1 .. n : Below(Append(p, i), r)
      BY <1>3, <1>5, <3>3
    <3>5. \A i \in 1 .. n : IsFirstBelow(mail, want, Append(p, i), f[Append(p, i)])
      <4>1. \A i \in 1 .. n : Append(p, i) \in P /\ Len(Append(p, i)) = Len(p) + 1 /\ Len(p) \in Nat
        BY <1>1
      <4>2. \A i \in 1 .. n : Append(p, i) \in P /\ Len(Append(p, i)) > Len(p)
        BY <4>1
      <4> QED
        BY <1>6, <4>2
    <3>6. CASE hits = {}
      <4>1. f[p] = {} /\ \A i \in 1 .. n : f[Append(p, i)] = {}
        BY <3>1, <3>6
      <4>2. \A r \in C : ~Below(p, r)
        BY <3>4, <3>5, <4>1 DEF IsFirstBelow, C
      <4>3. IsFirstBelow(mail, want, p, f[p])
        BY <4>1, <4>2 DEF IsFirstBelow, C
      <4> QED
        BY <4>3
    <3>7. CASE hits # {}
      <4> DEFINE m == Min(hits)
                 c == Append(p, m)
      <4>1. m \in hits /\ \A i \in hits : m <= i
        <5>1. hits \in SUBSET Nat
          BY <3>2
        <5> QED
          BY <3>7, <5>1, MinIsLeast
      <4>2. m \in 1 .. n /\ f[c] # {} /\ f[p] = f[c]
        BY <3>1, <3>7, <4>1
      <4>3. \A i \in 1 .. n : i < m => f[Append(p, i)] = {}
        BY <3>2, <4>1, <4>2
      <4> HIDE DEF hits, m
      <4>4. c \in P /\ m \in Nat /\ p \in Seq(Nat)
        BY <1>1, <3>2, <4>2
      <4>5. \A q \in f[p] : q \in C /\ Below(c, q)
        BY <3>5, <4>2 DEF IsFirstBelow, C
      <4>6. \A q \in f[p] : q \in C /\ Below(p, q)
        <5>1. ASSUME NEW q \in f[p] PROVE Below(p, q)
          <6>1. q \in Seq(Nat) /\ Below(c, q)
            BY <1>1, <1>3, <4>5
          <6> QED
            BY <4>4, <6>1, BelowChild
        <5> QED
          BY <4>5, <5>1
      <4>7. ASSUME NEW q \in f[p], NEW r \in C, Below(p, r) PROVE r = q \/ Before(q, r)
        <5>1. PICK i \in 1 .. n : Below(Append(p, i), r)
          BY <3>4, <4>7
        <5>2. i \in Nat /\ q \in Seq(Nat) /\ r \in Seq(Nat)
          BY <1>1, <1>3, <3>2, <4>5
        <5>3. ~(i < m)
          BY <3>5, <4>3, <5>1 DEF IsFirstBelow, C
        <5>4. CASE i = m
          BY <3>5, <4>2, <5>1, <5>4 DEF IsFirstBelow, C
        <5>5. CASE i # m
          <6>1. m < i
            BY <4>4, <5>2, <5>3, <5>5
          <6> QED
            BY <4>4, <4>5, <5>1, <5>2, <6>1, EarlierPartFirst
        <5> QED
          BY <5>4, <5>5
      <4>8. IsFirstBelow(mail, want, p, f[p])
        BY <4>2, <4>6, <4>7 DEF IsFirstBelow, C
      <4> QED
        BY <4>8
    <3> QED
      BY <3>6, <3>7
  <2> QED
    BY <2>1, <2>2
<1> HIDE DEF G
<1>7. \A p \in P : Len(p) \in 0 .. D
  BY <1>1
<1>8. \A p \in P : p \in G
  BY <1>6, <1>7, TreeInduction
<1> QED
  BY <1>8 DEF G, P, f

\* Decoded, it is the part the reference tries.
LEMMA DecodedIsTried ==
  ASSUME NEW D \in Nat, NEW mail, IsMessage(mail, D), NEW want, want # "other"
  PROVE  Decoded(mail, FindText(mail, want)) = Tried(mail, want)
<1> DEFINE root == <<>>
           C == Candidates(mail, want)
           found == FindText(mail, want)
<1>1. root \in DOMAIN mail /\ Len(root) = 0
  BY EmptySeq DEF IsMessage
<1>2. IsFirstBelow(mail, want, root, found)
  BY <1>1, FindsFirst DEF FindText
<1>3. \A q \in C : q \in Seq(Nat) /\ Len(q) \in Nat
  BY LenProperties DEF Candidates, Leaves, IsMessage
<1> HIDE DEF root, found, C
<1>4. \A q \in C : Below(root, q)
  BY <1>1, <1>3 DEF Below
<1>5. ASSUME NEW q \in found PROVE q \in C /\ \A r \in C : r = q \/ Before(q, r)
  BY <1>2, <1>4 DEF IsFirstBelow, C
<1>6. ASSUME NEW p \in C, \A r \in C : r = p \/ Before(p, r) PROVE p \in found
  <2>1. PICK q \in found : TRUE
    BY <1>2, <1>4, <1>6 DEF IsFirstBelow, C
  <2>2. q \in C /\ (p = q \/ Before(q, p)) /\ (q = p \/ Before(p, q))
    BY <1>5, <1>6
  <2>3. q = p
    BY <1>3, <2>2, BeforeIsStrict
  <2> QED
    BY <2>3
<1>7. Decoded(mail, found) = {p \in C : mail[p].decodes /\ \A r \in C : r = p \/ Before(p, r)}
  BY <1>5, <1>6 DEF Decoded
<1> QED
  BY <1>7 DEF Tried, C, found

\* The message that was parsed.
LEMMA ParsedMessage ==
  ASSUME InputKnown, Next, Computed("parsed")'
  PROVE  /\ UNCHANGED input /\ output' = [parsed |-> Parse(input.part)]
         /\ Depth \in Nat /\ IsMessage(input.part, Depth)
<1>1. ParseMime /\ input' = input
  BY NextOutput
<1>2. input.part \in Parts /\ output' = [parsed |-> Parse(input.part)]
  <2>1. "part" \in DOMAIN input /\ output' = [parsed |-> Parse(input.part)]
    BY <1>1 DEF ParseMime, Fresh
  <2>2. input.part \in Parts
    BY <2>1 DEF InputKnown
  <2> QED
    BY <2>1, <2>2
<1>3. Depth \in Nat /\ \A mail \in Parts : IsMessage(mail, Depth)
  BY AlgorithmsAssumption, Zenon
<1> QED
  BY <1>1, <1>2, <1>3

\* For messages of any shape: plain text anywhere is preferred to HTML anywhere,
\* and of each the first part in document order that is no attachment is tried
\* (find_text, parse).
THEOREM FirstTextIsShown == Spec => []ShowsFirstText
<1>1. Init => ShowsFirstText
  BY InitOutput DEF ShowsFirstText
<1>2. InputKnown /\ ShowsFirstText /\ [Next]_avars => ShowsFirstText'
  <2> SUFFICES ASSUME InputKnown, ShowsFirstText, [Next]_avars PROVE ShowsFirstText'
    OBVIOUS
  <2>1. CASE UNCHANGED avars
    BY <2>1 DEF avars, ShowsFirstText, Computed
  <2>2. CASE Next
    <3> SUFFICES ASSUME Computed("parsed")' PROVE ShowsFirstText'
      BY DEF ShowsFirstText
    <3> DEFINE mail == input.part
    <3>1. /\ input' = input /\ output'.parsed = Parse(mail)
          /\ Depth \in Nat /\ IsMessage(mail, Depth)
      BY <2>2, ParsedMessage
    <3>2. output'.parsed.text = Shown(mail)
      BY <3>1 DEF Parse
    <3>3. /\ Decoded(mail, FindText(mail, "text/plain")) = Tried(mail, "text/plain")
          /\ Decoded(mail, FindText(mail, "text/html")) = Tried(mail, "text/html")
      BY <3>1, DecodedIsTried
    <3>4. Shown(mail) = IF Tried(mail, "text/plain") # {} THEN Tried(mail, "text/plain")
                        ELSE Tried(mail, "text/html")
      BY <3>3 DEF Shown
    <3>5. input'.part = mail
      BY <3>1
    <3> HIDE DEF mail
    <3> QED
      BY <3>2, <3>4, <3>5 DEF ShowsFirstText
  <2> QED
    BY <2>1, <2>2
<1> QED
  BY <1>1, <1>2, InputKnownHolds, PTL DEF Spec, avars

-----------------------------------------------------------------------------
(***************************************************************************)
(* collect_attachments.                                                    *)
(***************************************************************************)
\* v is one of the entries of list.
In(v, list) == \E k \in 1 .. Len(list) : list[k] = v

\* A list of places in document order.
Ordered(list) == \A i, j \in 1 .. Len(list) : i < j => Before(list[i], list[j])

\* Every entry of one list comes before every entry of the other.
AllBefore(one, other) ==
  \A i \in 1 .. Len(one), j \in 1 .. Len(other) : Before(one[i], other[j])

\* Appending a list to another.
LEMMA ConcatOrdered ==
  ASSUME NEW V, NEW s \in Seq(V), NEW t \in Seq(V)
  PROVE  /\ s \o t \in Seq(V)
         /\ \A v : In(v, s \o t) <=> In(v, s) \/ In(v, t)
         /\ Ordered(s) /\ Ordered(t) /\ AllBefore(s, t) => Ordered(s \o t)
<1> DEFINE u == s \o t
           a == Len(s)
           b == Len(t)
<1>1. a \in Nat /\ b \in Nat
  BY LenProperties
<1>2. u \in Seq(V) /\ Len(u) = a + b /\ \A i \in 1 .. a + b : u[i] = IF i <= a THEN s[i] ELSE t[i - a]
  BY ConcatProperties, Zenon
<1> HIDE DEF u
<1>3. \A i \in 1 .. a : i \in 1 .. a + b /\ u[i] = s[i]
  BY <1>1, <1>2
<1>4. ASSUME NEW i \in 1 .. b PROVE a + i \in 1 .. a + b /\ u[a + i] = t[i]
  <2>1. a + i \in 1 .. a + b /\ ~(a + i <= a) /\ (a + i) - a = i
    BY <1>1
  <2>2. u[a + i] = t[(a + i) - a]
    BY <1>2, <2>1
  <2> QED
    BY <2>1, <2>2
<1>5. \A i \in 1 .. a + b : i \in 1 .. a \/ (i - a \in 1 .. b /\ i = a + (i - a))
  BY <1>1
<1>6. ASSUME NEW v PROVE In(v, u) <=> In(v, s) \/ In(v, t)
  <2>1. ASSUME In(v, u) PROVE In(v, s) \/ In(v, t)
    <3>1. PICK k \in 1 .. a + b : u[k] = v
      BY <1>2, <2>1 DEF In
    <3>2. CASE k \in 1 .. a
      BY <1>3, <3>1, <3>2 DEF In
    <3>3. CASE k - a \in 1 .. b /\ k = a + (k - a)
      <4>1. u[a + (k - a)] = t[k - a]
        BY <1>4, <3>3
      <4>2. t[k - a] = v
        BY <3>1, <3>3, <4>1
      <4> QED
        BY <3>3, <4>2 DEF In
    <3> QED
      BY <1>5, <3>2, <3>3
  <2>2. ASSUME In(v, s) PROVE In(v, u)
    BY <1>2, <1>3, <2>2 DEF In
  <2>3. ASSUME In(v, t) PROVE In(v, u)
    BY <1>2, <1>4, <2>3 DEF In
  <2> QED
    BY <2>1, <2>2, <2>3
<1>7. ASSUME Ordered(s), Ordered(t), AllBefore(s, t) PROVE Ordered(u)
  <2>1. ASSUME NEW i \in 1 .. a + b, NEW j \in 1 .. a + b, i < j PROVE Before(u[i], u[j])
    <3>1. CASE i \in 1 .. a /\ j \in 1 .. a
      BY <1>3, <1>7, <2>1, <3>1 DEF Ordered
    <3>2. CASE i \in 1 .. a /\ j \notin 1 .. a
      <4>1. j - a \in 1 .. b /\ u[j] = t[j - a]
        BY <1>4, <1>5, <3>2
      <4> QED
        BY <1>3, <1>7, <3>2, <4>1 DEF AllBefore
    <3>3. CASE i \notin 1 .. a
      <4>1. i - a \in 1 .. b /\ u[i] = t[i - a]
        BY <1>4, <1>5, <3>3
      <4>2. j \notin 1 .. a
        BY <1>1, <2>1, <3>3
      <4>3. j - a \in 1 .. b /\ u[j] = t[j - a]
        BY <1>4, <1>5, <4>2
      <4>4. i - a < j - a
        BY <1>1, <2>1
      <4> QED
        BY <1>7, <4>1, <4>3, <4>4 DEF Ordered
    <3> QED
      BY <3>1, <3>2, <3>3
  <2> QED
    BY <1>2, <2>1 DEF Ordered
<1> QED
  BY <1>2, <1>6, <1>7 DEF u

\* The states of the loop that appends the lists one after the other.
Flattening(f, lists) ==
  \A n \in 1 .. Len(lists) : f[n] = IF n = 1 THEN lists[n] ELSE f[n - 1] \o lists[n]

\* Flattening lists is that loop.
LEMMA FlattenLoop ==
  ASSUME NEW V, NEW lists \in Seq(Seq(V)), Len(lists) # 0
  PROVE  \E f : Flattening(f, lists) /\ FlattenSeq(lists) = f[Len(lists)]
<1> DEFINE S == Seq(V)
           L == Len(lists)
           step == [n \in 1 .. L - 1 |-> [s \in S |-> s \o lists[n + 1]]]
           Turn(f) == [n \in 1 .. L |-> IF n = 1 THEN lists[n] ELSE f[n - 1] \o lists[n]]
           f == CHOOSE f : f = Turn(f)
<1>1. L \in Nat /\ L - 1 \in Nat /\ \A n \in 1 .. L : lists[n] \in S
  BY LenProperties, ElementOfSeq
<1>2. FlattenSeq(lists) = f[L]
  BY DEF FlattenSeq
<1>3. \A s \in S, t \in S : s \o t \in S
  BY ConcatProperties
<1> HIDE DEF S, L
<1>4. lists[1] \in S /\ \A n \in 1 .. L - 1 : n + 1 \in 1 .. L /\ lists[n + 1] \in S
  BY <1>1
<1>5. step \in [1 .. L - 1 -> [S -> S]]
        /\ \A n \in 1 .. L - 1 : \A s \in S : step[n][s] = s \o lists[n + 1]
  BY <1>3, <1>4
<1> HIDE DEF step
<1>6. PICK g \in [0 .. L - 1 -> S] : Looped(g, lists[1], L - 1, step)
  BY <1>1, <1>4, <1>5, LoopRuns
<1> DEFINE h == [n \in 1 .. L |-> g[n - 1]]
<1>7. ASSUME NEW n \in 1 .. L PROVE h[n] = IF n = 1 THEN lists[n] ELSE h[n - 1] \o lists[n]
  <2>1. CASE n = 1
    BY <1>6, <2>1 DEF Looped
  <2>2. CASE n # 1
    <3>1. n - 1 \in 1 .. L - 1 /\ n - 1 \in 1 .. L /\ (n - 1) - 1 \in 0 .. L - 1 /\ (n - 1) + 1 = n
      BY <1>1, <2>2
    <3>2. g[n - 1] = step[n - 1][g[(n - 1) - 1]]
      BY <1>6, <3>1 DEF Looped
    <3>3. g[(n - 1) - 1] \in S
      BY <3>1
    <3>4. step[n - 1][g[(n - 1) - 1]] = g[(n - 1) - 1] \o lists[(n - 1) + 1]
      BY <1>5, <3>1, <3>3
    <3> QED
      BY <2>2, <3>1, <3>2, <3>4
  <2> QED
    BY <2>1, <2>2
<1>8. h = Turn(h)
  BY <1>7
<1> HIDE DEF h
<1>9. f = Turn(f)
  BY <1>8
<1> HIDE DEF f
<1>10. \A n \in 1 .. L : f[n] = IF n = 1 THEN lists[n] ELSE f[n - 1] \o lists[n]
  BY <1>9
<1> QED
  BY <1>2, <1>10 DEF Flattening, L

\* The lists are ordered, and each comes before the later ones.
OrderedLists(lists) ==
  /\ \A i \in 1 .. Len(lists) : Ordered(lists[i])
  /\ \A i, j \in 1 .. Len(lists) : i < j =>
       \A v, w : In(v, lists[i]) /\ In(w, lists[j]) => Before(v, w)

\* flat has the entries of the first n lists, in order.
IsFlat(flat, V, lists, n) ==
  /\ flat \in Seq(V)
  /\ \A v : In(v, flat) <=> \E i \in 1 .. n : In(v, lists[i])
  /\ OrderedLists(lists) => Ordered(flat)

LEMMA FlattenOrdered ==
  ASSUME NEW V, NEW lists \in Seq(Seq(V))
  PROVE  IsFlat(FlattenSeq(lists), V, lists, Len(lists))
<1> DEFINE L == Len(lists)
<1>1. L \in Nat /\ \A n \in 1 .. L : lists[n] \in Seq(V)
  BY LenProperties, ElementOfSeq
<1>2. CASE L = 0
  <2> DEFINE none == <<>>
  <2>1. FlattenSeq(lists) = lists
    BY <1>2 DEF FlattenSeq
  <2>2. lists = none /\ none \in Seq(V) /\ Len(none) = 0
    BY <1>2, EmptySeq
  <2> HIDE DEF none
  <2> QED
    BY <1>2, <2>1, <2>2 DEF IsFlat, In, Ordered
<1>3. CASE L # 0
  <2>1. PICK f : Flattening(f, lists) /\ FlattenSeq(lists) = f[L]
    BY <1>3, FlattenLoop
  <2> DEFINE T == {n \in 0 .. L : n # 0 => IsFlat(f[n], V, lists, n)}
  <2>2. 0 \in T
    BY <1>1
  <2>3. ASSUME NEW n \in 1 .. L, n - 1 \in T PROVE n \in T
    <3>1. CASE n = 1
      <4>1. f[n] = lists[n]
        BY <2>1, <3>1 DEF Flattening
      <4>2. IsFlat(f[n], V, lists, n)
        BY <1>1, <3>1, <4>1 DEF IsFlat, OrderedLists
      <4> QED
        BY <4>2
    <3>2. CASE n # 1
      <4> DEFINE s == f[n - 1]
                 t == lists[n]
      <4>1. f[n] = s \o t
        BY <2>1, <3>2 DEF Flattening
      <4>2. n - 1 # 0 /\ 1 .. n = 1 .. (n - 1) \cup {n} /\ \A i \in 1 .. n - 1 : i \in 1 .. L /\ i < n
        BY <1>1, <3>2
      <4>3. IsFlat(s, V, lists, n - 1)
        BY <2>3, <4>2
      <4>4. s \in Seq(V) /\ t \in Seq(V)
        BY <1>1, <4>3 DEF IsFlat
      <4> HIDE DEF s, t
      <4>5. /\ s \o t \in Seq(V)
            /\ \A v : In(v, s \o t) <=> In(v, s) \/ In(v, t)
            /\ Ordered(s) /\ Ordered(t) /\ AllBefore(s, t) => Ordered(s \o t)
        BY <4>4, ConcatOrdered
      <4> DEFINE u == s \o t
      <4> HIDE DEF u
      <4>6. \A v : In(v, u) <=> \E i \in 1 .. n : In(v, lists[i])
        BY <4>2, <4>3, <4>5 DEF IsFlat, t, u
      <4>7. ASSUME OrderedLists(lists) PROVE Ordered(u)
        <5>1. Ordered(s) /\ Ordered(t)
          BY <4>3, <4>7 DEF IsFlat, OrderedLists, t
        <5>2. ASSUME NEW i \in 1 .. Len(s), NEW j \in 1 .. Len(t) PROVE Before(s[i], t[j])
          <6>1. In(s[i], s) /\ In(t[j], t)
            BY DEF In
          <6>2. PICK k \in 1 .. n - 1 : In(s[i], lists[k])
            BY <4>3, <6>1 DEF IsFlat
          <6> QED
            BY <4>2, <4>7, <6>1, <6>2 DEF OrderedLists, t
        <5> QED
          BY <4>5, <5>1, <5>2 DEF AllBefore, u
      <4>8. IsFlat(f[n], V, lists, n)
        BY <4>1, <4>5, <4>6, <4>7 DEF IsFlat, u
      <4> QED
        BY <4>8
    <3> QED
      BY <3>1, <3>2
  <2> HIDE DEF T
  <2>4. \A n \in 0 .. L : n \in T
    BY <1>1, <2>2, <2>3, UpTo
  <2>5. L \in T
    BY <1>1, <2>4
  <2> QED
    BY <1>3, <2>1, <2>5 DEF T
<1> QED
  BY <1>2, <1>3

\* What collect_attachments does at one place, given what it collects from the
\* parts.
CollectOne(mail, p, collected) ==
  IF IsLeaf(mail[p]) THEN IF IsAttachment(mail[p]) THEN <<p>> ELSE <<>>
  ELSE FlattenSeq([i \in 1 .. mail[p].parts |-> collected[Append(p, i)]])

\* collect_attachments is well defined.
LEMMA CollectTree ==
  ASSUME NEW D \in Nat, NEW mail, IsMessage(mail, D)
  PROVE  \A p \in DOMAIN mail : Collected(mail)[p] = CollectOne(mail, p, Collected(mail))
<1> DEFINE P == DOMAIN mail
           S == Seq(P)
           none == <<>>
           step == [p \in P |-> [h \in [P -> S] |-> CollectOne(mail, p, h)]]
           f == CHOOSE f : f = [p \in P |-> CollectOne(mail, p, f)]
<1>1. Collected(mail) = f
  BY DEF Collected, CollectOne
<1>2. \A p \in P : /\ p \in Seq(Nat) /\ Len(p) \in 0 .. D /\ mail[p].parts \in Nat
                   /\ \A i \in 1 .. mail[p].parts :
                        Append(p, i) \in P /\ Len(Append(p, i)) = Len(p) + 1
  BY LenProperties, AppendProperties DEF IsMessage
<1>3. none \in S
  BY EmptySeq
<1> HIDE DEF P
<1>4. ASSUME NEW p \in P, NEW h \in [P -> S]
      PROVE  [i \in 1 .. mail[p].parts |-> h[Append(p, i)]] \in Seq(S)
  <2> DEFINE n == mail[p].parts
  <2>1. n \in Nat /\ \A i \in 1 .. n : h[Append(p, i)] \in S
    BY <1>2
  <2> HIDE DEF n, S
  <2>2. [i \in 1 .. n |-> h[Append(p, i)]] \in Seq(S)
    BY <2>1, IsASeq
  <2> QED
    BY <2>2 DEF n
<1>5. ASSUME NEW p \in P, NEW h \in [P -> S] PROVE CollectOne(mail, p, h) \in S
  <2>1. CASE IsLeaf(mail[p])
    BY <1>3, <2>1 DEF CollectOne
  <2>2. CASE ~IsLeaf(mail[p])
    <3> DEFINE lists == [i \in 1 .. mail[p].parts |-> h[Append(p, i)]]
    <3>1. lists \in Seq(S)
      BY <1>4
    <3>2. CollectOne(mail, p, h) = FlattenSeq(lists)
      BY <2>2 DEF CollectOne
    <3> HIDE DEF lists
    <3>3. IsFlat(FlattenSeq(lists), P, lists, Len(lists))
      BY <3>1, FlattenOrdered
    <3> QED
      BY <3>2, <3>3 DEF IsFlat
  <2> QED
    BY <2>1, <2>2
<1>6. ASSUME NEW p \in P, NEW g \in [P -> S], NEW h \in [P -> S], AgreeBelow(P, p, g, h)
      PROVE  CollectOne(mail, p, g) = CollectOne(mail, p, h)
  <2> DEFINE Lists(k) == [i \in 1 .. mail[p].parts |-> k[Append(p, i)]]
  <2>1. \A i \in 1 .. mail[p].parts :
          Append(p, i) \in P /\ Len(Append(p, i)) = Len(p) + 1 /\ Len(p) \in Nat
    BY <1>2
  <2>2. \A i \in 1 .. mail[p].parts : Append(p, i) \in P /\ Len(Append(p, i)) > Len(p)
    BY <2>1
  <2>3. \A i \in 1 .. mail[p].parts : g[Append(p, i)] = h[Append(p, i)]
    BY <1>6, <2>2 DEF AgreeBelow
  <2>4. Lists(g) = Lists(h)
    BY <2>3
  <2>5. \A k : CollectOne(mail, p, k) =
                IF IsLeaf(mail[p]) THEN IF IsAttachment(mail[p]) THEN <<p>> ELSE <<>>
                ELSE FlattenSeq(Lists(k))
    BY DEF CollectOne
  <2> HIDE DEF Lists
  <2> QED
    BY <2>4, <2>5
<1> HIDE DEF S
<1>7. step \in [P -> [[P -> S] -> S]] /\ \A p \in P : \A h \in [P -> S] :
                                           step[p][h] = CollectOne(mail, p, h)
  BY <1>5
<1> HIDE DEF step
<1>8. CallsBelow(P, S, step)
  BY <1>6, <1>7 DEF CallsBelow
<1>9. \A p \in P : Len(p) \in 0 .. D
  BY <1>2
<1> HIDE DEF none
<1>10. PICK g \in [P -> S] : Solves(g, P, step)
  BY <1>3, <1>7, <1>8, <1>9, TreeRecursion
<1>11. g = [p \in P |-> CollectOne(mail, p, g)]
  BY <1>7, <1>10 DEF Solves
<1>12. f = [p \in P |-> CollectOne(mail, p, f)]
  BY <1>11
<1> HIDE DEF f
<1>13. \A p \in P : f[p] = CollectOne(mail, p, f)
  BY <1>12
<1> QED
  BY <1>1, <1>13 DEF P

\* list names the attachments below p, each once and in document order.
NamesAll(mail, p, list) ==
  /\ list \in Seq(DOMAIN mail)
  /\ \A v : In(v, list) <=> v \in Attachments(mail) /\ Below(p, v)
  /\ Ordered(list)

\* What collect_attachments collects at a place.
LEMMA CollectsAttachments ==
  ASSUME NEW D \in Nat, NEW mail, IsMessage(mail, D)
  PROVE  \A p \in DOMAIN mail : NamesAll(mail, p, Collected(mail)[p])
<1> DEFINE P == DOMAIN mail
           A == Attachments(mail)
           f == Collected(mail)
           G == {p \in P : NamesAll(mail, p, f[p])}
<1>1. \A p \in P : /\ p \in Seq(Nat) /\ Len(p) \in 0 .. D /\ mail[p].parts \in Nat
                   /\ \A i \in 1 .. mail[p].parts :
                        Append(p, i) \in P /\ Len(Append(p, i)) = Len(p) + 1
  BY LenProperties, AppendProperties DEF IsMessage
<1>2. \A p \in P : f[p] = CollectOne(mail, p, f)
  BY CollectTree
<1>3. \A v : v \in A <=> v \in P /\ IsLeaf(mail[v]) /\ IsAttachment(mail[v])
  BY DEF Attachments, Leaves, IsAttachment
<1>4. ASSUME NEW p \in P PROVE \A q \in P : Below(p, q) =>
               q = p \/ \E i \in 1 .. mail[p].parts : Below(Append(p, i), q)
  BY BelowIsBelowAPart
<1> HIDE DEF P, A, f
<1>5. ASSUME NEW p \in P, \A q \in P : Len(q) > Len(p) => q \in G PROVE p \in G
  <2>1. CASE IsLeaf(mail[p])
    <3> DEFINE none == <<>>
               one == <<p>>
    <3>1. f[p] = IF IsAttachment(mail[p]) THEN one ELSE none
      BY <1>2, <2>1 DEF CollectOne
    <3>2. \A v \in A : Below(p, v) => v = p
      <4>1. 1 .. mail[p].parts = {}
        BY <2>1 DEF IsLeaf
      <4> QED
        BY <1>3, <1>4, <4>1
    <3>3. Below(p, p)
      BY <1>1 DEF Below
    <3>4. /\ none \in Seq(P) /\ Len(none) = 0
          /\ one \in Seq(P) /\ Len(one) = 1 /\ one[1] = p
      BY EmptySeq
    <3> HIDE DEF none, one
    <3>5. NamesAll(mail, p, f[p])
      <4>1. CASE IsAttachment(mail[p])
        <5>1. f[p] = one /\ p \in A
          BY <1>3, <2>1, <3>1, <4>1
        <5>2. \A v : In(v, one) <=> v = p
          BY <3>4 DEF In
        <5>3. Ordered(one)
          BY <3>4 DEF Ordered
        <5> QED
          BY <3>2, <3>3, <3>4, <5>1, <5>2, <5>3 DEF NamesAll, A, P
      <4>2. CASE ~IsAttachment(mail[p])
        <5>1. f[p] = none /\ p \notin A
          BY <1>3, <3>1, <4>2
        <5>2. \A v : ~In(v, none)
          BY <3>4 DEF In
        <5>3. Ordered(none)
          BY <3>4 DEF Ordered
        <5> QED
          BY <3>2, <3>4, <5>1, <5>2, <5>3 DEF NamesAll, A, P
      <4> QED
        BY <4>1, <4>2
    <3> QED
      BY <3>5
  <2>2. CASE ~IsLeaf(mail[p])
    <3> DEFINE n == mail[p].parts
               lists == [i \in 1 .. n |-> f[Append(p, i)]]
    <3>1. f[p] = FlattenSeq(lists)
      BY <1>2, <2>2 DEF CollectOne
    <3>2. n \in Nat /\ p \in Seq(Nat) /\ \A i \in 1 .. n : i \in Nat /\ Append(p, i) \in P
      BY <1>1
    <3>3. \A i \in 1 .. n : NamesAll(mail, Append(p, i), f[Append(p, i)])
      <4>1. \A i \in 1 .. n : Append(p, i) \in P /\ Len(Append(p, i)) = Len(p) + 1 /\ Len(p) \in Nat
        BY <1>1
      <4>2. \A i \in 1 .. n : Append(p, i) \in P /\ Len(Append(p, i)) > Len(p)
        BY <4>1
      <4> QED
        BY <1>5, <4>2
    <3> HIDE DEF n
    <3>4. lists \in Seq(Seq(P)) /\ Len(lists) = n
      <4> DEFINE S == Seq(P)
      <4>1. \A i \in 1 .. n : f[Append(p, i)] \in S
        BY <3>3 DEF NamesAll, P
      <4> HIDE DEF S
      <4>2. lists \in Seq(S)
        BY <3>2, <4>1, IsASeq
      <4>3. Len(lists) = n
        BY <3>2
      <4> QED
        BY <4>2, <4>3 DEF S
    <3>5. \A i \in 1 .. n : lists[i] = f[Append(p, i)]
      OBVIOUS
    <3> HIDE DEF lists
    <3>6. IsFlat(f[p], P, lists, n)
      BY <3>1, <3>4, FlattenOrdered
    <3>7. \A i \in 1 .. n : \A v : In(v, lists[i]) <=> v \in A /\ Below(Append(p, i), v)
      BY <3>3, <3>5 DEF NamesAll, A
    <3>8. \A v \in A : v \in P /\ v \in Seq(Nat)
      BY <1>1, <1>3
    <3>9. OrderedLists(lists)
      <4>1. \A i \in 1 .. n : Ordered(lists[i])
        BY <3>3, <3>5 DEF NamesAll
      <4>2. ASSUME NEW i \in 1 .. n, NEW j \in 1 .. n, i < j,
                   NEW v, NEW w, In(v, lists[i]), In(w, lists[j])
            PROVE  Before(v, w)
        <5>1. /\ v \in Seq(Nat) /\ Below(Append(p, i), v) /\ i \in Nat
              /\ w \in Seq(Nat) /\ Below(Append(p, j), w) /\ j \in Nat
          BY <3>2, <3>7, <3>8, <4>2
        <5> QED
          BY <3>2, <4>2, <5>1, EarlierPartFirst
      <4> QED
        BY <3>4, <4>1, <4>2 DEF OrderedLists
    <3>10. ASSUME NEW v PROVE In(v, f[p]) <=> v \in A /\ Below(p, v)
      <4>1. In(v, f[p]) <=> \E i \in 1 .. n : v \in A /\ Below(Append(p, i), v)
        BY <3>6, <3>7 DEF IsFlat
      <4>2. ASSUME NEW i \in 1 .. n, v \in A, Below(Append(p, i), v) PROVE Below(p, v)
        BY <3>2, <3>8, <4>2, BelowChild
      <4>3. ASSUME v \in A, Below(p, v) PROVE \E i \in 1 .. n : Below(Append(p, i), v)
        <5>1. v \in P /\ v # p
          BY <1>3, <2>2, <4>3
        <5> QED
          BY <1>4, <4>3, <5>1 DEF n
      <4> QED
        BY <4>1, <4>2, <4>3
    <3>11. NamesAll(mail, p, f[p])
      BY <3>6, <3>9, <3>10 DEF NamesAll, IsFlat, A, P
    <3> QED
      BY <3>11
  <2> QED
    BY <2>1, <2>2
<1> HIDE DEF G
<1>6. \A p \in P : Len(p) \in 0 .. D
  BY <1>1
<1>7. \A p \in P : p \in G
  BY <1>5, <1>6, TreeInduction
<1> QED
  BY <1>7 DEF G, P, f

\* For messages of any shape: every part that is neither text nor multipart, or
\* is marked as an attachment, is named, once and in document order, and a
\* message that yields nothing is forwarded raw (collect_attachments, parse).
THEOREM NoAttachmentIsMissed == Spec => []AttachmentsNamed
<1>1. Init => AttachmentsNamed
  BY InitOutput DEF AttachmentsNamed
<1>2. InputKnown /\ AttachmentsNamed /\ [Next]_avars => AttachmentsNamed'
  <2> SUFFICES ASSUME InputKnown, AttachmentsNamed, [Next]_avars PROVE AttachmentsNamed'
    OBVIOUS
  <2>1. CASE UNCHANGED avars
    BY <2>1 DEF avars, AttachmentsNamed, Computed
  <2>2. CASE Next
    <3> SUFFICES ASSUME Computed("parsed")' PROVE AttachmentsNamed'
      BY DEF AttachmentsNamed
    <3> DEFINE mail == input.part
               root == <<>>
               list == CollectAttachments(mail)
    <3>1. /\ input' = input /\ output'.parsed = Parse(mail)
          /\ Depth \in Nat /\ IsMessage(mail, Depth)
      BY <2>2, ParsedMessage
    <3>2. /\ output'.parsed.attachments = list /\ output'.parsed.text = Shown(mail)
          /\ output'.parsed.none = (Shown(mail) = {} /\ list = <<>>)
      BY <3>1 DEF Parse
    <3>3. input'.part = mail
      BY <3>1
    <3>4. root \in DOMAIN mail /\ Len(root) = 0
      BY <3>1, EmptySeq DEF IsMessage
    <3>5. list = Collected(mail)[root]
      BY DEF CollectAttachments
    <3> HIDE DEF mail, root, list
    <3>6. NamesAll(mail, root, list)
      BY <3>1, <3>4, <3>5, CollectsAttachments
    <3>7. DOMAIN list = 1 .. Len(list)
      BY <3>6, LenProperties DEF NamesAll
    <3>8. InOrder(list)
      BY <3>6, <3>7 DEF NamesAll, Ordered, InOrder
    <3>9. \A v \in Attachments(mail) : Below(root, v)
      <4>1. \A v \in Attachments(mail) : v \in Seq(Nat)
        BY <3>1 DEF Attachments, Leaves, IsMessage
      <4>2. \A v \in Attachments(mail) : Len(v) \in Nat
        BY <4>1, LenProperties
      <4> QED
        BY <3>4, <4>2 DEF Below
    <3>10. Range(list) = Attachments(mail)
      <4>1. \A v : v \in Range(list) <=> In(v, list)
        BY <3>7 DEF Range, In
      <4> QED
        BY <3>6, <3>9, <4>1 DEF NamesAll
    <3> QED
      BY <3>2, <3>3, <3>8, <3>10 DEF AttachmentsNamed
  <2> QED
    BY <2>1, <2>2
<1> QED
  BY <1>1, <1>2, InputKnownHolds, PTL DEF Spec, avars

-----------------------------------------------------------------------------
(***************************************************************************)
(* Texts as sequences: induction, and replacing token by token.            *)
(***************************************************************************)
\* Induction over sequences, entry by entry.
LEMMA SeqInduction ==
  ASSUME NEW A, NEW T, <<>> \in T, \A s \in Seq(A) : \A a \in A : s \in T => s \o <<a>> \in T
  PROVE  \A s \in Seq(A) : s \in T
<1> SUFFICES ASSUME NEW s \in Seq(A) PROVE s \in T
  OBVIOUS
<1> DEFINE L == Len(s)
           none == <<>>
           U == {n \in 0 .. L : SubSeq(s, 1, n) \in T}
<1>1. L \in Nat /\ \A i \in 1 .. L : s[i] \in A
  BY LenProperties, ElementOfSeq
<1>2. SubSeq(s, 1, 0) = none /\ SubSeq(s, 1, L) = s
  BY SubSeqEmpty, SubSeqFull
<1>3. 0 \in U
  <2>1. none \in T
    OBVIOUS
  <2> HIDE DEF none
  <2>2. SubSeq(s, 1, 0) \in T
    BY <1>2, <2>1
  <2>3. 0 \in 0 .. L
    BY <1>1
  <2> QED
    BY <2>2, <2>3
<1>4. ASSUME NEW n \in 1 .. L, n - 1 \in U PROVE n \in U
  <2>1. SubSeq(s, 1, n) = SubSeq(s, 1, n - 1) \o <<s[n]>>
    <3>1. 1 \in 1 .. L /\ n \in 1 .. L
      BY <1>1
    <3> QED
      BY <3>1, SubSeqRecursiveSecond
  <2>2. SubSeq(s, 1, n - 1) \in Seq(A)
    <3>1. n - 1 \in Int /\ \A i \in 1 .. n - 1 : s[i] \in A
      BY <1>1
    <3> QED
      BY <3>1, SubSeqProperties
  <2>3. s[n] \in A /\ SubSeq(s, 1, n - 1) \in T
    BY <1>1, <1>4
  <2>4. SubSeq(s, 1, n) \in T
    BY <2>1, <2>2, <2>3
  <2> QED
    BY <2>4
<1> HIDE DEF U
<1>5. \A n \in 0 .. L : n \in U
  BY <1>1, <1>3, <1>4, UpTo
<1>6. L \in U
  BY <1>1, <1>5
<1> QED
  BY <1>2, <1>6 DEF U

\* Induction over sequences, from the shorter to the longer.
LEMMA LengthInduction ==
  ASSUME NEW A, NEW T,
         \A s \in Seq(A) : (\A t \in Seq(A) : Len(t) < Len(s) => t \in T) => s \in T
  PROVE  \A s \in Seq(A) : s \in T
<1> SUFFICES ASSUME NEW s \in Seq(A) PROVE s \in T
  OBVIOUS
<1> DEFINE L == Len(s)
           U == {n \in 0 .. L : \A t \in Seq(A) : Len(t) <= n => t \in T}
<1>0. \A t \in Seq(A) : Len(t) \in Nat
  BY LenProperties
<1>1. 0 \in U
  BY <1>0
<1>2. ASSUME NEW n \in 1 .. L, n - 1 \in U PROVE n \in U
  <2>1. ASSUME NEW t \in Seq(A), Len(t) <= n PROVE t \in T
    <3>1. \A u \in Seq(A) : Len(u) < Len(t) => Len(u) <= n - 1
      BY <1>0, <2>1
    <3> QED
      BY <1>2, <3>1
  <2> QED
    BY <2>1
<1> HIDE DEF U
<1>3. \A n \in 0 .. L : n \in U
  BY <1>0, <1>1, <1>2, UpTo
<1>4. L \in U /\ Len(s) <= L
  BY <1>0, <1>3
<1> QED
  BY <1>4 DEF U

\* Flattening one list more.
LEMMA FlattenAppend ==
  ASSUME NEW V, NEW lists \in Seq(Seq(V)), NEW l \in Seq(V)
  PROVE  FlattenSeq(lists \o <<l>>) = FlattenSeq(lists) \o l
<1> DEFINE L == Len(lists)
           none == <<>>
           more == lists \o <<l>>
<1>1. L \in Nat /\ more \in Seq(Seq(V)) /\ Len(more) = L + 1
      /\ \A n \in 1 .. L : more[n] = lists[n]
  <2> DEFINE S == Seq(V)
  <2>1. l \in S /\ lists \in Seq(S)
    OBVIOUS
  <2> HIDE DEF S
  <2>2. L \in Nat /\ more = Append(lists, l)
    BY <2>1, LenProperties, AppendIsConcat
  <2> HIDE DEF more
  <2>3. more \in Seq(S) /\ Len(more) = L + 1 /\ \A n \in 1 .. L : more[n] = lists[n]
    BY <2>1, <2>2, AppendProperties
  <2> QED
    BY <2>2, <2>3 DEF S
<1>2. more[L + 1] = l
  <2> DEFINE S == Seq(V)
  <2>1. l \in S /\ lists \in Seq(S)
    OBVIOUS
  <2> HIDE DEF S
  <2>2. more = Append(lists, l)
    BY <2>1, AppendIsConcat
  <2> QED
    BY <2>1, <2>2, AppendProperties
<1> HIDE DEF more
<1>3. PICK f : Flattening(f, more) /\ FlattenSeq(more) = f[L + 1]
  BY <1>1, FlattenLoop
<1>4. CASE L = 0
  <2>1. f[1] = l
    BY <1>1, <1>2, <1>3, <1>4 DEF Flattening
  <2>2. lists = none
    BY <1>4, EmptySeq
  <2>3. FlattenSeq(lists) = lists
    BY <1>4 DEF FlattenSeq
  <2>4. none \o l = l
    BY ConcatEmptySeq
  <2> HIDE DEF none
  <2> QED
    BY <1>3, <1>4, <2>1, <2>2, <2>3, <2>4 DEF more
<1>5. CASE L # 0
  <2>1. PICK g : Flattening(g, lists) /\ FlattenSeq(lists) = g[L]
    BY <1>5, FlattenLoop
  <2> DEFINE U == {n \in 0 .. L : n # 0 => f[n] = g[n]}
  <2>2. 0 \in U
    BY <1>1
  <2>3. ASSUME NEW n \in 1 .. L, n - 1 \in U PROVE n \in U
    <3>1. f[n] = IF n = 1 THEN lists[n] ELSE f[n - 1] \o lists[n]
      <4>1. n \in 1 .. Len(more) /\ more[n] = lists[n]
        BY <1>1
      <4> QED
        BY <1>3, <4>1 DEF Flattening
    <3>2. g[n] = IF n = 1 THEN lists[n] ELSE g[n - 1] \o lists[n]
      BY <2>1 DEF Flattening
    <3>3. n # 1 => f[n - 1] = g[n - 1]
      BY <2>3
    <3>4. f[n] = g[n]
      BY <3>1, <3>2, <3>3
    <3> QED
      BY <3>4
  <2> HIDE DEF U
  <2>4. \A n \in 0 .. L : n \in U
    BY <1>1, <2>2, <2>3, UpTo
  <2>5. f[L] = g[L]
    <3>1. L \in U
      BY <1>1, <2>4
    <3> QED
      BY <1>5, <3>1 DEF U
  <2>6. f[L + 1] = f[L] \o l
    <3>1. L + 1 \in 1 .. Len(more) /\ L + 1 # 1 /\ (L + 1) - 1 = L
      BY <1>1, <1>5
    <3>2. f[L + 1] = f[(L + 1) - 1] \o more[L + 1]
      BY <1>3, <3>1 DEF Flattening
    <3> QED
      BY <1>2, <3>1, <3>2
  <2> QED
    BY <1>3, <2>1, <2>5, <2>6 DEF more
<1> QED
  BY <1>4, <1>5

\* Flattening nothing.
LEMMA FlattenEmpty == FlattenSeq(<<>>) = <<>>
<1> DEFINE none == <<>>
<1>1. Len(none) = 0
  BY EmptySeq
<1> QED
  BY <1>1 DEF FlattenSeq

\* What a text becomes when every token is replaced as m says.
Mapped(s, m) == FlattenSeq([i \in 1 .. Len(s) |-> m[s[i]]])

\* One token more.
LEMMA MappedAppend ==
  ASSUME NEW A, NEW V, NEW m \in [A -> Seq(V)], NEW s \in Seq(A), NEW a \in A
  PROVE  Mapped(s \o <<a>>, m) = Mapped(s, m) \o m[a]
<1> DEFINE S == Seq(V)
           L == Len(s)
           t == s \o <<a>>
           Lists(u) == [i \in 1 .. Len(u) |-> m[u[i]]]
           last == m[a]
<1>1. L \in Nat /\ t \in Seq(A) /\ Len(t) = L + 1 /\ t[L + 1] = a
      /\ \A i \in 1 .. L : t[i] = s[i] /\ s[i] \in A
  <2>1. t = Append(s, a)
    BY AppendIsConcat
  <2> HIDE DEF t
  <2> QED
    BY <2>1, LenProperties, ElementOfSeq, AppendProperties
<1> HIDE DEF t, S
<1>2. last \in S /\ m \in [A -> S]
  BY DEF S
<1>3. Lists(s) \in Seq(S)
  BY <1>1, <1>2
<1>4. Lists(t) = Append(Lists(s), last)
  <2>1. Append(Lists(s), last) \in Seq(S) /\ Len(Append(Lists(s), last)) = L + 1
        /\ Append(Lists(s), last)[L + 1] = last
        /\ \A i \in 1 .. L : Append(Lists(s), last)[i] = m[s[i]]
    <3>1. Len(Lists(s)) = L /\ \A i \in 1 .. L : Lists(s)[i] = m[s[i]]
      BY <1>1
    <3> HIDE DEF Lists, last
    <3> QED
      BY <1>2, <1>3, <3>1, AppendProperties
  <2>2. Lists(t) \in Seq(S) /\ Len(Lists(t)) = L + 1
        /\ \A i \in 1 .. L + 1 : Lists(t)[i] = m[t[i]]
    BY <1>1, <1>2
  <2> DEFINE one == Append(Lists(s), last)
             two == Lists(t)
  <2> HIDE DEF one, two
  <2>3. ASSUME NEW i \in 1 .. L + 1 PROVE two[i] = one[i]
    <3>1. CASE i = L + 1
      BY <1>1, <2>1, <2>2, <3>1 DEF one, two
    <3>2. CASE i # L + 1
      <4>1. i \in 1 .. L
        BY <1>1, <3>2
      <4> QED
        BY <1>1, <2>1, <2>2, <4>1 DEF one, two
    <3> QED
      BY <3>1, <3>2
  <2>4. one \in Seq(S) /\ two \in Seq(S) /\ Len(one) = L + 1 /\ Len(two) = L + 1
    BY <2>1, <2>2 DEF one, two
  <2>5. two = one
    BY <2>3, <2>4, SeqEqual
  <2> QED
    BY <2>5 DEF one, two
<1>5. Lists(t) = Lists(s) \o <<last>>
  <2> HIDE DEF Lists, last
  <2> QED
    BY <1>2, <1>3, <1>4, AppendIsConcat
<1>6. FlattenSeq(Lists(s) \o <<last>>) = FlattenSeq(Lists(s)) \o last
  <2> HIDE DEF Lists, last
  <2> QED
    BY <1>2, <1>3, FlattenAppend DEF S
<1> QED
  BY <1>5, <1>6 DEF Mapped, t

\* Replacing in an empty text.
LEMMA MappedEmpty == ASSUME NEW m PROVE Mapped(<<>>, m) = <<>>
<1> DEFINE none == <<>>
<1>1. Len(none) = 0
  BY EmptySeq
<1>2. [i \in 1 .. Len(none) |-> m[none[i]]] = none
  BY <1>1
<1> QED
  BY <1>2, FlattenEmpty DEF Mapped

\* What is replaced is a text.
LEMMA MappedTyped ==
  ASSUME NEW A, NEW V, NEW m \in [A -> Seq(V)], NEW s \in Seq(A)
  PROVE  Mapped(s, m) \in Seq(V)
<1> DEFINE S == Seq(V)
           lists == [i \in 1 .. Len(s) |-> m[s[i]]]
<1>1. Len(s) \in Nat /\ \A i \in 1 .. Len(s) : s[i] \in A
  BY LenProperties, ElementOfSeq
<1>2. m \in [A -> S]
  OBVIOUS
<1> HIDE DEF S
<1>3. lists \in Seq(S)
  BY <1>1, <1>2
<1> HIDE DEF lists
<1>4. IsFlat(FlattenSeq(lists), V, lists, Len(lists))
  BY <1>3, FlattenOrdered DEF S
<1> QED
  BY <1>4 DEF IsFlat, Mapped, lists

\* Replacing one token.
LEMMA MappedOne ==
  ASSUME NEW A, NEW V, NEW m \in [A -> Seq(V)], NEW a \in A
  PROVE  Mapped(<<a>>, m) = m[a]
<1> DEFINE none == <<>>
           out == m[a]
<1>1. none \in Seq(A) /\ none \o <<a>> = <<a>> /\ Mapped(none, m) = none
  BY EmptySeq, ConcatEmptySeq, MappedEmpty
<1>2. out \in Seq(V) /\ none \o out = out
  BY ConcatEmptySeq
<1> HIDE DEF none
<1>3. Mapped(none \o <<a>>, m) = Mapped(none, m) \o m[a]
  BY <1>1, MappedAppend
<1> QED
  BY <1>1, <1>2, <1>3

\* It does not matter how three texts are put together.
Assoc(s, t, u) == (s \o t) \o u = s \o (t \o u)

LEMMA Associative ==
  ASSUME NEW S, NEW s \in Seq(S), NEW t \in Seq(S), NEW u \in Seq(S)
  PROVE  Assoc(s, t, u)
BY ConcatAssociative DEF Assoc

\* Replacing tokens goes through concatenation.
LEMMA MappedConcat ==
  ASSUME NEW A, NEW V, NEW m \in [A -> Seq(V)], NEW s \in Seq(A), NEW t \in Seq(A)
  PROVE  Mapped(s \o t, m) = Mapped(s, m) \o Mapped(t, m)
<1> DEFINE none == <<>>
           Law(u) == Mapped(s \o u, m) = Mapped(s, m) \o Mapped(u, m)
           T == {u \in Seq(A) : Law(u)}
<1>1. none \in T
  <2>1. none \in Seq(A) /\ s \o none = s /\ Mapped(none, m) = none
    BY EmptySeq, ConcatEmptySeq, MappedEmpty
  <2>2. Mapped(s, m) \o none = Mapped(s, m)
    BY MappedTyped, ConcatEmptySeq
  <2> HIDE DEF none
  <2> QED
    BY <2>1, <2>2
<1>2. ASSUME NEW u \in Seq(A), NEW a \in A, u \in T PROVE u \o <<a>> \in T
  <2> DEFINE one == <<a>>
             x == Mapped(s, m)
             y == Mapped(u, m)
             z == m[a]
  <2>1. one \in Seq(A) /\ u \o one \in Seq(A) /\ s \o u \in Seq(A)
    <3>1. one \in Seq(A)
      OBVIOUS
    <3> HIDE DEF one
    <3> QED
      BY <3>1, ConcatProperties
  <2>2. x \in Seq(V) /\ y \in Seq(V) /\ z \in Seq(V)
    BY MappedTyped
  <2>3. Mapped(u \o one, m) = y \o z /\ Mapped((s \o u) \o one, m) = Mapped(s \o u, m) \o z
    BY <2>1, MappedAppend
  <2>4. Mapped(s \o u, m) = x \o y
    BY <1>2
  <2> HIDE DEF one, x, y, z
  <2>5. Assoc(s, u, one)
    BY <2>1, Associative
  <2>6. Assoc(x, y, z)
    BY <2>2, Associative
  <2>7. Law(u \o one)
    BY <2>3, <2>4, <2>5, <2>6 DEF x, Assoc
  <2> HIDE DEF Law
  <2> QED
    BY <2>1, <2>7 DEF one
<1> HIDE DEF T
<1>3. t \in T
  BY <1>1, <1>2, SeqInduction
<1> QED
  BY <1>3 DEF T

\* Two replacements, one after the other, are h.
IsMap(m, A, B) == m \in [A -> Seq(B)]
Composed(A, m, k, h) == \A a \in A : h[a] = Mapped(m[a], k)

LEMMA MappedTwice ==
  ASSUME NEW A, NEW B, NEW V, NEW m, NEW k, NEW h, IsMap(m, A, B), IsMap(k, B, V), IsMap(h, A, V),
         Composed(A, m, k, h), NEW s \in Seq(A)
  PROVE  Mapped(Mapped(s, m), k) = Mapped(s, h)
<1> USE DEF IsMap
<1> DEFINE none == <<>>
           Law(u) == Mapped(Mapped(u, m), k) = Mapped(u, h)
           T == {u \in Seq(A) : Law(u)}
<1>1. none \in T
  <2>1. none \in Seq(A) /\ Mapped(none, m) = none /\ Mapped(none, k) = none /\ Mapped(none, h) = none
    BY EmptySeq, MappedEmpty
  <2> HIDE DEF none
  <2> QED
    BY <2>1
<1>2. ASSUME NEW u \in Seq(A), NEW a \in A, u \in T PROVE u \o <<a>> \in T
  <2> DEFINE one == <<a>>
             x == Mapped(u, m)
             y == m[a]
  <2>1. one \in Seq(A) /\ u \o one \in Seq(A)
    <3>1. one \in Seq(A)
      OBVIOUS
    <3> HIDE DEF one
    <3> QED
      BY <3>1, ConcatProperties
  <2>2. x \in Seq(B) /\ y \in Seq(B)
    BY MappedTyped
  <2>3. Mapped(u \o one, m) = x \o y /\ Mapped(u \o one, h) = Mapped(u, h) \o h[a]
    BY MappedAppend
  <2>4. Mapped(x, k) = Mapped(u, h)
    BY <1>2
  <2>5. h[a] = Mapped(y, k)
    BY DEF Composed
  <2> HIDE DEF one, x, y
  <2>6. Mapped(x \o y, k) = Mapped(x, k) \o Mapped(y, k)
    BY <2>2, MappedConcat
  <2>7. Law(u \o one)
    BY <2>3, <2>4, <2>5, <2>6
  <2> HIDE DEF Law
  <2> QED
    BY <2>1, <2>7 DEF one
<1> HIDE DEF T
<1>3. s \in T
  BY <1>1, <1>2, SeqInduction
<1> QED
  BY <1>3 DEF T

\* Flattening goes through concatenation.
LEMMA FlattenConcat ==
  ASSUME NEW V, NEW a \in Seq(Seq(V)), NEW b \in Seq(Seq(V))
  PROVE  FlattenSeq(a \o b) = FlattenSeq(a) \o FlattenSeq(b)
<1> DEFINE S == Seq(V)
           id == [l \in S |-> l]
<1>1. a \in Seq(S) /\ b \in Seq(S) /\ id \in [S -> Seq(V)]
  OBVIOUS
<1>2. ASSUME NEW s \in Seq(S) PROVE Mapped(s, id) = FlattenSeq(s)
  <2> HIDE DEF S
  <2>1. Len(s) \in Nat /\ s \in [1 .. Len(s) -> S] /\ \A i \in 1 .. Len(s) : s[i] \in S
    BY LenProperties, ElementOfSeq
  <2>2. [i \in 1 .. Len(s) |-> id[s[i]]] = s
    BY <2>1
  <2> QED
    BY <2>2 DEF Mapped
<1>3. a \o b \in Seq(S)
  <2> HIDE DEF S
  <2> QED
    BY <1>1, ConcatProperties
<1> HIDE DEF S, id
<1>4. Mapped(a \o b, id) = Mapped(a, id) \o Mapped(b, id)
  BY <1>1, MappedConcat
<1> QED
  BY <1>1, <1>2, <1>3, <1>4

\* Flattening texts that are all empty.
LEMMA FlattenNothing ==
  ASSUME NEW lists \in Seq({<<>>})
  PROVE  FlattenSeq(lists) = <<>>
<1> DEFINE none == <<>>
           A == {none}
           T == {s \in Seq(A) : FlattenSeq(s) = none}
<1>1. none \in T
  <2>1. none \in Seq(A) /\ FlattenSeq(none) = none
    BY EmptySeq, FlattenEmpty
  <2> HIDE DEF none
  <2> QED
    BY <2>1
<1>2. ASSUME NEW s \in Seq(A), NEW a \in A, s \in T PROVE s \o <<a>> \in T
  <2>1. a = none /\ none \in Seq({}) /\ none \o none = none
    BY EmptySeq, ConcatEmptySeq
  <2>2. A \subseteq Seq({}) /\ FlattenSeq(s) = none
    BY <1>2, <2>1
  <2>3. <<a>> \in Seq(A)
    OBVIOUS
  <2>4. s \in Seq(Seq({})) /\ s \o <<a>> \in Seq(A)
    <3> DEFINE one == <<a>>
    <3>1. one \in Seq(A)
      BY <2>3
    <3> HIDE DEF none, A, one
    <3> QED
      BY <2>2, <3>1, SeqMonotonic, ConcatProperties DEF one
  <2> HIDE DEF none
  <2>5. FlattenSeq(s \o <<none>>) = FlattenSeq(s) \o none
    BY <2>1, <2>4, FlattenAppend
  <2> QED
    BY <2>1, <2>2, <2>4, <2>5
<1> HIDE DEF T
<1>3. lists \in T
  BY <1>1, <1>2, SeqInduction DEF none
<1> QED
  BY <1>3 DEF T

\* The first n tokens of a text, or lines of a list, are the first n - 1 and one.
LEMMA PrefixGrows ==
  ASSUME NEW A, NEW s \in Seq(A), NEW n \in 1 .. Len(s)
  PROVE  /\ SubSeq(s, 1, n) = SubSeq(s, 1, n - 1) \o <<s[n]>>
         /\ SubSeq(s, 1, n - 1) \in Seq(A) /\ s[n] \in A
<1>1. Len(s) \in Nat /\ \A i \in 1 .. Len(s) : s[i] \in A
  BY LenProperties, ElementOfSeq
<1>2. SubSeq(s, 1, n) = SubSeq(s, 1, n - 1) \o <<s[n]>>
  <2>1. 1 \in 1 .. Len(s) /\ n \in 1 .. Len(s)
    BY <1>1
  <2> QED
    BY <2>1, SubSeqRecursiveSecond
<1>3. SubSeq(s, 1, n - 1) \in Seq(A)
  <2>1. n - 1 \in Int /\ \A i \in 1 .. n - 1 : s[i] \in A
    BY <1>1
  <2> QED
    BY <2>1, SubSeqProperties
<1> QED
  BY <1>1, <1>2, <1>3

-----------------------------------------------------------------------------
(***************************************************************************)
(* html_to_text's passes on a document in which no "<" or "&" stands alone.*)
(***************************************************************************)
\* A cursor that goes from token to token writes all the pieces.
LEMMA WalkStraight ==
  ASSUME NEW V, NEW L \in Nat, NEW piece \in [1 .. L -> Seq(V)], NEW next \in [1 .. L -> Nat],
         \A c \in 1 .. L : next[c] = c + 1
  PROVE  Walk(piece, next) = FlattenSeq(piece)
<1> DEFINE S == Seq(V)
           Done(n) == FlattenSeq(SubSeq(piece, 1, n))
           none == <<>>
<1>1. \A c \in 1 .. L : c < next[c] /\ next[c] <= L + 1
  OBVIOUS
<1>2. PICK f : WalkFrom(f, V, L, piece, next)
  BY <1>1, WalkRuns
<1>0. f \in [1 .. L + 1 -> Seq(V)] /\ Walked(f, L, piece, next) /\ Walk(piece, next) = f[1]
  BY <1>2 DEF WalkFrom
<1>3. piece \in Seq(S) /\ Len(piece) = L /\ \A n \in 1 .. L : piece[n] \in S
  BY LenProperties
<1> DEFINE Inv(n) == Done(n) \in S /\ Done(n) \o f[n + 1] = f[1]
           U == {n \in 0 .. L : Inv(n)}
<1> HIDE DEF S
<1>4. 0 \in U
  <2>1. SubSeq(piece, 1, 0) = none /\ FlattenSeq(none) = none
    BY SubSeqEmpty, FlattenEmpty
  <2>2. none \in S /\ none \o f[1] = f[1]
    BY <1>0, EmptySeq, ConcatEmptySeq DEF S
  <2> HIDE DEF none
  <2>3. Done(0) = none
    BY <2>1
  <2> HIDE DEF Done
  <2>4. 0 + 1 = 1
    OBVIOUS
  <2>5. Inv(0)
    BY <2>2, <2>3, <2>4
  <2> HIDE DEF Inv
  <2> QED
    BY <2>5
<1>5. ASSUME NEW n \in 1 .. L, n - 1 \in U PROVE n \in U
  <2> DEFINE front == SubSeq(piece, 1, n - 1)
             here == piece[n]
             rest == f[n + 1]
  <2>1. SubSeq(piece, 1, n) = front \o <<here>>
    <3>1. 1 \in 1 .. Len(piece) /\ n \in 1 .. Len(piece)
      BY <1>3
    <3> QED
      BY <1>3, <3>1, SubSeqRecursiveSecond
  <2>2. front \in Seq(S) /\ here \in S /\ rest \in S
    <3>1. n - 1 \in Int /\ \A i \in 1 .. n - 1 : piece[i] \in S
      BY <1>3
    <3>2. n + 1 \in 1 .. L + 1
      OBVIOUS
    <3> QED
      BY <1>0, <1>3, <3>1, <3>2, SubSeqProperties DEF S
  <2>3. Done(n - 1) \in S /\ Done(n - 1) \o f[(n - 1) + 1] = f[1]
    BY <1>5
  <2>4. (n - 1) + 1 = n /\ f[n] = here \o rest
    <3>1. n \in 1 .. L /\ next[n] = n + 1
      OBVIOUS
    <3>2. f[n] = piece[n] \o f[next[n]]
      BY <1>0, <3>1 DEF Walked
    <3> QED
      BY <3>1, <3>2
  <2>5. FlattenSeq(front \o <<here>>) = Done(n - 1) \o here
    <3> HIDE DEF front, here
    <3> QED
      BY <2>2, FlattenAppend DEF S, front
  <2> DEFINE was == Done(n - 1)
  <2>6. Done(n) = was \o here
    BY <2>1, <2>5
  <2> HIDE DEF Done, was, here, rest
  <2>7. was \in S /\ was \o f[n] = f[1]
    BY <2>3, <2>4 DEF was
  <2>8. Assoc(was, here, rest) /\ was \o here \in S
    BY <2>2, <2>7, Associative, ConcatProperties DEF S
  <2>9. Done(n) \in S /\ Done(n) \o rest = f[1]
    BY <2>4, <2>6, <2>7, <2>8 DEF Assoc
  <2>10. Inv(n)
    BY <2>9 DEF rest
  <2> HIDE DEF Inv
  <2> QED
    BY <2>10
<1> HIDE DEF U
<1>6. \A n \in 0 .. L : n \in U
  BY <1>4, <1>5, UpTo
<1>7. Inv(L)
  <2> HIDE DEF Inv
  <2> QED
    BY <1>6 DEF U
<1>8. Done(L) = FlattenSeq(piece)
  BY <1>3, SubSeqFull
<1> HIDE DEF Done
<1>9. Done(L) \o f[L + 1] = Done(L)
  <2>1. f[L + 1] = <<>>
    BY <1>0 DEF Walked
  <2> QED
    BY <1>7, <2>1, ConcatEmptySeq DEF S
<1> QED
  BY <1>0, <1>7, <1>8, <1>9

\* The tokens of a document in which no "<" or "&" stands alone, and of one
\* without tags.
Plain == Tokens \ {"<", "&"}
Untagged == {"x"} \cup Blanks \cup Entities

\* What html_to_text's loop and decode_entities put for such a token.
ForTag == [t \in Plain |-> IF t \notin Tags THEN <<t>> ELSE IF BreaksLine(t) THEN <<Newline>> ELSE <<>>]
ForEntity == [t \in Untagged |-> IF t \in Entities THEN <<Entity(t)>> ELSE <<t>>]

\* Both are texts.
LEMMA ForTagTyped == ForTag \in [Plain -> Seq(Untagged)]
<1> DEFINE none == <<>>
           nl == <<Newline>>
           One(t) == <<t>>
<1>1. none \in Seq(Untagged) /\ nl \in Seq(Untagged)
  <2>1. Newline \in Untagged
    BY DEF Untagged, Blanks
  <2> QED
    BY <2>1, EmptySeq
<1>2. ASSUME NEW t \in Plain, t \notin Tags PROVE One(t) \in Seq(Untagged)
  <2>1. t \in Untagged
    BY <1>2 DEF Plain, Tokens, Untagged
  <2> QED
    BY <2>1
<1>3. ForTag = [t \in Plain |-> IF t \notin Tags THEN One(t) ELSE IF BreaksLine(t) THEN nl ELSE none]
  BY DEF ForTag
<1> HIDE DEF none, nl, One
<1> QED
  BY <1>1, <1>2, <1>3

LEMMA ForEntityTyped == ForEntity \in [Untagged -> Seq(Tokens)]
<1> DEFINE One(t) == <<t>>
           Two(t) == <<Entity(t)>>
<1>1. ASSUME NEW t \in Untagged PROVE One(t) \in Seq(Tokens) /\ Two(t) \in Seq(Tokens)
  <2>1. t \in Tokens /\ Entity(t) \in Tokens
    BY DEF Untagged, Tokens, Entity, Blanks
  <2> QED
    BY <2>1
<1>2. ForEntity = [t \in Untagged |-> IF t \in Entities THEN Two(t) ELSE One(t)]
  BY DEF ForEntity
<1> HIDE DEF One, Two
<1> QED
  BY <1>1, <1>2

\* The loop replaces token by token.
LEMMA DropTagsMaps ==
  ASSUME NEW doc \in Seq(Plain)
  PROVE  DropTags(doc) = Mapped(doc, ForTag)
<1> DEFINE L == Len(doc)
           none == <<>>
           nl == <<Newline>>
           One(t) == <<t>>
           Ending(c) == {i \in c + 1 .. L : doc[i] \in Tags}
           piece == [c \in 1 .. L |-> IF doc[c] \notin Tags \cup {"<"} THEN One(doc[c])
                                      ELSE IF BreaksLine(doc[c]) THEN nl ELSE none]
           next == [c \in 1 .. L |-> IF doc[c] # "<" THEN c + 1
                                     ELSE IF Ending(c) = {} THEN L + 1 ELSE Min(Ending(c)) + 1]
<1>1. L \in Nat /\ \A c \in 1 .. L : doc[c] \in Plain
  BY LenProperties, ElementOfSeq
<1>2. DropTags(doc) = Walk(piece, next)
  BY DEF DropTags
<1>3. \A t \in Plain : ForTag[t] = IF t \notin Tags THEN One(t) ELSE IF BreaksLine(t) THEN nl ELSE none
  BY DEF ForTag
<1>4. \A c \in 1 .. L : doc[c] # "<"
  BY <1>1 DEF Plain
<1> HIDE DEF L, none, nl, One
<1>5. piece = [c \in 1 .. L |-> ForTag[doc[c]]]
  BY <1>1, <1>3, <1>4
<1>6. next = [c \in 1 .. L |-> c + 1]
  BY <1>4
<1> HIDE DEF piece, next
<1>7. piece \in [1 .. L -> Seq(Untagged)]
  BY <1>1, <1>5, ForTagTyped
<1>8. next \in [1 .. L -> Nat] /\ \A c \in 1 .. L : next[c] = c + 1
  BY <1>1, <1>6
<1>9. Walk(piece, next) = FlattenSeq(piece)
  BY <1>1, <1>7, <1>8, WalkStraight
<1> QED
  BY <1>2, <1>5, <1>9 DEF Mapped, L

\* So does decode_entities.
LEMMA DecodeEntitiesMaps ==
  ASSUME NEW text \in Seq(Untagged)
  PROVE  DecodeEntities(text) = Mapped(text, ForEntity)
<1> DEFINE L == Len(text)
           Ends(c) == {i \in c + 1 .. L : text[i] \in Entities}
           Swallows(c) == /\ text[c] = "&" /\ Ends(c) # {}
                          /\ Min(Ends(c)) - c + Span(text[Min(Ends(c))]) <= 10
           next == [c \in 1 .. L |-> IF Swallows(c) THEN Min(Ends(c)) + 1 ELSE c + 1]
           Copied(c) == SubSeq(text, c, next[c] - 1)
           Put(t) == <<Entity(t)>>
           One(t) == <<t>>
           piece == [c \in 1 .. L |-> IF text[c] \in Entities THEN Put(text[c]) ELSE Copied(c)]
<1>1. L \in Nat /\ \A c \in 1 .. L : text[c] \in Untagged
  BY LenProperties, ElementOfSeq
<1>2. DecodeEntities(text) = Walk(piece, next)
  BY DEF DecodeEntities
<1>3. \A t \in Untagged : ForEntity[t] = IF t \in Entities THEN Put(t) ELSE One(t)
  BY DEF ForEntity
<1>4. \A c \in 1 .. L : ~Swallows(c)
  BY <1>1 DEF Untagged, Blanks, Space, Newline, Entities
<1> HIDE DEF L, Swallows, Put
<1>5. next = [c \in 1 .. L |-> c + 1]
  BY <1>4
<1> HIDE DEF next
<1>6. ASSUME NEW c \in 1 .. L PROVE Copied(c) = One(text[c])
  <2>1. next[c] - 1 = c /\ c \in 1 .. Len(text)
    BY <1>1, <1>5 DEF L
  <2>2. SubSeq(text, c, c) = <<text[c]>>
    <3> DEFINE t == text[c]
               one == <<t>>
               sub == SubSeq(text, c, c)
    <3>1. t \in Untagged /\ c \in Int /\ \A i \in c .. c : text[i] \in Untagged
      BY <1>1
    <3>2. /\ sub \in Seq(Untagged) /\ Len(sub) = c - c + 1
          /\ \A i \in 1 .. c - c + 1 : sub[i] = text[c + i - 1]
      BY <3>1, SubSeqProperties
    <3>3. one \in Seq(Untagged) /\ Len(one) = 1 /\ one[1] = t
      BY <3>1
    <3> HIDE DEF sub, one
    <3>4. Len(sub) = 1 /\ sub[1] = t
      BY <3>1, <3>2
    <3>5. sub = one
      BY <3>2, <3>3, <3>4, SeqEqual
    <3> QED
      BY <3>5 DEF sub, one
  <2> QED
    BY <2>1, <2>2
<1> HIDE DEF Copied, One
<1>7. piece = [c \in 1 .. L |-> ForEntity[text[c]]]
  BY <1>1, <1>3, <1>6
<1> HIDE DEF piece
<1>8. piece \in [1 .. L -> Seq(Tokens)]
  BY <1>1, <1>7, ForEntityTyped
<1>9. next \in [1 .. L -> Nat] /\ \A c \in 1 .. L : next[c] = c + 1
  BY <1>1, <1>5
<1>10. Walk(piece, next) = FlattenSeq(piece)
  BY <1>1, <1>8, <1>9, WalkStraight
<1> QED
  BY <1>2, <1>7, <1>10 DEF Mapped, L

-----------------------------------------------------------------------------
(***************************************************************************)
(* strip_elements.                                                         *)
(***************************************************************************)
\* What the pass writes of a text it writes wherever that text begins, once it
\* is there.
LEMMA StripShift ==
  ASSUME NEW A, NEW p \in Seq(A), NEW w \in Seq(A), NEW name, NEW f, NEW g,
         Stripping(f, A, p \o w, name), Stripping(g, A, w, name)
  PROVE  \A c \in 1 .. Len(w) + 1 : f[Len(p) + c] = g[c]
<1> DEFINE k == Len(p)
           M == Len(w)
           doc == p \o w
           none == <<>>
           One(t) == <<t>>
           Inv(m) == \A c \in M + 1 - m .. M + 1 : f[k + c] = g[c]
           U == {m \in 0 .. M : Inv(m)}
<1>1. k \in Nat /\ M \in Nat
  BY LenProperties
<1>2. Len(doc) = k + M /\ \A c \in 1 .. M : doc[k + c] = w[c]
  <2>1. /\ Len(doc) = Len(p) + Len(w)
        /\ \A i \in 1 .. Len(p) + Len(w) : doc[i] = IF i <= Len(p) THEN p[i] ELSE w[i - Len(p)]
    BY ConcatProperties, Zenon
  <2>2. ASSUME NEW c \in 1 .. M PROVE doc[k + c] = w[c]
    <3>1. k + c \in 1 .. Len(p) + Len(w) /\ ~(k + c <= Len(p)) /\ (k + c) - Len(p) = c
      BY <1>1
    <3> HIDE DEF doc
    <3> QED
      BY <2>1, <3>1
  <2> QED
    BY <2>1, <2>2
<1>3. /\ f[(k + M) + 1] = none
      /\ \A c \in 1 .. k + M :
           /\ doc[c] \notin Open(name) => f[c] = One(doc[c]) \o f[c + 1]
           /\ doc[c] \in Open(name) =>
                /\ \A j \in c .. k + M : FirstClose(doc, name, c, j) => f[c] = f[j + 1]
                /\ (\A j \in c .. k + M : doc[j] \notin Close(name)) => f[c] = none
  BY <1>2 DEF Stripping
<1>4. /\ g[M + 1] = none
      /\ \A c \in 1 .. M :
           /\ w[c] \notin Open(name) => g[c] = One(w[c]) \o g[c + 1]
           /\ w[c] \in Open(name) =>
                /\ \A j \in c .. M : FirstClose(w, name, c, j) => g[c] = g[j + 1]
                /\ (\A j \in c .. M : w[j] \notin Close(name)) => g[c] = none
  BY DEF Stripping
<1> HIDE DEF k, M, doc, none, One
<1>5. 0 \in U
  <2>1. k + (M + 1) = (k + M) + 1 /\ \A c \in M + 1 - 0 .. M + 1 : c = M + 1
    BY <1>1
  <2> QED
    BY <1>1, <1>3, <1>4, <2>1
<1>6. ASSUME NEW m \in 1 .. M, m - 1 \in U PROVE m \in U
  <2> DEFINE c == M + 1 - m
  <2>1. c \in 1 .. M /\ M + 1 - (m - 1) = c + 1 /\ k + c \in 1 .. k + M /\ (k + c) + 1 = k + (c + 1)
    BY <1>1
  <2>2. \A i \in c + 1 .. M + 1 : f[k + i] = g[i]
    <3>1. Inv(m - 1)
      BY <1>6
    <3> QED
      BY <2>1, <3>1
  <2> HIDE DEF c
  <2>3. doc[k + c] = w[c]
    BY <1>2, <2>1
  <2>4. ASSUME w[c] \notin Open(name) PROVE f[k + c] = g[c]
    <3>1. f[k + c] = One(w[c]) \o f[k + (c + 1)] /\ g[c] = One(w[c]) \o g[c + 1]
      BY <1>3, <1>4, <2>1, <2>3, <2>4
    <3>2. c + 1 \in c + 1 .. M + 1
      BY <1>1, <2>1
    <3>3. f[k + c] = g[c]
      BY <2>2, <3>1, <3>2
    <3> QED
      BY <3>3
  <2>5. ASSUME w[c] \in Open(name) /\ \E j \in c .. M : w[j] \in Close(name) PROVE f[k + c] = g[c]
    <3> DEFINE T == {j \in c .. M : w[j] \in Close(name)}
    <3>1. T \in SUBSET Nat /\ T # {}
      BY <1>1, <2>1, <2>5
    <3>2. PICK j \in T : \A i \in T : j <= i
      BY <3>1, LeastExists
    <3>3. j \in c .. M /\ FirstClose(w, name, c, j)
      BY <1>1, <2>1, <3>2 DEF FirstClose
    <3>4. FirstClose(doc, name, k + c, k + j)
      <4>1. doc[k + j] \in Close(name)
        BY <1>1, <1>2, <2>1, <3>3 DEF FirstClose
      <4>2. ASSUME NEW i \in k + c .. (k + j) - 1 PROVE doc[i] \notin Close(name)
        <5>1. i - k \in c .. j - 1 /\ i - k \in 1 .. M /\ k + (i - k) = i
          BY <1>1, <2>1, <3>3
        <5> QED
          BY <1>2, <3>3, <5>1 DEF FirstClose
      <4> QED
        BY <4>1, <4>2 DEF FirstClose
    <3>5. k + j \in k + c .. k + M /\ (k + j) + 1 = k + (j + 1) /\ j + 1 \in c + 1 .. M + 1
      BY <1>1, <2>1, <3>3
    <3>6. f[k + c] = f[(k + j) + 1]
      BY <1>3, <2>1, <2>3, <2>5, <3>4, <3>5
    <3>7. g[c] = g[j + 1]
      BY <1>4, <2>1, <2>5, <3>3
    <3>8. f[k + (j + 1)] = g[j + 1]
      BY <2>2, <3>5
    <3>9. f[k + c] = g[c]
      BY <3>5, <3>6, <3>7, <3>8
    <3> QED
      BY <3>9
  <2>6. ASSUME w[c] \in Open(name) /\ ~\E j \in c .. M : w[j] \in Close(name) PROVE f[k + c] = g[c]
    <3>1. ASSUME NEW i \in k + c .. k + M PROVE doc[i] \notin Close(name)
      <4>1. i - k \in c .. M /\ i - k \in 1 .. M /\ k + (i - k) = i
        BY <1>1, <2>1
      <4> QED
        BY <1>2, <2>6, <4>1
    <3>2. f[k + c] = none
      BY <1>3, <2>1, <2>3, <2>6, <3>1
    <3>3. g[c] = none
      BY <1>4, <2>1, <2>6
    <3>4. f[k + c] = g[c]
      BY <3>2, <3>3
    <3> QED
      BY <3>4
  <2>7. f[k + c] = g[c]
    BY <2>4, <2>5, <2>6
  <2>8. \A i \in c .. M + 1 : i = c \/ i \in c + 1 .. M + 1
    BY <1>1, <2>1
  <2>9. Inv(m)
    BY <2>2, <2>7, <2>8 DEF c
  <2> HIDE DEF Inv
  <2> QED
    BY <2>9
<1> HIDE DEF U
<1>7. \A m \in 0 .. M : m \in U
  BY <1>1, <1>5, <1>6, UpTo
<1>8. Inv(M) /\ M + 1 - M = 1
  BY <1>1, <1>7 DEF U
<1> QED
  BY <1>8 DEF k, M

\* Of nothing it writes nothing.
LEMMA StripEmpty == ASSUME NEW name PROVE StripElement(<<>>, name) = <<>>
<1> DEFINE none == <<>>
<1>1. none \in Seq({}) /\ Len(none) = 0
  BY EmptySeq
<1> HIDE DEF none
<1>2. PICK f : Stripping(f, {}, none, name) /\ StripElement(none, name) = f[1]
  BY <1>1, StripRuns
<1>3. f[1] = <<>>
  BY <1>1, <1>2 DEF Stripping
<1> QED
  BY <1>2, <1>3 DEF none

\* The pass writes a token that opens no element, and goes on behind it.
LEMMA StripToken ==
  ASSUME NEW A, NEW a \in A, NEW w \in Seq(A), NEW name, a \notin Open(name)
  PROVE  StripElement(<<a>> \o w, name) = <<a>> \o StripElement(w, name)
<1> DEFINE p == <<a>>
           doc == p \o w
<1>1. p \in Seq(A) /\ Len(p) = 1 /\ p[1] = a
  OBVIOUS
<1> HIDE DEF p
<1>2. doc \in Seq(A) /\ Len(doc) = 1 + Len(w) /\ Len(w) \in Nat
  BY <1>1, ConcatProperties, LenProperties
<1>3. doc[1] = a
  <2>1. \A i \in 1 .. Len(p) + Len(w) : doc[i] = IF i <= Len(p) THEN p[i] ELSE w[i - Len(p)]
    BY <1>1, ConcatProperties, Zenon
  <2>2. 1 \in 1 .. Len(p) + Len(w) /\ 1 <= Len(p)
    BY <1>1, <1>2
  <2> HIDE DEF doc
  <2> QED
    BY <1>1, <2>1, <2>2
<1>4. PICK f : Stripping(f, A, doc, name) /\ StripElement(doc, name) = f[1]
  BY <1>2, StripRuns
<1>5. PICK g : Stripping(g, A, w, name) /\ StripElement(w, name) = g[1]
  BY StripRuns
<1>6. \A c \in 1 .. Len(w) + 1 : f[Len(p) + c] = g[c]
  <2>1. p \in Seq(A)
    BY <1>1
  <2> QED
    BY <1>4, <1>5, <2>1, StripShift
<1> HIDE DEF doc
<1>7. f[2] = g[1]
  BY <1>1, <1>2, <1>6
<1>8. f[1] = <<a>> \o f[2]
  <2>1. 1 \in 1 .. Len(doc) /\ 1 + 1 = 2
    BY <1>2
  <2> QED
    BY <1>3, <1>4, <2>1 DEF Stripping
<1> QED
  BY <1>4, <1>5, <1>7, <1>8 DEF doc, p

\* It writes nothing of an element it is for, and goes on behind it.
LEMMA StripSkips ==
  ASSUME NEW A, NEW p \in Seq(A), NEW w \in Seq(A), NEW name,
         Len(p) # 0, p[1] \in Open(name), FirstClose(p, name, 1, Len(p))
  PROVE  StripElement(p \o w, name) = StripElement(w, name)
<1> DEFINE doc == p \o w
           k == Len(p)
<1>1. k \in Nat /\ Len(w) \in Nat
  BY LenProperties
<1>2. doc \in Seq(A) /\ Len(doc) = k + Len(w)
  BY ConcatProperties
<1>3. \A i \in 1 .. k : doc[i] = p[i]
  <2>1. \A i \in 1 .. Len(p) + Len(w) : doc[i] = IF i <= Len(p) THEN p[i] ELSE w[i - Len(p)]
    BY ConcatProperties, Zenon
  <2>2. \A i \in 1 .. k : i \in 1 .. Len(p) + Len(w) /\ i <= Len(p)
    BY <1>1
  <2> HIDE DEF doc
  <2> QED
    BY <2>1, <2>2
<1>4. PICK f : Stripping(f, A, doc, name) /\ StripElement(doc, name) = f[1]
  BY <1>2, StripRuns
<1>5. PICK g : Stripping(g, A, w, name) /\ StripElement(w, name) = g[1]
  BY StripRuns
<1>6. \A c \in 1 .. Len(w) + 1 : f[k + c] = g[c]
  BY <1>4, <1>5, StripShift
<1> HIDE DEF doc, k
<1>7. f[k + 1] = g[1]
  BY <1>1, <1>6
<1>8. FirstClose(doc, name, 1, k) /\ doc[1] \in Open(name)
  BY <1>1, <1>3 DEF FirstClose, k
<1>9. f[1] = f[k + 1]
  <2>1. 1 \in 1 .. Len(doc) /\ k \in 1 .. Len(doc)
    BY <1>1, <1>2 DEF k
  <2> QED
    BY <1>4, <1>8, <2>1 DEF Stripping
<1> QED
  BY <1>4, <1>5, <1>7, <1>9 DEF doc

\* It writes a text in which nothing opens an element, and goes on behind it.
LEMMA StripThrough ==
  ASSUME NEW A, NEW name, NEW p \in Seq(A \ Open(name)), NEW w \in Seq(A)
  PROVE  StripElement(p \o w, name) = p \o StripElement(w, name)
<1> DEFINE none == <<>>
           B == A \ Open(name)
           Law(s) == \A v \in Seq(A) : StripElement(s \o v, name) = s \o StripElement(v, name)
           T == {s \in Seq(B) : Law(s)}
<1>1. none \in T
  <2>1. none \in Seq(B)
    BY EmptySeq
  <2>2. ASSUME NEW v \in Seq(A)
        PROVE  none \o v = v /\ none \o StripElement(v, name) = StripElement(v, name)
    BY StripTyped, ConcatEmptySeq
  <2> HIDE DEF none
  <2>3. Law(none)
    BY <2>2
  <2> HIDE DEF Law
  <2> QED
    BY <2>1, <2>3
<1>2. ASSUME NEW s \in Seq(B), NEW a \in B, s \in T PROVE s \o <<a>> \in T
  <2> DEFINE one == <<a>>
  <2>1. one \in Seq(B) /\ one \in Seq(A) /\ a \in A /\ a \notin Open(name)
    OBVIOUS
  <2>2. s \in Seq(A) /\ s \o <<a>> \in Seq(B)
    <3>1. B \subseteq A
      OBVIOUS
    <3> HIDE DEF B, one
    <3> QED
      BY <2>1, <3>1, SeqMonotonic, ConcatProperties DEF one
  <2>3. ASSUME NEW v \in Seq(A)
        PROVE  StripElement((s \o <<a>>) \o v, name) = (s \o <<a>>) \o StripElement(v, name)
    <3> DEFINE r == StripElement(v, name)
    <3>1. r \in Seq(A)
      BY StripTyped
    <3>2. StripElement(<<a>> \o v, name) = <<a>> \o r
      BY <2>1, StripToken
    <3>3. one \o v \in Seq(A)
      <4> HIDE DEF one
      <4> QED
        BY <2>1, ConcatProperties
    <3>4. StripElement(s \o (one \o v), name) = s \o StripElement(one \o v, name)
      BY <1>2, <3>3
    <3> HIDE DEF one, r
    <3>5. Assoc(s, one, v)
      BY <2>1, <2>2, Associative
    <3>6. Assoc(s, one, r)
      BY <2>1, <2>2, <3>1, Associative
    <3>7. StripElement((s \o one) \o v, name) = (s \o one) \o r
      BY <3>2, <3>4, <3>5, <3>6 DEF Assoc, one
    <3> QED
      BY <3>7 DEF one, r
  <2>4. Law(s \o <<a>>)
    BY <2>3
  <2> HIDE DEF Law
  <2> QED
    BY <2>2, <2>4
<1> HIDE DEF T
<1>3. p \in T
  BY <1>1, <1>2, SeqInduction
<1> QED
  BY <1>3 DEF T

\* A text that is one script or head element.
IsElement(p, n) ==
  /\ Len(p) >= 2 /\ p[1] = n[1] /\ p[Len(p)] = n[2]
  /\ \A k \in 2 .. Len(p) - 1 : p[k] \notin Tags \ {"<p>", "<b>"}

\* Where the tags of such a text are.
LEMMA ElementTags ==
  ASSUME NEW n \in Elements, NEW p, IsElement(p, n), Len(p) \in Nat
  PROVE  /\ Len(p) # 0 /\ p[1] = n[1] /\ p[Len(p)] = n[2]
         /\ \A i \in 1 .. Len(p) - 1 : p[i] \notin {"</script>", "</head>", "</header>"}
         /\ \A i \in 2 .. Len(p) : p[i] \notin {"<script>", "<head>"}
<1>1. n[1] \in {"<script>", "<head>"} /\ n[2] \in {"</script>", "</head>"}
  BY DEF Elements
<1>2. Len(p) >= 2 /\ p[1] = n[1] /\ p[Len(p)] = n[2]
  BY DEF IsElement
<1>3. \A i \in 2 .. Len(p) - 1 : p[i] \notin {"</script>", "</head>", "</header>", "<script>", "<head>"}
  BY DEF IsElement, Tags
<1>4. ASSUME NEW i \in 1 .. Len(p) - 1 PROVE p[i] \notin {"</script>", "</head>", "</header>"}
  <2>1. CASE i = 1
    BY <1>1, <1>2, <2>1
  <2>2. CASE i # 1
    <3>1. i \in 2 .. Len(p) - 1
      BY <2>2
    <3> QED
      BY <1>3, <3>1
  <2> QED
    BY <2>1, <2>2
<1>5. ASSUME NEW i \in 2 .. Len(p) PROVE p[i] \notin {"<script>", "<head>"}
  <2>1. CASE i = Len(p)
    BY <1>1, <1>2, <2>1
  <2>2. CASE i # Len(p)
    <3>1. i \in 2 .. Len(p) - 1
      BY <2>2
    <3> QED
      BY <1>3, <3>1
  <2> QED
    BY <2>1, <2>2
<1> QED
  BY <1>2, <1>4, <1>5

\* The tags of the names.
LEMMA NamesOpen ==
  /\ Names[1] = "script" /\ Names[2] = "style" /\ Names[3] = "head"
  /\ Open("script") = {"<script>"} /\ Open("style") = {"<style>"} /\ Open("head") = {"<head>", "<header>"}
  /\ Close("script") = {"</script>"} /\ Close("head") = {"</head>", "</header>"}
BY DEF Names, Open, Close

\* The passes for script, style and head, one after the other.
Stripped(doc) == StripElement(StripElement(StripElement(doc, "script"), "style"), "head")

LEMMA StripElementsIs == ASSUME NEW doc PROVE StripElements(doc) = Stripped(doc)
BY NamesOpen DEF StripElements, Stripped

\* strip_elements keeps a token that opens none of its elements, and goes on
\* behind it.
LEMMA StripsToken ==
  ASSUME NEW a \in Plain \ {"<script>", "<head>", "<header>"}, NEW w \in Seq(Plain)
  PROVE  StripElements(<<a>> \o w) = <<a>> \o StripElements(w)
<1> DEFINE u == StripElement(w, "script")
           v == StripElement(u, "style")
<1>1. a \in Plain /\ a # "<style>" /\ a \notin {"<script>", "<head>", "<header>"}
  BY DEF Plain, Tokens, Blanks, Tags, Entities, Space, Newline
<1>2. u \in Seq(Plain) /\ v \in Seq(Plain)
  <2>1. u \in Seq(Plain)
    BY StripTyped
  <2> HIDE DEF u
  <2> QED
    BY <2>1, StripTyped
<1>3. StripElement(<<a>> \o w, "script") = <<a>> \o u
  <2>1. a \notin Open("script")
    BY <1>1, NamesOpen
  <2> QED
    BY <1>1, <2>1, StripToken
<1>4. StripElement(<<a>> \o u, "style") = <<a>> \o v
  <2>1. a \notin Open("style")
    BY <1>1, NamesOpen
  <2>2. a \in Plain /\ u \in Seq(Plain)
    BY <1>1, <1>2
  <2> HIDE DEF u
  <2> QED
    BY <2>1, <2>2, StripToken
<1>5. StripElement(<<a>> \o v, "head") = <<a>> \o StripElement(v, "head")
  <2>1. a \notin Open("head")
    BY <1>1, NamesOpen
  <2>2. a \in Plain /\ v \in Seq(Plain)
    BY <1>1, <1>2
  <2> HIDE DEF v
  <2> QED
    BY <2>1, <2>2, StripToken
<1>6. Stripped(<<a>> \o w) = <<a>> \o Stripped(w)
  BY <1>3, <1>4, <1>5 DEF Stripped
<1> QED
  BY <1>6, StripElementsIs

\* It drops a script or head element, and goes on behind it.
LEMMA StripsElement ==
  ASSUME NEW n \in Elements, NEW p \in Seq(Plain), NEW w \in Seq(Plain), IsElement(p, n)
  PROVE  StripElements(p \o w) = StripElements(w)
<1>1. Len(p) \in Nat /\ \A i \in 1 .. Len(p) : p[i] \in Plain
  BY LenProperties, ElementOfSeq
<1>2. /\ Len(p) # 0 /\ p[1] = n[1] /\ p[Len(p)] = n[2]
      /\ \A i \in 1 .. Len(p) - 1 : p[i] \notin {"</script>", "</head>", "</header>"}
      /\ \A i \in 2 .. Len(p) : p[i] \notin {"<script>", "<head>"}
  BY <1>1, ElementTags
<1>3. n = <<"<script>", "</script>">> \/ n = <<"<head>", "</head>">>
  BY DEF Elements
<1>4. CASE n = <<"<script>", "</script>">>
  <2>1. n[1] = "<script>" /\ n[2] = "</script>"
    BY <1>4
  <2>2. p[1] \in Open("script") /\ FirstClose(p, "script", 1, Len(p))
    BY <1>2, <2>1, NamesOpen DEF FirstClose
  <2>3. StripElement(p \o w, "script") = StripElement(w, "script")
    BY <1>2, <2>2, StripSkips
  <2> QED
    BY <2>3, StripElementsIs DEF Stripped
<1>5. CASE n = <<"<head>", "</head>">>
  <2> DEFINE u == StripElement(w, "script")
             v == StripElement(u, "style")
  <2>1. n[1] = "<head>" /\ n[2] = "</head>"
    BY <1>5
  <2>2. p \in Seq(Plain \ Open("script")) /\ p \in Seq(Plain \ Open("style"))
    <3>1. ASSUME NEW i \in 1 .. Len(p)
          PROVE  p[i] \in Plain \ Open("script") /\ p[i] \in Plain \ Open("style")
      <4>1. p[i] # "<script>"
        <5>1. CASE i = 1
          BY <1>2, <2>1, <5>1
        <5>2. CASE i # 1
          <6>1. i \in 2 .. Len(p)
            BY <5>2
          <6> QED
            BY <1>2, <6>1
        <5> QED
          BY <5>1, <5>2
      <4>2. p[i] \in Plain /\ p[i] # "<style>"
        BY <1>1 DEF Plain, Tokens, Blanks, Tags, Entities, Space, Newline
      <4> QED
        BY <4>1, <4>2, NamesOpen
    <3>2. p \in [1 .. Len(p) -> Plain \ Open("script")] /\ p \in [1 .. Len(p) -> Plain \ Open("style")]
      BY <3>1, LenProperties
    <3> QED
      BY <1>1, <3>2
  <2>3. u \in Seq(Plain) /\ v \in Seq(Plain)
    <3>1. u \in Seq(Plain)
      BY StripTyped
    <3> HIDE DEF u
    <3> QED
      BY <3>1, StripTyped
  <2>4. StripElement(p \o w, "script") = p \o u
    BY <2>2, StripThrough
  <2>5. StripElement(p \o u, "style") = p \o v
    <3> HIDE DEF u
    <3> QED
      BY <2>2, <2>3, StripThrough
  <2>6. p[1] \in Open("head") /\ FirstClose(p, "head", 1, Len(p))
    BY <1>2, <2>1, NamesOpen DEF FirstClose
  <2>7. StripElement(p \o v, "head") = StripElement(v, "head")
    <3> HIDE DEF v
    <3> QED
      BY <1>2, <2>3, <2>6, StripSkips
  <2>8. Stripped(p \o w) = Stripped(w)
    BY <2>4, <2>5, <2>7 DEF Stripped
  <2> QED
    BY <2>8, StripElementsIs
<1> QED
  BY <1>3, <1>4, <1>5

-----------------------------------------------------------------------------
(***************************************************************************)
(* What is visible of a document.                                          *)
(***************************************************************************)
\* A glyph is a text.
LEMMA GlyphTyped == \A t : Glyph(t) \in Seq(Tokens)
<1> SUFFICES ASSUME NEW t PROVE Glyph(t) \in Seq(Tokens)
  OBVIOUS
<1> DEFINE none == <<>>
           one == <<"x">>
           two == <<"<">>
<1>1. none \in Seq(Tokens) /\ one \in Seq(Tokens) /\ two \in Seq(Tokens)
  <2>1. "x" \in Tokens /\ "<" \in Tokens
    BY DEF Tokens
  <2> QED
    BY <2>1, EmptySeq
<1>2. Glyph(t) = IF t = "x" THEN one ELSE IF t = "&lt;" THEN two ELSE none
  BY DEF Glyph
<1> HIDE DEF none, one, two
<1> QED
  BY <1>1, <1>2

\* Every opening tag of p has its closing tag in p.
Closed(p) == \A o \in 1 .. Len(p), n \in Elements : p[o] = n[1] => \E c \in o .. Len(p) : p[c] = n[2]

\* Behind such a text the same tokens are hidden as without it.
LEMMA HiddenShift ==
  ASSUME NEW p \in Seq(Tokens), NEW w \in Seq(Tokens), Closed(p)
  PROVE  /\ \A i \in 1 .. Len(p) : Hidden(p \o w, i) <=> Hidden(p, i)
         /\ \A i \in 1 .. Len(w) : Hidden(p \o w, Len(p) + i) <=> Hidden(w, i)
<1> DEFINE k == Len(p)
           M == Len(w)
           doc == p \o w
<1>1. k \in Nat /\ M \in Nat
  BY LenProperties
<1>2. (\A c \in 1 .. k : doc[c] = p[c]) /\ (\A c \in 1 .. M : doc[k + c] = w[c])
  <2>1. \A i \in 1 .. Len(p) + Len(w) : doc[i] = IF i <= Len(p) THEN p[i] ELSE w[i - Len(p)]
    BY ConcatProperties, Zenon
  <2>2. ASSUME NEW c \in 1 .. M PROVE doc[k + c] = w[c]
    <3>1. k + c \in 1 .. Len(p) + Len(w) /\ ~(k + c <= Len(p)) /\ (k + c) - Len(p) = c
      BY <1>1
    <3> HIDE DEF doc
    <3> QED
      BY <2>1, <3>1
  <2>3. ASSUME NEW c \in 1 .. k PROVE doc[c] = p[c]
    <3>1. c \in 1 .. Len(p) + Len(w) /\ c <= Len(p)
      BY <1>1
    <3> HIDE DEF doc
    <3> QED
      BY <2>1, <3>1
  <2> QED
    BY <2>2, <2>3
<1>3. \A o \in 1 .. k, n \in Elements : p[o] = n[1] => \E c \in o .. k : p[c] = n[2]
  BY DEF Closed
<1> HIDE DEF doc, k, M
<1>4. ASSUME NEW i \in 1 .. k PROVE Hidden(doc, i) <=> Hidden(p, i)
  BY <1>1, <1>2 DEF Hidden
<1>5. ASSUME NEW i \in 1 .. M, Hidden(w, i) PROVE Hidden(doc, k + i)
  <2>1. PICK o \in 1 .. i - 1, n \in Elements : w[o] = n[1] /\ \A c \in o .. i : w[c] # n[2]
    BY <1>5 DEF Hidden
  <2>2. k + o \in 1 .. (k + i) - 1 /\ doc[k + o] = n[1]
    BY <1>1, <1>2, <2>1
  <2>3. ASSUME NEW c \in k + o .. k + i PROVE doc[c] # n[2]
    <3>1. c - k \in o .. i /\ c - k \in 1 .. M /\ k + (c - k) = c
      BY <1>1
    <3> QED
      BY <1>2, <2>1, <3>1
  <2> QED
    BY <2>2, <2>3 DEF Hidden
<1>6. ASSUME NEW i \in 1 .. M, Hidden(doc, k + i) PROVE Hidden(w, i)
  <2>1. PICK o \in 1 .. (k + i) - 1, n \in Elements : doc[o] = n[1] /\ \A c \in o .. k + i : doc[c] # n[2]
    BY <1>6 DEF Hidden
  <2>2. ~(o <= k)
    <3> SUFFICES ASSUME o <= k PROVE FALSE
      OBVIOUS
    <3>1. o \in 1 .. k /\ p[o] = n[1]
      BY <1>1, <1>2, <2>1
    <3>2. PICK c \in o .. k : p[c] = n[2]
      BY <1>3, <3>1
    <3>3. c \in 1 .. k /\ c \in o .. k + i
      BY <1>1, <3>1
    <3> QED
      BY <1>2, <2>1, <3>2, <3>3
  <2>3. o - k \in 1 .. i - 1 /\ o - k \in 1 .. M /\ k + (o - k) = o
    BY <1>1, <2>2
  <2>4. w[o - k] = n[1]
    BY <1>2, <2>1, <2>3
  <2>5. ASSUME NEW c \in o - k .. i PROVE w[c] # n[2]
    <3>1. c \in 1 .. M /\ k + c \in o .. k + i
      BY <1>1, <2>3
    <3> QED
      BY <1>2, <2>1, <3>1
  <2> QED
    BY <2>3, <2>4, <2>5 DEF Hidden
<1>7. \A i \in 1 .. M : Hidden(doc, k + i) <=> Hidden(w, i)
  BY <1>5, <1>6
<1> QED
  BY <1>4, <1>7 DEF doc, k, M

\* What each token of a document shows.
Pieces(doc) == [i \in 1 .. Len(doc) |-> IF Hidden(doc, i) THEN <<>> ELSE Glyph(doc[i])]

\* They are texts.
LEMMA PiecesTyped ==
  ASSUME NEW doc \in Seq(Tokens)
  PROVE  /\ Pieces(doc) \in Seq(Seq(Tokens)) /\ Len(Pieces(doc)) = Len(doc) /\ Len(doc) \in Nat
         /\ \A i \in 1 .. Len(doc) : Pieces(doc)[i] = IF Hidden(doc, i) THEN <<>> ELSE Glyph(doc[i])
<1> DEFINE S == Seq(Tokens)
           none == <<>>
           G(t) == Glyph(t)
<1>1. Len(doc) \in Nat /\ none \in S /\ \A t : G(t) \in S
  BY LenProperties, EmptySeq, GlyphTyped
<1>2. Pieces(doc) = [i \in 1 .. Len(doc) |-> IF Hidden(doc, i) THEN none ELSE G(doc[i])]
  BY DEF Pieces
<1> HIDE DEF S, none, G
<1>3. Pieces(doc) \in Seq(S) /\ Len(Pieces(doc)) = Len(doc)
      /\ \A i \in 1 .. Len(doc) : Pieces(doc)[i] = IF Hidden(doc, i) THEN none ELSE G(doc[i])
  BY <1>1, <1>2
<1> QED
  BY <1>1, <1>3 DEF S, none, G

\* A text whose elements are closed shows what it shows alone, and so does what
\* follows it.
LEMMA VisibleConcat ==
  ASSUME NEW p \in Seq(Tokens), NEW w \in Seq(Tokens), Closed(p)
  PROVE  VisibleGlyphs(p \o w) = VisibleGlyphs(p) \o VisibleGlyphs(w)
<1> DEFINE S == Seq(Tokens)
           none == <<>>
           G(t) == Glyph(t)
           k == Len(p)
           M == Len(w)
           doc == p \o w
           one == Pieces(p)
           two == Pieces(w)
           all == Pieces(doc)
           both == one \o two
<1>1. k \in Nat /\ M \in Nat
  BY LenProperties
<1>2. doc \in Seq(Tokens) /\ Len(doc) = k + M
  BY ConcatProperties
<1>3. (\A c \in 1 .. k : doc[c] = p[c]) /\ (\A c \in 1 .. M : doc[k + c] = w[c])
  <2>1. \A i \in 1 .. Len(p) + Len(w) : doc[i] = IF i <= Len(p) THEN p[i] ELSE w[i - Len(p)]
    BY ConcatProperties, Zenon
  <2>2. ASSUME NEW c \in 1 .. M PROVE doc[k + c] = w[c]
    <3>1. k + c \in 1 .. Len(p) + Len(w) /\ ~(k + c <= Len(p)) /\ (k + c) - Len(p) = c
      BY <1>1
    <3> HIDE DEF doc
    <3> QED
      BY <2>1, <3>1
  <2>3. ASSUME NEW c \in 1 .. k PROVE doc[c] = p[c]
    <3>1. c \in 1 .. Len(p) + Len(w) /\ c <= Len(p)
      BY <1>1
    <3> HIDE DEF doc
    <3> QED
      BY <2>1, <3>1
  <2> QED
    BY <2>2, <2>3
<1>4. /\ \A i \in 1 .. k : Hidden(doc, i) <=> Hidden(p, i)
      /\ \A i \in 1 .. M : Hidden(doc, k + i) <=> Hidden(w, i)
  BY HiddenShift
<1> HIDE DEF doc
<1>5. /\ one \in Seq(S) /\ Len(one) = k
      /\ \A i \in 1 .. k : one[i] = IF Hidden(p, i) THEN none ELSE G(p[i])
  BY PiecesTyped
<1>6. /\ two \in Seq(S) /\ Len(two) = M
      /\ \A i \in 1 .. M : two[i] = IF Hidden(w, i) THEN none ELSE G(w[i])
  BY PiecesTyped
<1>7. /\ all \in Seq(S) /\ Len(all) = k + M
      /\ \A i \in 1 .. k + M : all[i] = IF Hidden(doc, i) THEN none ELSE G(doc[i])
  BY <1>2, PiecesTyped
<1>8. /\ both \in Seq(S) /\ Len(both) = Len(one) + Len(two)
      /\ \A i \in 1 .. Len(one) + Len(two) : both[i] = IF i <= Len(one) THEN one[i] ELSE two[i - Len(one)]
  <2>1. one \in Seq(S) /\ two \in Seq(S)
    BY <1>5, <1>6
  <2> HIDE DEF S, one, two
  <2> QED
    BY <2>1, ConcatProperties, Zenon
<1> HIDE DEF S, none, G, one, two, all, both, k, M
<1>9. ASSUME NEW i \in 1 .. k + M PROVE all[i] = both[i]
  <2>1. CASE i <= k
    <3>1. i \in 1 .. k
      BY <1>1, <2>1
    <3>2. all[i] = one[i]
      <4>1. all[i] = IF Hidden(doc, i) THEN none ELSE G(doc[i])
        BY <1>7
      <4> QED
        BY <1>3, <1>4, <1>5, <3>1, <4>1
    <3>3. both[i] = one[i]
      BY <1>5, <1>6, <1>8, <2>1
    <3> QED
      BY <3>2, <3>3
  <2>2. CASE ~(i <= k)
    <3> DEFINE j == i - k
    <3>1. j \in 1 .. M /\ k + j = i
      BY <1>1, <2>2
    <3>2. both[i] = two[j]
      BY <1>5, <1>6, <1>8, <2>2
    <3> HIDE DEF j
    <3>3. all[i] = two[j]
      <4>1. all[i] = IF Hidden(doc, i) THEN none ELSE G(doc[i])
        BY <1>7
      <4>2. (Hidden(doc, i) <=> Hidden(w, j)) /\ doc[i] = w[j]
        BY <1>3, <1>4, <3>1
      <4> QED
        BY <1>6, <3>1, <4>1, <4>2
    <3> QED
      BY <3>2, <3>3
  <2> QED
    BY <2>1, <2>2
<1>10. all = both
  <2>1. Len(both) = k + M
    BY <1>5, <1>6, <1>8
  <2> QED
    BY <1>7, <1>8, <1>9, <2>1, SeqEqual
<1>11. FlattenSeq(one \o two) = FlattenSeq(one) \o FlattenSeq(two)
  BY <1>5, <1>6, FlattenConcat DEF S
<1>12. VisibleGlyphs(doc) = FlattenSeq(all) /\ VisibleGlyphs(p) = FlattenSeq(one)
       /\ VisibleGlyphs(w) = FlattenSeq(two)
  BY DEF VisibleGlyphs, Pieces, all, one, two
<1> QED
  BY <1>10, <1>11, <1>12 DEF both, doc

\* A token that opens no element shows its glyph.
LEMMA VisibleToken ==
  ASSUME NEW a \in Tokens \ {"<script>", "<head>"}, NEW w \in Seq(Tokens)
  PROVE  VisibleGlyphs(<<a>> \o w) = Glyph(a) \o VisibleGlyphs(w)
<1> DEFINE one == <<a>>
           S == Seq(Tokens)
           g == Glyph(a)
           none == <<>>
<1>1. one \in Seq(Tokens) /\ Len(one) = 1 /\ one[1] = a
  OBVIOUS
<1>2. g \in S
  BY GlyphTyped
<1> HIDE DEF one, S, g, none
<1>3. Closed(one)
  <2>1. \A n \in Elements : n[1] \in {"<script>", "<head>"}
    BY DEF Elements
  <2>2. \A o \in 1 .. Len(one) : one[o] = a
    BY <1>1
  <2> QED
    BY <2>1, <2>2 DEF Closed
<1>4. ~Hidden(one, 1)
  BY DEF Hidden
<1>5. Pieces(one)[1] = g /\ Pieces(one) \in Seq(S) /\ Len(Pieces(one)) = 1
  <2>1. 1 \in 1 .. Len(one)
    BY <1>1
  <2> QED
    BY <1>1, <1>4, <2>1, PiecesTyped DEF g, S
<1>6. Pieces(one) = <<g>>
  <2> DEFINE x == Pieces(one)
             y == <<g>>
  <2>1. y \in Seq(S) /\ Len(y) = 1 /\ y[1] = g
    BY <1>2
  <2> HIDE DEF x, y
  <2>2. x = y
    <3>1. x[1] = g /\ x \in Seq(S) /\ Len(x) = 1
      BY <1>5 DEF x
    <3>2. \A i \in 1 .. Len(x) : x[i] = y[i]
      BY <2>1, <3>1
    <3>3. Len(x) = Len(y)
      BY <2>1, <3>1
    <3> QED
      BY <2>1, <3>1, <3>2, <3>3, SeqEqual
  <2> QED
    BY <2>2 DEF x, y
<1>7. FlattenSeq(<<g>>) = g
  <2>1. none \in Seq(S) /\ none \o <<g>> = <<g>> /\ FlattenSeq(none) = none /\ none \o g = g
    <3> DEFINE y == <<g>>
    <3>1. y \in Seq(S)
      BY <1>2
    <3> HIDE DEF y
    <3>2. none \o y = y
      BY <3>1, ConcatEmptySeq DEF none
    <3>3. none \o g = g
      BY <1>2, ConcatEmptySeq DEF none, S
    <3>4. none \in Seq(S) /\ FlattenSeq(none) = none
      BY FlattenEmpty, EmptySeq DEF none
    <3> QED
      BY <3>2, <3>3, <3>4 DEF y
  <2>2. FlattenSeq(none \o <<g>>) = FlattenSeq(none) \o g
    BY <1>2, <2>1, FlattenAppend DEF S
  <2> QED
    BY <2>1, <2>2
<1>8. VisibleGlyphs(one) = g
  BY <1>6, <1>7 DEF VisibleGlyphs, Pieces
<1>9. VisibleGlyphs(one \o w) = VisibleGlyphs(one) \o VisibleGlyphs(w)
  BY <1>1, <1>3, VisibleConcat
<1> QED
  BY <1>8, <1>9 DEF one, g

\* A script or head element shows nothing.
LEMMA VisibleElement ==
  ASSUME NEW n \in Elements, NEW p \in Seq(Tokens), NEW w \in Seq(Tokens), IsElement(p, n)
  PROVE  VisibleGlyphs(p \o w) = VisibleGlyphs(w)
<1> DEFINE k == Len(p)
           none == <<>>
           v == VisibleGlyphs(w)
<1>1. k \in Nat
  BY LenProperties
<1>2. /\ k # 0 /\ p[1] = n[1] /\ p[k] = n[2]
      /\ \A i \in 1 .. k - 1 : p[i] \notin {"</script>", "</head>", "</header>"}
      /\ \A i \in 2 .. k : p[i] \notin {"<script>", "<head>"}
  BY <1>1, ElementTags
<1>3. /\ n[1] \in {"<script>", "<head>"} /\ n[2] \in {"</script>", "</head>"}
      /\ \A e \in Elements : e[1] \in {"<script>", "<head>"} /\ (e[1] = n[1] => e[2] = n[2])
  BY DEF Elements
<1> HIDE DEF k
<1>4. Closed(p)
  <2>1. ASSUME NEW o \in 1 .. k, NEW e \in Elements, p[o] = e[1] PROVE \E c \in o .. k : p[c] = e[2]
    <3>1. o = 1
      <4>1. o \notin 2 .. k
        BY <1>2, <1>3, <2>1
      <4> QED
        BY <1>1, <4>1
    <3>2. p[k] = e[2] /\ k \in o .. k
      BY <1>1, <1>2, <1>3, <2>1, <3>1
    <3> QED
      BY <3>2
  <2> QED
    BY <2>1 DEF Closed, k
<1>5. ASSUME NEW i \in 1 .. k PROVE Pieces(p)[i] = none
  <2>1. Pieces(p)[i] = IF Hidden(p, i) THEN none ELSE Glyph(p[i])
    BY PiecesTyped DEF k
  <2>2. CASE i \in {1, k}
    <3>1. p[i] \in {"<script>", "<head>", "</script>", "</head>"}
      BY <1>2, <1>3, <2>2
    <3>2. Glyph(p[i]) = none
      BY <3>1 DEF Glyph
    <3> QED
      BY <2>1, <3>2
  <2>3. CASE i \notin {1, k}
    <3>1. i \in 2 .. k - 1 /\ 1 \in 1 .. i - 1
      BY <1>1, <2>3
    <3>2. \A c \in 1 .. i : p[c] # n[2]
      <4>1. \A c \in 1 .. i : c \in 1 .. k - 1
        BY <1>1, <3>1
      <4> QED
        BY <1>2, <1>3, <4>1
    <3>3. Hidden(p, i)
      BY <1>2, <3>1, <3>2 DEF Hidden
    <3> QED
      BY <2>1, <3>3
  <2> QED
    BY <2>2, <2>3
<1>6. Pieces(p) \in Seq({none})
  <2> DEFINE s == Pieces(p)
  <2>1. s \in Seq(Seq(Tokens)) /\ Len(s) = k
    BY PiecesTyped DEF k
  <2>2. \A i \in 1 .. k : s[i] \in {none}
    BY <1>5
  <2> HIDE DEF s, none
  <2>3. s \in [1 .. k -> {none}]
    <3> DEFINE S == Seq(Tokens)
    <3>1. s \in Seq(S)
      BY <2>1
    <3> HIDE DEF S
    <3>2. s \in [1 .. k -> S]
      BY <2>1, <3>1, LenProperties
    <3> QED
      BY <2>2, <3>2
  <2> QED
    BY <1>1, <2>3 DEF s
<1>7. VisibleGlyphs(p) = none
  <2>1. FlattenSeq(Pieces(p)) = <<>>
    BY <1>6, FlattenNothing
  <2> QED
    BY <2>1 DEF VisibleGlyphs, Pieces
<1>8. v \in Seq(Tokens)
  <2> DEFINE S == Seq(Tokens)
             s == Pieces(w)
  <2>1. s \in Seq(S)
    BY PiecesTyped
  <2> HIDE DEF S, s
  <2>2. IsFlat(FlattenSeq(s), Tokens, s, Len(s))
    BY <2>1, FlattenOrdered DEF S
  <2> QED
    BY <2>2 DEF IsFlat, s, VisibleGlyphs, Pieces
<1>9. VisibleGlyphs(p \o w) = VisibleGlyphs(p) \o VisibleGlyphs(w)
  BY <1>4, VisibleConcat
<1>10. none \o v = v
  BY <1>8, ConcatEmptySeq
<1> HIDE DEF none
<1> QED
  BY <1>7, <1>9, <1>10

\* The tokens of a document without a header element, and the elements of one
\* closed and not nested.
Simple == Plain \ {"<header>"}

Paired(doc) ==
  \A i \in 1 .. Len(doc), n \in Elements : doc[i] = n[1] =>
    \E j \in i + 1 .. Len(doc) :
      doc[j] = n[2] /\ \A k \in i + 1 .. j - 1 : doc[k] \notin Tags \ {"<p>", "<b>"}

\* The rest of a document, behind its first k tokens.
LEMMA RestPaired ==
  ASSUME NEW A, NEW doc \in Seq(A), Paired(doc), NEW k \in 1 .. Len(doc)
  PROVE  LET p == SubSeq(doc, 1, k)
             w == SubSeq(doc, k + 1, Len(doc))
         IN  /\ doc = p \o w /\ p \in Seq(A) /\ w \in Seq(A) /\ Len(w) = Len(doc) - k /\ Paired(w)
             /\ Len(p) = k /\ \A i \in 1 .. k : p[i] = doc[i]
<1> DEFINE L == Len(doc)
           p == SubSeq(doc, 1, k)
           w == SubSeq(doc, k + 1, L)
<1>1. L \in Nat /\ \A i \in 1 .. L : doc[i] \in A
  BY LenProperties, ElementOfSeq
<1>2. doc = p \o w
  <2>1. 1 \in 1 .. Len(doc) + 1 /\ k \in 1 - 1 .. Len(doc) /\ L \in k .. Len(doc)
    BY <1>1
  <2>2. p \o w = SubSeq(doc, 1, L)
    BY <2>1, ConcatAdjacentSubSeq
  <2> QED
    BY <2>2, SubSeqFull
<1>3. p \in Seq(A) /\ Len(p) = k /\ \A i \in 1 .. k : p[i] = doc[i]
  <2>1. 1 \in Int /\ k \in Int /\ \A i \in 1 .. k : doc[i] \in A
    BY <1>1
  <2>2. p \in Seq(A) /\ Len(p) = (IF 1 <= k THEN k - 1 + 1 ELSE 0)
        /\ \A i \in 1 .. k - 1 + 1 : p[i] = doc[1 + i - 1]
    BY <2>1, SubSeqProperties
  <2> HIDE DEF p
  <2> QED
    BY <2>1, <2>2
<1>4. w \in Seq(A) /\ Len(w) = L - k /\ \A i \in 1 .. L - k : w[i] = doc[k + i]
  <2>1. k + 1 \in Int /\ L \in Int /\ \A i \in k + 1 .. L : doc[i] \in A
    BY <1>1
  <2>2. w \in Seq(A) /\ Len(w) = (IF k + 1 <= L THEN L - (k + 1) + 1 ELSE 0)
        /\ \A i \in 1 .. L - (k + 1) + 1 : w[i] = doc[(k + 1) + i - 1]
    BY <2>1, SubSeqProperties
  <2>3. L - (k + 1) + 1 = L - k /\ \A i \in 1 .. L - k : (k + 1) + i - 1 = k + i
    BY <1>1
  <2> HIDE DEF w
  <2>4. Len(w) = L - k
    BY <1>1, <2>2
  <2> QED
    BY <2>2, <2>3, <2>4
<1>5. \A i \in 1 .. L, n \in Elements : doc[i] = n[1] =>
        \E j \in i + 1 .. L : doc[j] = n[2] /\ \A c \in i + 1 .. j - 1 : doc[c] \notin Tags \ {"<p>", "<b>"}
  BY DEF Paired
<1> HIDE DEF p, w, L
<1>6. Paired(w)
  <2>1. ASSUME NEW i \in 1 .. L - k, NEW n \in Elements, w[i] = n[1]
        PROVE  \E j \in i + 1 .. L - k :
                 w[j] = n[2] /\ \A c \in i + 1 .. j - 1 : w[c] \notin Tags \ {"<p>", "<b>"}
    <3>1. k + i \in 1 .. L /\ doc[k + i] = n[1]
      BY <1>1, <1>4, <2>1
    <3>2. PICK j \in (k + i) + 1 .. L :
            doc[j] = n[2] /\ \A c \in (k + i) + 1 .. j - 1 : doc[c] \notin Tags \ {"<p>", "<b>"}
      BY <1>5, <3>1
    <3>3. j - k \in i + 1 .. L - k /\ j - k \in 1 .. L - k /\ k + (j - k) = j
      BY <1>1, <3>1
    <3>4. w[j - k] = n[2]
      BY <1>4, <3>2, <3>3
    <3>5. ASSUME NEW c \in i + 1 .. (j - k) - 1 PROVE w[c] \notin Tags \ {"<p>", "<b>"}
      <4>1. c \in 1 .. L - k /\ k + c \in (k + i) + 1 .. j - 1
        BY <1>1, <3>3
      <4> QED
        BY <1>4, <3>2, <4>1
    <3> QED
      BY <3>3, <3>4, <3>5
  <2> QED
    BY <1>4, <2>1 DEF Paired
<1> QED
  BY <1>2, <1>3, <1>4, <1>6 DEF p, w, L

\* The glyph of a token, with tags and without.
ForGlyph == [t \in Plain |-> Glyph(t)]
ForInk == [t \in Untagged |-> Glyph(t)]

\* The glyphs of what strip_elements leaves are those of the document that are
\* visible.
LEMMA StripKeepsVisible ==
  ASSUME NEW document \in Seq(Simple), Paired(document)
  PROVE  Mapped(StripElements(document), ForGlyph) = VisibleGlyphs(document)
<1> DEFINE none == <<>>
           Law(d) == Paired(d) => Mapped(StripElements(d), ForGlyph) = VisibleGlyphs(d)
           T == {d \in Seq(Simple) : Law(d)}
<1>1. Simple \subseteq Plain /\ Plain \subseteq Tokens
  BY DEF Simple, Plain
<1>2. \A d \in Seq(Simple) : d \in Seq(Plain) /\ d \in Seq(Tokens)
  BY <1>1, SeqMonotonic
<1>3. ForGlyph \in [Plain -> Seq(Tokens)] /\ \A t \in Plain : ForGlyph[t] = Glyph(t)
  BY GlyphTyped DEF ForGlyph
<1>4. Mapped(StripElements(none), ForGlyph) = VisibleGlyphs(none)
  <2>1. StripElements(none) = none
    BY StripEmpty, StripElementsIs DEF Stripped
  <2>2. Mapped(none, ForGlyph) = none
    BY MappedEmpty
  <2>3. VisibleGlyphs(none) = none
    <3>1. Len(none) = 0
      BY EmptySeq
    <3>2. Pieces(none) = none
      BY <3>1 DEF Pieces
    <3>3. VisibleGlyphs(none) = FlattenSeq(Pieces(none))
      BY DEF VisibleGlyphs, Pieces
    <3> QED
      BY <3>2, <3>3, FlattenEmpty
  <2> HIDE DEF none
  <2> QED
    BY <2>1, <2>2, <2>3
<1>5. ASSUME NEW d \in Seq(Simple), \A t \in Seq(Simple) : Len(t) < Len(d) => t \in T,
             d # none, Paired(d)
      PROVE  Mapped(StripElements(d), ForGlyph) = VisibleGlyphs(d)
  <2>1. Len(d) \in Nat \ {0} /\ \A i \in 1 .. Len(d) : d[i] \in Simple
    BY <1>5, EmptySeq, ElementOfSeq
  <2>2. CASE d[1] \notin {"<script>", "<head>"}
    <3> DEFINE a == d[1]
               w == SubSeq(d, 1 + 1, Len(d))
               u == StripElements(w)
               one == <<a>>
    <3>1. /\ a \in Simple /\ a \in Plain \ {"<script>", "<head>", "<header>"}
          /\ a \in Tokens \ {"<script>", "<head>"}
      BY <1>1, <2>1, <2>2 DEF Simple
    <3>2. 1 \in 1 .. Len(d)
      BY <2>1
    <3>3. d = SubSeq(d, 1, 1) \o w /\ w \in Seq(Simple) /\ Len(w) = Len(d) - 1 /\ Paired(w)
      BY <1>5, <3>2, RestPaired
    <3>4. SubSeq(d, 1, 1) = one
      <4> DEFINE sub == SubSeq(d, 1, 1)
      <4>1. sub \in Seq(Simple) /\ Len(sub) = 1 /\ \A i \in 1 .. 1 : sub[i] = d[i]
        BY <1>5, <3>2, RestPaired
      <4>2. one \in Seq(Simple) /\ Len(one) = 1 /\ one[1] = a
        BY <3>1
      <4> HIDE DEF sub, one
      <4>3. Len(sub) = Len(one) /\ \A i \in 1 .. Len(sub) : sub[i] = one[i]
        BY <4>1, <4>2
      <4>4. sub = one
        BY <4>1, <4>2, <4>3, SeqEqual
      <4> QED
        BY <4>4 DEF sub
    <3>5. d = one \o w
      BY <3>3, <3>4
    <3>6. w \in Seq(Plain) /\ w \in Seq(Tokens) /\ one \in Seq(Plain)
      BY <1>2, <3>1, <3>3
    <3>7. Mapped(u, ForGlyph) = VisibleGlyphs(w)
      <4>1. Len(w) < Len(d)
        BY <2>1, <3>3
      <4>2. w \in T
        BY <1>5, <3>3, <4>1
      <4> QED
        BY <3>3, <4>2
    <3> HIDE DEF w, a
    <3>8. StripElements(one \o w) = one \o u
      BY <3>1, <3>6, StripsToken
    <3>9. VisibleGlyphs(one \o w) = Glyph(a) \o VisibleGlyphs(w)
      BY <3>1, <3>6, VisibleToken
    <3>10. u \in Seq(Plain)
      <4>1. StripElement(w, "script") \in Seq(Plain)
        BY <3>6, StripTyped
      <4>2. StripElement(StripElement(w, "script"), "style") \in Seq(Plain)
        BY <4>1, StripTyped
      <4>3. Stripped(w) \in Seq(Plain)
        BY <4>2, StripTyped DEF Stripped
      <4> QED
        BY <4>3, StripElementsIs
    <3>11. Mapped(one, ForGlyph) = Glyph(a)
      <4>1. Mapped(<<a>>, ForGlyph) = ForGlyph[a]
        BY <1>3, <3>1, MappedOne
      <4> QED
        BY <1>3, <3>1, <4>1
    <3> HIDE DEF u, one
    <3>12. Mapped(one \o u, ForGlyph) = Mapped(one, ForGlyph) \o Mapped(u, ForGlyph)
      BY <1>3, <3>6, <3>10, MappedConcat
    <3> QED
      BY <3>5, <3>7, <3>8, <3>9, <3>11, <3>12
  <2>3. CASE d[1] \in {"<script>", "<head>"}
    <3>1. PICK n \in Elements : d[1] = n[1]
      <4>1. <<"<script>", "</script>">> \in Elements /\ <<"<head>", "</head>">> \in Elements
        BY DEF Elements
      <4> QED
        BY <2>3, <4>1
    <3>2. PICK j \in 1 + 1 .. Len(d) :
            d[j] = n[2] /\ \A i \in 1 + 1 .. j - 1 : d[i] \notin Tags \ {"<p>", "<b>"}
      <4>1. 1 \in 1 .. Len(d)
        BY <2>1
      <4> QED
        BY <1>5, <3>1, <4>1 DEF Paired
    <3> DEFINE p == SubSeq(d, 1, j)
               w == SubSeq(d, j + 1, Len(d))
    <3>3. j \in 1 .. Len(d) /\ j >= 2 /\ 1 + 1 = 2
      BY <2>1
    <3>4. /\ d = p \o w /\ p \in Seq(Simple) /\ w \in Seq(Simple) /\ Len(w) = Len(d) - j /\ Paired(w)
          /\ Len(p) = j /\ \A i \in 1 .. j : p[i] = d[i]
      BY <1>5, <3>3, RestPaired
    <3> HIDE DEF p, w
    <3>5. IsElement(p, n)
      <4>1. 1 \in 1 .. j /\ j \in 1 .. j /\ \A i \in 2 .. j - 1 : i \in 1 .. j
        BY <3>3
      <4>2. p[1] = n[1] /\ p[j] = n[2]
        BY <3>1, <3>2, <3>4, <4>1
      <4>3. \A i \in 2 .. j - 1 : p[i] \notin Tags \ {"<p>", "<b>"}
        BY <3>2, <3>3, <3>4, <4>1
      <4> QED
        BY <3>3, <3>4, <4>2, <4>3 DEF IsElement
    <3>6. p \in Seq(Plain) /\ p \in Seq(Tokens) /\ w \in Seq(Plain) /\ w \in Seq(Tokens)
      BY <1>2, <3>4
    <3>7. StripElements(p \o w) = StripElements(w)
      BY <3>5, <3>6, StripsElement
    <3>8. VisibleGlyphs(p \o w) = VisibleGlyphs(w)
      BY <3>5, <3>6, VisibleElement
    <3>9. w \in T
      <4>1. Len(w) < Len(d)
        BY <2>1, <3>3, <3>4
      <4> QED
        BY <1>5, <3>4, <4>1
    <3>10. Mapped(StripElements(w), ForGlyph) = VisibleGlyphs(w)
      BY <3>4, <3>9
    <3> QED
      BY <3>4, <3>7, <3>8, <3>10
  <2> QED
    BY <2>2, <2>3
<1>6. ASSUME NEW d \in Seq(Simple), \A t \in Seq(Simple) : Len(t) < Len(d) => t \in T PROVE d \in T
  <2>1. Law(d)
    BY <1>4, <1>5, <1>6
  <2> HIDE DEF Law
  <2> QED
    BY <2>1
<1> HIDE DEF T
<1>7. document \in T
  BY <1>6, LengthInduction
<1> QED
  BY <1>7 DEF T

-----------------------------------------------------------------------------
(***************************************************************************)
(* The glyphs tidy keeps.                                                  *)
(***************************************************************************)
\* What is left of a token of a line, and of a text of several lines.
ForLine == [t \in Tokens |-> IF t = Space THEN <<>> ELSE <<t>>]
ForText == [t \in Tokens |-> IF t \in Blanks THEN <<>> ELSE <<t>>]

\* Both are texts.
LEMMA ForTyped == ForLine \in [Tokens -> Seq(Tokens)] /\ ForText \in [Tokens -> Seq(Tokens)]
<1> DEFINE none == <<>>
           One(t) == <<t>>
<1>1. none \in Seq(Tokens) /\ \A t \in Tokens : One(t) \in Seq(Tokens)
  BY EmptySeq
<1>2. /\ ForLine = [t \in Tokens |-> IF t = Space THEN none ELSE One(t)]
      /\ ForText = [t \in Tokens |-> IF t \in Blanks THEN none ELSE One(t)]
  BY DEF ForLine, ForText
<1> HIDE DEF none, One
<1> QED
  BY <1>1, <1>2

\* The glyphs of lines are what is left of their tokens.
LEMMA GlyphsMapped ==
  ASSUME NEW lines \in Seq(Seq(Tokens))
  PROVE  FlattenSeq(lines) \in Seq(Tokens) /\ Glyphs(lines) = Mapped(FlattenSeq(lines), ForLine)
<1> DEFINE S == Seq(Tokens)
           text == FlattenSeq(lines)
           none == <<>>
           One(t) == <<t>>
<1>1. text \in Seq(Tokens)
  <2>1. IsFlat(text, Tokens, lines, Len(lines))
    BY FlattenOrdered
  <2> QED
    BY <2>1 DEF IsFlat
<1>2. Glyphs(lines) = FlattenSeq([i \in 1 .. Len(text) |-> IF text[i] = Space THEN none ELSE One(text[i])])
  BY DEF Glyphs
<1>3. \A t \in Tokens : ForLine[t] = IF t = Space THEN none ELSE One(t)
  BY DEF ForLine
<1> HIDE DEF text, none, One
<1>4. \A i \in 1 .. Len(text) : text[i] \in Tokens
  BY <1>1, ElementOfSeq
<1>5. [i \in 1 .. Len(text) |-> IF text[i] = Space THEN none ELSE One(text[i])]
      = [i \in 1 .. Len(text) |-> ForLine[text[i]]]
  BY <1>3, <1>4
<1> QED
  BY <1>1, <1>2, <1>5 DEF Mapped, text

\* The glyphs of one line more.
LEMMA GlyphsAppend ==
  ASSUME NEW lines \in Seq(Seq(Tokens)), NEW l \in Seq(Tokens)
  PROVE  /\ Glyphs(lines \o <<l>>) = Glyphs(lines) \o Mapped(l, ForLine)
         /\ Append(lines, l) = lines \o <<l>> /\ lines \o <<l>> \in Seq(Seq(Tokens))
<1> DEFINE S == Seq(Tokens)
           more == lines \o <<l>>
           text == FlattenSeq(lines)
<1>1. more = Append(lines, l) /\ more \in Seq(S)
  <2>1. lines \in Seq(S) /\ l \in S
    OBVIOUS
  <2> HIDE DEF S
  <2>2. more = Append(lines, l)
    BY <2>1, AppendIsConcat
  <2>3. Append(lines, l) \in Seq(S)
    BY <2>1, AppendProperties
  <2> HIDE DEF more
  <2> QED
    BY <2>2, <2>3
<1>2. FlattenSeq(more) = text \o l
  BY FlattenAppend
<1>3. text \in Seq(Tokens) /\ Glyphs(lines) = Mapped(text, ForLine)
  BY GlyphsMapped
<1>4. Glyphs(more) = Mapped(FlattenSeq(more), ForLine)
  <2> HIDE DEF more
  <2> QED
    BY <1>1, GlyphsMapped
<1> HIDE DEF text
<1>5. Mapped(text \o l, ForLine) = Mapped(text, ForLine) \o Mapped(l, ForLine)
  BY <1>3, ForTyped, MappedConcat
<1> HIDE DEF more
<1>6. Glyphs(more) = Glyphs(lines) \o Mapped(l, ForLine)
  BY <1>2, <1>3, <1>4, <1>5
<1> QED
  BY <1>1, <1>6 DEF more, S

\* Glyphs are a text.
LEMMA GlyphsTyped ==
  ASSUME NEW lines \in Seq(Seq(Tokens))
  PROVE  Glyphs(lines) \in Seq(Tokens)
<1> DEFINE text == FlattenSeq(lines)
<1>1. text \in Seq(Tokens) /\ Glyphs(lines) = Mapped(text, ForLine)
  BY GlyphsMapped
<1> HIDE DEF text
<1>2. Mapped(text, ForLine) \in Seq(Tokens)
  BY <1>1, ForTyped, MappedTyped
<1> QED
  BY <1>1, <1>2

\* No line has no glyph.
LEMMA GlyphsEmpty == Glyphs(<<>>) = <<>>
<1> DEFINE none == <<>>
<1>1. none \in Seq(Seq(Tokens))
  BY EmptySeq
<1>2. FlattenSeq(none) = none /\ Mapped(none, ForLine) = none
  BY FlattenEmpty, MappedEmpty
<1> HIDE DEF none
<1>3. Glyphs(none) = Mapped(FlattenSeq(none), ForLine)
  BY <1>1, GlyphsMapped
<1>4. Glyphs(none) = none
  BY <1>2, <1>3
<1> QED
  BY <1>4 DEF none

\* A blank line has no glyphs.
LEMMA GlyphsBlank ==
  ASSUME NEW lines \in Seq(Seq(Tokens))
  PROVE  Glyphs(lines \o <<<<>>>>) = Glyphs(lines)
<1> DEFINE none == <<>>
           g == Glyphs(lines)
<1>1. none \in Seq(Tokens) /\ Mapped(none, ForLine) = none
  BY EmptySeq, MappedEmpty
<1>2. g \in Seq(Tokens)
  BY GlyphsTyped
<1>3. g \o none = g
  BY <1>2, ConcatEmptySeq
<1> HIDE DEF none, g
<1>4. Glyphs(lines \o <<none>>) = Glyphs(lines) \o Mapped(none, ForLine)
  BY <1>1, GlyphsAppend
<1>5. Glyphs(lines \o <<none>>) = g
  BY <1>1, <1>3, <1>4 DEF g
<1> QED
  BY <1>5 DEF g, none

\* trim and collapse_spaces lose no glyph of a line.
LEMMA CollapseKeepsGlyphs ==
  ASSUME NEW line \in Seq(Tokens)
  PROVE  /\ CollapseSpaces(line) \in Seq(Tokens)
         /\ Mapped(CollapseSpaces(line), ForLine) = Mapped(line, ForLine)
<1> DEFINE L == Len(line)
           none == <<>>
           Of(s) == Mapped(s, ForLine)
           Seen(n) == SubSeq(line, 1, n)
<1>1. PICK f : CollapseRun(f, line) /\ CollapseSpaces(line) = f[L].line
  BY CollapseLoop
<1>2. L \in Nat
  BY LenProperties
<1>3. \A n \in 0 .. L : f[n].line \in Seq(Tokens)
  BY <1>1 DEF CollapseRun, CollapseStates, NeatLines
<1> DEFINE Inv(n) == Of(f[n].line) = Of(Seen(n))
           U == {n \in 0 .. L : Inv(n)}
<1>4. 0 \in U
  <2>1. f[0].line = none
    BY <1>1 DEF CollapseRun
  <2>2. Seen(0) = none
    BY SubSeqEmpty
  <2> HIDE DEF none, Seen
  <2>3. Inv(0)
    BY <2>1, <2>2
  <2> HIDE DEF Inv
  <2> QED
    BY <1>2, <2>3
<1>5. ASSUME NEW n \in 1 .. L, n - 1 \in U PROVE n \in U
  <2> DEFINE s == f[n - 1]
             was == s.line
             t == line[n]
             old == Seen(n - 1)
             one == <<t>>
             sp == <<Space>>
             m == ForLine[t]
             o == Of(was)
  <2>1. Of(was) = Of(old)
    BY <1>5
  <2>2. Seen(n) = old \o one /\ old \in Seq(Tokens) /\ t \in Tokens
    BY PrefixGrows
  <2>3. was \in Seq(Tokens) /\ f[n] = Collapse(s, t)
    <3>1. n - 1 \in 0 .. L /\ n \in 1 .. Len(line)
      BY <1>2
    <3> QED
      BY <1>1, <1>3, <3>1 DEF CollapseRun
  <2>4. Of(old \o one) = Of(old) \o m /\ Of(was \o one) = Of(was) \o m
    <3> HIDE DEF was, old, t
    <3>1. Mapped(old \o <<t>>, ForLine) = Mapped(old, ForLine) \o ForLine[t]
      BY <2>2, ForTyped, MappedAppend
    <3>2. Mapped(was \o <<t>>, ForLine) = Mapped(was, ForLine) \o ForLine[t]
      BY <2>2, <2>3, ForTyped, MappedAppend
    <3> QED
      BY <3>1, <3>2
  <2>5. o \in Seq(Tokens) /\ Space \in Tokens /\ ForLine[Space] = none
    <3>1. Space \in Tokens
      BY DEF Tokens, Blanks
    <3>2. ForLine[Space] = none
      BY <3>1 DEF ForLine
    <3> HIDE DEF was
    <3>3. Mapped(was, ForLine) \in Seq(Tokens)
      BY <2>3, ForTyped, MappedTyped
    <3> QED
      BY <3>1, <3>2, <3>3
  <2>6. o \o none = o
    BY <2>5, ConcatEmptySeq
  <2>7. Of(was \o sp) = o
    <3>1. Mapped(was \o <<Space>>, ForLine) = Mapped(was, ForLine) \o ForLine[Space]
      <4> HIDE DEF was
      <4> QED
        BY <2>3, <2>5, ForTyped, MappedAppend
    <3> HIDE DEF none, was
    <3> QED
      BY <2>5, <2>6, <3>1
  <2>8. CASE t = Space
    <3>1. f[n].line = was
      BY <2>3, <2>8, <1>1 DEF Collapse, CollapseRun, CollapseStates
    <3>2. m = none
      BY <2>5, <2>8
    <3> HIDE DEF none, was, m, one, old, Seen
    <3>3. Inv(n)
      BY <2>1, <2>2, <2>4, <2>6, <3>1, <3>2
    <3> HIDE DEF Inv
    <3> QED
      BY <3>3
  <2>9. CASE t # Space /\ ~s.gap
    <3>1. f[n].line = Append(was, t)
      BY <2>3, <2>9 DEF Collapse
    <3>2. Append(was, t) = was \o one
      BY <2>2, <2>3, AppendIsConcat
    <3> HIDE DEF was, m, one, old, Seen
    <3>3. Inv(n)
      BY <2>1, <2>2, <2>4, <3>1, <3>2
    <3> HIDE DEF Inv
    <3> QED
      BY <3>3
  <2>10. CASE t # Space /\ s.gap
    <3>1. f[n].line = was \o <<Space, t>>
      BY <2>3, <2>10 DEF Collapse
    <3>2. was \o <<Space, t>> = (was \o sp) \o one
      <4> DEFINE two == <<Space, t>>
      <4>1. two = sp \o one /\ sp \in Seq(Tokens) /\ one \in Seq(Tokens)
        BY <2>2, <2>5
      <4> HIDE DEF two, sp, one, was
      <4>2. Assoc(was, sp, one)
        BY <2>3, <4>1, Associative
      <4>3. was \o two = (was \o sp) \o one
        BY <4>1, <4>2 DEF Assoc
      <4> QED
        BY <4>3 DEF two
    <3>3. Of((was \o sp) \o one) = Of(was \o sp) \o m
      <4> DEFINE q == was \o sp
      <4>1. sp \in Seq(Tokens)
        BY <2>5
      <4>2. q \in Seq(Tokens)
        <5> HIDE DEF sp, was
        <5> QED
          BY <2>3, <4>1, ConcatProperties
      <4> HIDE DEF q, t
      <4>3. Mapped(q \o <<t>>, ForLine) = Mapped(q, ForLine) \o ForLine[t]
        BY <2>2, <4>2, ForTyped, MappedAppend
      <4> QED
        BY <4>3 DEF q
    <3> HIDE DEF was, m, one, old, Seen, sp
    <3>4. Inv(n)
      BY <2>1, <2>2, <2>4, <2>7, <3>1, <3>2, <3>3
    <3> HIDE DEF Inv
    <3> QED
      BY <3>4
  <2> QED
    BY <2>8, <2>9, <2>10
<1> HIDE DEF U
<1>6. \A n \in 0 .. L : n \in U
  BY <1>2, <1>4, <1>5, UpTo
<1>7. Of(f[L].line) = Of(Seen(L))
  <2>1. L \in U
    BY <1>2, <1>6
  <2> QED
    BY <2>1 DEF U
<1>8. Seen(L) = line
  BY SubSeqFull
<1>9. f[L].line \in Seq(Tokens)
  BY <1>2, <1>3
<1> HIDE DEF Seen
<1> QED
  BY <1>1, <1>7, <1>8, <1>9

\* A token more on the last line.
LEMMA GlyphsLast ==
  ASSUME NEW r \in LineLists, NEW t \in Tokens
  PROVE  Glyphs([r EXCEPT ![Len(r)] = Append(@, t)]) = Glyphs(r) \o ForLine[t]
<1> DEFINE S == Seq(Tokens)
           k == Len(r)
           l == r[k]
           long == l \o <<t>>
           front == SubSeq(r, 1, k - 1)
           new == [r EXCEPT ![k] = long]
           put == front \o <<long>>
           m == ForLine[t]
           x == Glyphs(front)
           y == Mapped(l, ForLine)
<1>1. r \in Seq(S) /\ k \in Nat \ {0}
  BY LenProperties DEF LineLists
<1>2. l \in S
  BY <1>1, ElementOfSeq
<1>3. Append(l, t) = long /\ long \in S
  <2>1. Append(l, t) = long
    BY <1>2, AppendIsConcat
  <2>2. Append(l, t) \in S
    BY <1>2, AppendProperties
  <2> HIDE DEF long, l
  <2> QED
    BY <2>1, <2>2
<1>4. [r EXCEPT ![Len(r)] = Append(@, t)] = new
  BY <1>3
<1> HIDE DEF S, long
<1>5. front \in Seq(S) /\ r = front \o <<l>>
  <2>1. k \in 1 .. Len(r) /\ SubSeq(r, 1, k) = r
    BY <1>1, SubSeqFull
  <2> QED
    BY <1>1, <2>1, PrefixGrows
<1>6. Len(front) = k - 1 /\ \A i \in 1 .. k - 1 : front[i] = r[i]
  <2>1. 1 \in Int /\ k - 1 \in Int /\ \A i \in 1 .. k - 1 : r[i] \in S
    BY <1>1, ElementOfSeq
  <2>2. Len(front) = (IF 1 <= k - 1 THEN (k - 1) - 1 + 1 ELSE 0)
        /\ \A i \in 1 .. (k - 1) - 1 + 1 : front[i] = r[1 + i - 1]
    BY <2>1, SubSeqProperties
  <2> HIDE DEF front, k
  <2> QED
    BY <1>1, <2>2
<1> HIDE DEF front
<1>7. put = new
  <2>1. put = Append(front, long)
    BY <1>3, <1>5, AppendIsConcat
  <2>2. /\ Append(front, long) \in Seq(S) /\ Len(Append(front, long)) = Len(front) + 1
        /\ \A i \in 1 .. Len(front) : Append(front, long)[i] = front[i]
        /\ Append(front, long)[Len(front) + 1] = long
    BY <1>3, <1>5, AppendProperties
  <2>3. r \in [1 .. k -> S]
    BY <1>1, LenProperties
  <2> HIDE DEF k, put
  <2>4. new \in Seq(S) /\ Len(new) = k /\ \A i \in 1 .. k : new[i] = IF i = k THEN long ELSE r[i]
    BY <1>1, <1>3, <2>3
  <2> HIDE DEF new
  <2>5. put \in Seq(S) /\ Len(put) = k /\ put[k] = long /\ \A i \in 1 .. k - 1 : put[i] = r[i]
    BY <1>1, <1>6, <2>1, <2>2
  <2>6. ASSUME NEW i \in 1 .. k PROVE put[i] = new[i]
    <3>1. CASE i = k
      BY <2>4, <2>5, <3>1
    <3>2. CASE i # k
      <4>1. i \in 1 .. k - 1
        BY <1>1, <3>2
      <4> QED
        BY <2>4, <2>5, <3>2, <4>1
    <3> QED
      BY <3>1, <3>2
  <2>7. Len(put) = Len(new) /\ \A i \in 1 .. Len(put) : put[i] = new[i]
    BY <2>4, <2>5, <2>6
  <2> QED
    BY <2>4, <2>5, <2>7, SeqEqual
<1> HIDE DEF new, l
<1>8. Glyphs(put) = x \o Mapped(long, ForLine)
  BY <1>3, <1>5, GlyphsAppend DEF S
<1>9. Glyphs(front \o <<l>>) = x \o y
  BY <1>2, <1>5, GlyphsAppend DEF S
<1>10. Mapped(long, ForLine) = y \o m
  BY <1>2, ForTyped, MappedAppend DEF S, long
<1>11. x \in S /\ y \in S /\ m \in S
  <2>1. x \in S
    BY <1>5, GlyphsTyped DEF S
  <2>2. y \in S
    BY <1>2, ForTyped, MappedTyped DEF S
  <2> QED
    BY <2>1, <2>2, ForTyped DEF S
<1> HIDE DEF x, y, m
<1>12. Assoc(x, y, m)
  BY <1>11, Associative DEF S
<1>13. Glyphs(new) = Glyphs(r) \o m
  BY <1>5, <1>7, <1>8, <1>9, <1>10, <1>12 DEF Assoc
<1> QED
  BY <1>4, <1>13 DEF m

\* lines() loses no glyph.
LEMMA LinesKeepGlyphs ==
  ASSUME NEW text \in Seq(Tokens)
  PROVE  Lines(text) \in Seq(Seq(Tokens)) /\ Glyphs(Lines(text)) = Mapped(text, ForText)
<1> DEFINE L == Len(text)
           none == <<>>
           Of(s) == Mapped(s, ForText)
           Seen(n) == SubSeq(text, 1, n)
<1>1. PICK f : LinesRun(f, text) /\ Lines(text) = f[L]
  BY LinesLoop
<1>2. L \in Nat
  BY LenProperties
<1>3. \A n \in 0 .. L : f[n] \in LineLists
  BY <1>1 DEF LinesRun
<1>4. none \in Seq(Seq(Tokens)) /\ none \in Seq(Tokens)
  BY EmptySeq
<1> DEFINE Inv(n) == Glyphs(f[n]) = Of(Seen(n))
           U == {n \in 0 .. L : Inv(n)}
<1>5. 0 \in U
  <2> DEFINE first == <<none>>
  <2>1. f[0] = first
    BY <1>1 DEF LinesRun
  <2>2. Seen(0) = none /\ Of(none) = none
    BY SubSeqEmpty, MappedEmpty
  <2>3. Glyphs(first) = none
    <3>1. none \o first = first
      <4>1. first \in Seq(Seq(Tokens))
        BY <1>4
      <4> HIDE DEF first
      <4> QED
        BY <4>1, ConcatEmptySeq
    <3>2. Glyphs(none \o first) = Glyphs(none)
      BY <1>4, GlyphsBlank
    <3>3. Glyphs(none) = none
      BY GlyphsEmpty
    <3> HIDE DEF none, first
    <3> QED
      BY <3>1, <3>2, <3>3
  <2> HIDE DEF none, first, Seen, Of
  <2>4. Inv(0)
    BY <2>1, <2>2, <2>3
  <2> HIDE DEF Inv
  <2> QED
    BY <1>2, <2>4
<1>6. ASSUME NEW n \in 1 .. L, n - 1 \in U PROVE n \in U
  <2> DEFINE r == f[n - 1]
             t == text[n]
             old == Seen(n - 1)
             m == ForText[t]
             g == Glyphs(r)
  <2>1. g = Of(old)
    BY <1>6
  <2>2. Seen(n) = old \o <<t>> /\ old \in Seq(Tokens) /\ t \in Tokens
    BY PrefixGrows
  <2>3. /\ r \in LineLists /\ r \in Seq(Seq(Tokens))
        /\ f[n] = IF t = Newline THEN Append(r, none) ELSE [r EXCEPT ![Len(r)] = Append(@, t)]
    <3>1. n - 1 \in 0 .. L /\ n \in 1 .. Len(text)
      BY <1>2
    <3>2. r \in LineLists
      BY <1>3, <3>1
    <3>3. f[n] = IF t = Newline THEN Append(r, none) ELSE [r EXCEPT ![Len(r)] = Append(@, t)]
      BY <1>1, <3>1 DEF LinesRun
    <3> QED
      BY <3>2, <3>3 DEF LineLists
  <2>4. Of(Seen(n)) = Of(old) \o m
    <3> HIDE DEF old, t
    <3>1. Mapped(old \o <<t>>, ForText) = Mapped(old, ForText) \o ForText[t]
      BY <2>2, ForTyped, MappedAppend
    <3> QED
      BY <2>2, <3>1
  <2>5. CASE t = Newline
    <3> HIDE DEF r
    <3>1. Append(r, none) = r \o <<none>>
      BY <1>4, <2>3, GlyphsAppend
    <3>2. Glyphs(r \o <<none>>) = g
      BY <2>3, GlyphsBlank
    <3>3. m = none
      BY <2>2, <2>5 DEF ForText, Blanks
    <3>4. g \o none = g
      BY <2>3, GlyphsTyped, ConcatEmptySeq
    <3>5. f[n] = Append(r, none)
      BY <2>3, <2>5
    <3> HIDE DEF none, g, m, Seen, Of, old
    <3>6. Inv(n)
      BY <2>1, <2>4, <3>1, <3>2, <3>3, <3>4, <3>5
    <3> HIDE DEF Inv
    <3> QED
      BY <3>6
  <2>6. CASE t # Newline
    <3>1. f[n] = [r EXCEPT ![Len(r)] = Append(@, t)]
      BY <2>3, <2>6
    <3>2. Glyphs([r EXCEPT ![Len(r)] = Append(@, t)]) = Glyphs(r) \o ForLine[t]
      <4> HIDE DEF r, t
      <4> QED
        BY <2>2, <2>3, GlyphsLast
    <3>3. m = ForLine[t]
      BY <2>2, <2>6 DEF ForText, ForLine, Blanks
    <3> HIDE DEF g, m, Seen, Of, old, t
    <3>4. Inv(n)
      BY <2>1, <2>4, <3>1, <3>2, <3>3 DEF g
    <3> HIDE DEF Inv
    <3> QED
      BY <3>4
  <2> QED
    BY <2>5, <2>6
<1> HIDE DEF U
<1>7. \A n \in 0 .. L : n \in U
  BY <1>2, <1>5, <1>6, UpTo
<1>8. Glyphs(f[L]) = Of(Seen(L))
  <2>1. L \in U
    BY <1>2, <1>7
  <2> QED
    BY <2>1 DEF U
<1>9. Seen(L) = text /\ f[L] \in LineLists
  BY <1>2, <1>3, SubSeqFull
<1> HIDE DEF Seen
<1> QED
  BY <1>1, <1>8, <1>9 DEF LineLists

\* tidy's loop loses none.
LEMMA AddKeepsGlyphs ==
  ASSUME NEW lines \in Seq(Seq(Tokens))
  PROVE  LET kept == Added(lines)[Len(lines)].lines
         IN  kept \in Seq(Seq(Tokens)) /\ Glyphs(kept) = Glyphs(lines)
<1> DEFINE L == Len(lines)
           S == Seq(Tokens)
           none == <<>>
           f == Added(lines)
           Seen(n) == SubSeq(lines, 1, n)
           Inv(n) == Glyphs(f[n].lines) = Glyphs(Seen(n))
           U == {n \in 0 .. L : Inv(n)}
<1>1. AddRun(f, lines)
  BY AddLoop
<1>2. L \in Nat
  BY LenProperties
<1> HIDE DEF f
<1>3. \A n \in 0 .. L : f[n].lines \in Seq(S)
  <2>1. NeatLines \subseteq S
    BY DEF NeatLines
  <2>2. \A n \in 0 .. L : f[n].lines \in Seq(NeatLines)
    BY <1>1 DEF AddRun, TidyStates
  <2> HIDE DEF S
  <2> QED
    BY <2>1, <2>2, SeqMonotonic
<1>4. none \in S
  BY EmptySeq
<1>5. 0 \in U
  <2>1. f[0].lines = none
    BY <1>1 DEF AddRun
  <2>2. Seen(0) = none
    BY SubSeqEmpty
  <2> HIDE DEF none, Seen
  <2>3. Inv(0)
    BY <2>1, <2>2
  <2> HIDE DEF Inv
  <2> QED
    BY <1>2, <2>3
<1>6. ASSUME NEW n \in 1 .. L, n - 1 \in U PROVE n \in U
  <2> DEFINE s == f[n - 1]
             was == s.lines
             old == Seen(n - 1)
             l == lines[n]
             c == CollapseSpaces(l)
             y == Mapped(l, ForLine)
             g == Glyphs(was)
  <2>1. g = Glyphs(old)
    BY <1>6
  <2>2. Seen(n) = old \o <<l>> /\ old \in Seq(S) /\ l \in S
    <3> HIDE DEF S
    <3>1. lines \in Seq(S)
      BY DEF S
    <3> QED
      BY <3>1, PrefixGrows
  <2>3. was \in Seq(S) /\ f[n] = AddLine(s, c)
    <3>1. n - 1 \in 0 .. L /\ n \in 1 .. Len(lines)
      BY <1>2
    <3> QED
      BY <1>1, <1>3, <3>1 DEF AddRun
  <2>4. c \in S /\ Mapped(c, ForLine) = y
    BY <2>2, CollapseKeepsGlyphs
  <2> HIDE DEF was, old, l, c, g
  <2>5. Glyphs(old \o <<l>>) = Glyphs(old) \o y
    BY <2>2, GlyphsAppend
  <2>6. Append(was, c) = was \o <<c>> /\ Glyphs(was \o <<c>>) = g \o Mapped(c, ForLine)
    BY <2>3, <2>4, GlyphsAppend DEF g
  <2>7. CASE f[n].lines = Append(was, c)
    <3> HIDE DEF Seen, y
    <3>1. Inv(n)
      BY <2>1, <2>2, <2>4, <2>5, <2>6, <2>7
    <3> HIDE DEF Inv
    <3> QED
      BY <3>1
  <2>8. CASE f[n].lines = was /\ c = none
    <3>1. Mapped(none, ForLine) = none
      BY MappedEmpty
    <3>2. g \in S
      BY <2>3, GlyphsTyped DEF g
    <3>3. g \o none = g
      BY <3>2, ConcatEmptySeq
    <3> HIDE DEF Seen, y, none
    <3>4. Inv(n)
      BY <2>1, <2>2, <2>4, <2>5, <2>8, <3>1, <3>3 DEF g
    <3> HIDE DEF Inv
    <3> QED
      BY <3>4
  <2>9. f[n].lines = Append(was, c) \/ (f[n].lines = was /\ c = none)
    BY <2>3 DEF AddLine, was
  <2> QED
    BY <2>7, <2>8, <2>9
<1> HIDE DEF U
<1>7. \A n \in 0 .. L : n \in U
  BY <1>2, <1>5, <1>6, UpTo
<1>8. Glyphs(f[L].lines) = Glyphs(Seen(L))
  <2>1. L \in U
    BY <1>2, <1>7
  <2> QED
    BY <2>1 DEF U
<1>9. Seen(L) = lines /\ f[L].lines \in Seq(S)
  BY <1>2, <1>3, SubSeqFull
<1> HIDE DEF Seen
<1> QED
  BY <1>8, <1>9 DEF f

\* Blank lines at the end have none.
LEMMA CutKeepsGlyphs ==
  ASSUME NEW lines \in Seq(Seq(Tokens)), NEW m \in 0 .. Len(lines),
         \A i \in m + 1 .. Len(lines) : lines[i] = <<>>
  PROVE  Glyphs(SubSeq(lines, 1, m)) = Glyphs(lines)
<1> DEFINE L == Len(lines)
           S == Seq(Tokens)
           none == <<>>
           Seen(n) == SubSeq(lines, 1, n)
           Inv(n) == n >= m => Glyphs(Seen(n)) = Glyphs(Seen(m))
           U == {n \in 0 .. L : Inv(n)}
<1>1. L \in Nat
  BY LenProperties
<1>2. 0 \in U
  <2>1. CASE m = 0
    BY <1>1, <2>1
  <2>2. CASE m # 0
    BY <1>1, <2>2
  <2> QED
    BY <2>1, <2>2
<1>3. ASSUME NEW n \in 1 .. L, n - 1 \in U PROVE n \in U
  <2>1. CASE n <= m
    <3>1. n = m \/ ~(n >= m)
      BY <2>1
    <3> HIDE DEF Seen
    <3> QED
      BY <1>1, <3>1
  <2>2. CASE ~(n <= m)
    <3> DEFINE old == Seen(n - 1)
    <3>1. lines[n] = none
      <4>1. n \in m + 1 .. L
        BY <1>1, <2>2
      <4> QED
        BY <4>1
    <3>2. Seen(n) = old \o <<lines[n]>> /\ old \in Seq(S)
      <4> HIDE DEF S
      <4>1. lines \in Seq(S)
        BY DEF S
      <4> QED
        BY <4>1, PrefixGrows
    <3>3. Glyphs(old) = Glyphs(Seen(m))
      <4>1. n - 1 >= m
        BY <2>2
      <4> HIDE DEF Seen
      <4> QED
        BY <1>3, <4>1
    <3> HIDE DEF old
    <3>4. Glyphs(old \o <<none>>) = Glyphs(old)
      BY <3>2, GlyphsBlank
    <3> HIDE DEF Seen, none
    <3>5. Inv(n)
      BY <3>1, <3>2, <3>3, <3>4
    <3> HIDE DEF Inv
    <3> QED
      BY <3>5
  <2> QED
    BY <2>1, <2>2
<1> HIDE DEF U
<1>4. \A n \in 0 .. L : n \in U
  BY <1>1, <1>2, <1>3, UpTo
<1>5. Inv(L)
  <2> HIDE DEF Inv
  <2>1. L \in U
    BY <1>1, <1>4
  <2> QED
    BY <2>1 DEF U
<1>6. L >= m /\ Seen(L) = lines
  BY <1>1, SubSeqFull
<1> HIDE DEF Seen
<1>7. Glyphs(lines) = Glyphs(Seen(m))
  BY <1>5, <1>6
<1> QED
  BY <1>7 DEF Seen

\* Whatever the text, tidy loses nothing of it but white space.
LEMMA TidyKeepsGlyphs ==
  ASSUME NEW text \in Seq(Tokens)
  PROVE  Glyphs(Tidy(text)) = Mapped(text, ForText)
<1> DEFINE lines == Lines(text)
           kept == Added(lines)[Len(lines)].lines
           used == {i \in 1 .. Len(kept) : kept[i] # <<>>}
           none == <<>>
           m == IF used = {} THEN 0 ELSE Max(used)
<1>1. lines \in Seq(Seq(Tokens)) /\ Glyphs(lines) = Mapped(text, ForText)
  BY LinesKeepGlyphs
<1>2. kept \in Seq(Seq(Tokens)) /\ Glyphs(kept) = Glyphs(lines)
  <2> HIDE DEF lines
  <2> QED
    BY <1>1, AddKeepsGlyphs
<1>3. Tidy(text) = IF used = {} THEN none ELSE SubSeq(kept, 1, Max(used))
  BY DEF Tidy
<1> HIDE DEF kept
<1>4. Len(kept) \in Nat /\ SubSeq(kept, 1, 0) = none
  BY <1>2, LenProperties, SubSeqEmpty
<1>5. m \in 0 .. Len(kept) /\ \A i \in used : i <= m
  <2>1. CASE used = {}
    BY <1>4, <2>1
  <2>2. CASE used # {}
    <3>1. used \in SUBSET (1 .. Len(kept))
      OBVIOUS
    <3>2. Max(used) \in used /\ \A i \in used : i <= Max(used)
      BY <1>4, <2>2, <3>1, MaxIsGreatest
    <3>3. Max(used) \in 1 .. Len(kept)
      BY <3>1, <3>2
    <3> HIDE DEF used
    <3> QED
      BY <1>4, <2>2, <3>2, <3>3
  <2> QED
    BY <2>1, <2>2
<1>6. Tidy(text) = SubSeq(kept, 1, m)
  BY <1>3, <1>4
<1> HIDE DEF m
<1>7. \A i \in m + 1 .. Len(kept) : kept[i] = <<>>
  <2>1. ASSUME NEW i \in m + 1 .. Len(kept) PROVE kept[i] = <<>>
    <3>1. i \in 1 .. Len(kept) /\ ~(i <= m)
      BY <1>4, <1>5
    <3> QED
      BY <1>5, <3>1
  <2> QED
    BY <2>1
<1>8. Glyphs(SubSeq(kept, 1, m)) = Glyphs(kept)
  BY <1>2, <1>5, <1>7, CutKeepsGlyphs
<1> QED
  BY <1>1, <1>2, <1>6, <1>8

-----------------------------------------------------------------------------
(***************************************************************************)
(* html_to_text as a whole.                                                *)
(***************************************************************************)
\* A token without a tag shows its glyph: its entity is decoded, white space is
\* dropped.
LEMMA EntityGlyph ==
  ASSUME NEW t \in Untagged
  PROVE  ForInk[t] = Mapped(ForEntity[t], ForText)
<1> DEFINE v == IF t \in Entities THEN Entity(t) ELSE t
           none == <<>>
           One(a) == <<a>>
<1>1. v \in Tokens
  BY DEF Untagged, Tokens, Entity, Blanks
<1>2. ForEntity[t] = <<v>>
  BY DEF ForEntity
<1>3. ForText[v] = (IF v \in Blanks THEN none ELSE One(v)) /\ ForInk[t] = Glyph(t)
  BY <1>1 DEF ForText, ForInk
<1>4. t \in {"x", Space, Newline, "&lt;", "&nbsp;"}
  BY DEF Untagged, Blanks, Entities
<1>5. Glyph(t) = IF t = "x" THEN One("x") ELSE IF t = "&lt;" THEN One("<") ELSE none
  BY DEF Glyph
<1> HIDE DEF none, One
<1>6. Glyph(t) = IF v \in Blanks THEN none ELSE One(v)
  <2>1. CASE t \in {"x", Space, Newline}
    <3>1. v = t
      BY <2>1 DEF Entities, Space, Newline
    <3> HIDE DEF v
    <3> QED
      BY <1>5, <2>1, <3>1 DEF Blanks, Space, Newline
  <2>2. CASE t = "&lt;"
    <3>1. v = "<"
      BY <2>2 DEF Entities, Entity
    <3> HIDE DEF v
    <3> QED
      BY <1>5, <2>2, <3>1 DEF Blanks, Space, Newline
  <2>3. CASE t = "&nbsp;"
    <3>1. v = Space
      BY <2>3 DEF Entities, Entity
    <3> HIDE DEF v
    <3> QED
      BY <1>5, <2>3, <3>1 DEF Blanks
  <2> QED
    BY <1>4, <2>1, <2>2, <2>3
<1> HIDE DEF v
<1>7. Mapped(<<v>>, ForText) = ForText[v]
  BY <1>1, ForTyped, MappedOne
<1> QED
  BY <1>2, <1>3, <1>6, <1>7

\* And so does a token that may be a tag, which shows nothing.
LEMMA TagGlyph ==
  ASSUME NEW t \in Plain
  PROVE  ForGlyph[t] = Mapped(ForTag[t], ForInk)
<1> DEFINE none == <<>>
<1>1. ForInk \in [Untagged -> Seq(Tokens)]
  BY GlyphTyped DEF ForInk
<1>2. ForGlyph[t] = Glyph(t) /\ \A u \in Untagged : ForInk[u] = Glyph(u)
  BY DEF ForGlyph, ForInk
<1>3. CASE t \notin Tags
  <2>1. t \in Untagged
    BY <1>3 DEF Plain, Tokens, Untagged
  <2>2. ForTag[t] = <<t>>
    BY <1>3 DEF ForTag
  <2>3. Mapped(<<t>>, ForInk) = ForInk[t]
    BY <1>1, <2>1, MappedOne
  <2> QED
    BY <1>2, <2>1, <2>2, <2>3
<1>4. CASE t \in Tags
  <2>1. Glyph(t) = none
    BY <1>4 DEF Glyph, Tags
  <2>2. CASE BreaksLine(t)
    <3>1. ForTag[t] = <<Newline>>
      BY <1>4, <2>2 DEF ForTag
    <3>2. Newline \in Untagged /\ Glyph(Newline) = none
      BY DEF Untagged, Blanks, Glyph, Newline
    <3>3. Mapped(<<Newline>>, ForInk) = ForInk[Newline]
      BY <1>1, <3>2, MappedOne
    <3> QED
      BY <1>2, <2>1, <3>1, <3>2, <3>3
  <2>3. CASE ~BreaksLine(t)
    <3>1. ForTag[t] = none
      BY <1>4, <2>3 DEF ForTag
    <3>2. Mapped(none, ForInk) = none
      BY MappedEmpty
    <3> HIDE DEF none
    <3> QED
      BY <1>2, <2>1, <3>1, <3>2
  <2> QED
    BY <2>2, <2>3
<1> QED
  BY <1>3, <1>4

\* What a reader would see of a well-formed document without a header element
\* is what html_to_text makes of it, but for white space.
LEMMA HtmlKeepsVisible ==
  ASSUME NEW doc \in Seq(Tokens), WellFormed(doc), ~HasHeader(doc)
  PROVE  Glyphs(HtmlToText(doc)) = VisibleGlyphs(doc)
<1> DEFINE s == StripElements(doc)
           t == DropTags(s)
           e == DecodeEntities(t)
<1>1. doc \in Seq(Simple) /\ Paired(doc)
  <2>1. Len(doc) \in Nat /\ doc \in [1 .. Len(doc) -> Tokens]
    BY LenProperties
  <2>2. \A i \in 1 .. Len(doc) : doc[i] \in Simple
    BY <2>1 DEF WellFormed, HasHeader, Simple, Plain
  <2>3. doc \in [1 .. Len(doc) -> Simple]
    BY <2>1, <2>2
  <2>4. Paired(doc)
    BY DEF WellFormed, Paired
  <2> QED
    BY <2>1, <2>3, <2>4
<1>2. s \in Seq(Plain)
  <2>1. doc \in Seq(Plain)
    <3>1. Simple \subseteq Plain
      BY DEF Simple
    <3> QED
      BY <1>1, <3>1, SeqMonotonic
  <2>2. StripElement(doc, "script") \in Seq(Plain)
    BY <2>1, StripTyped
  <2>3. StripElement(StripElement(doc, "script"), "style") \in Seq(Plain)
    BY <2>2, StripTyped
  <2>4. Stripped(doc) \in Seq(Plain)
    BY <2>3, StripTyped DEF Stripped
  <2> QED
    BY <2>4, StripElementsIs
<1>3. Mapped(s, ForGlyph) = VisibleGlyphs(doc)
  BY <1>1, StripKeepsVisible
<1> HIDE DEF s
<1>4. t = Mapped(s, ForTag) /\ t \in Seq(Untagged)
  <2>1. t = Mapped(s, ForTag)
    BY <1>2, DropTagsMaps
  <2>2. Mapped(s, ForTag) \in Seq(Untagged)
    BY <1>2, ForTagTyped, MappedTyped
  <2> HIDE DEF t
  <2> QED
    BY <2>1, <2>2
<1> HIDE DEF t
<1>5. e = Mapped(t, ForEntity) /\ e \in Seq(Tokens)
  <2>1. e = Mapped(t, ForEntity)
    BY <1>4, DecodeEntitiesMaps
  <2>2. Mapped(t, ForEntity) \in Seq(Tokens)
    BY <1>4, ForEntityTyped, MappedTyped
  <2> HIDE DEF e
  <2> QED
    BY <2>1, <2>2
<1>6. HtmlToText(doc) = Tidy(e)
  BY DEF HtmlToText, e, t, s
<1> HIDE DEF e
<1>7. Glyphs(Tidy(e)) = Mapped(e, ForText)
  BY <1>5, TidyKeepsGlyphs
<1>8. ForInk \in [Untagged -> Seq(Tokens)] /\ ForGlyph \in [Plain -> Seq(Tokens)]
  BY GlyphTyped DEF ForInk, ForGlyph
<1>9. Mapped(Mapped(t, ForEntity), ForText) = Mapped(t, ForInk)
  <2>1. Composed(Untagged, ForEntity, ForText, ForInk)
    BY EntityGlyph DEF Composed
  <2>2. /\ IsMap(ForEntity, Untagged, Tokens) /\ IsMap(ForText, Tokens, Tokens)
        /\ IsMap(ForInk, Untagged, Tokens)
    BY <1>8, ForEntityTyped, ForTyped DEF IsMap
  <2> QED
    BY <1>4, <2>1, <2>2, MappedTwice
<1>10. Mapped(Mapped(s, ForTag), ForInk) = Mapped(s, ForGlyph)
  <2>1. Composed(Plain, ForTag, ForInk, ForGlyph)
    BY TagGlyph DEF Composed
  <2>2. IsMap(ForTag, Plain, Untagged) /\ IsMap(ForInk, Untagged, Tokens) /\ IsMap(ForGlyph, Plain, Tokens)
    BY <1>8, ForTagTyped DEF IsMap
  <2> QED
    BY <1>2, <2>1, <2>2, MappedTwice
<1> QED
  BY <1>3, <1>4, <1>5, <1>6, <1>7, <1>9, <1>10

\* However long the document: what a reader would see of it is in the text,
\* glyph by glyph and in order, and nothing of a script or head element is
\* (html_to_text).
THEOREM VisibleTextIsKept == Spec => []VisibleTextKept
<1>1. Init => VisibleTextKept
  BY InitOutput DEF VisibleTextKept
<1>2. InputKnown /\ VisibleTextKept /\ [Next]_avars => VisibleTextKept'
  <2> SUFFICES ASSUME InputKnown, VisibleTextKept, [Next]_avars PROVE VisibleTextKept'
    OBVIOUS
  <2>1. CASE UNCHANGED avars
    BY <2>1 DEF avars, VisibleTextKept, Computed
  <2>2. CASE Next
    <3> SUFFICES ASSUME Computed("text")', WellFormed(input.doc)', ~HasHeader(input.doc)'
                 PROVE  Glyphs(output.text)' = VisibleGlyphs(input.doc)'
      BY DEF VisibleTextKept
    <3> DEFINE doc == input.doc
    <3>1. Render
      BY <2>2, NextOutput
    <3>2. output'.text = HtmlToText(doc) /\ doc \in Seq(Tokens) /\ input' = input
      BY <3>1, AlgorithmsAssumption DEF Render, Fresh, InputKnown
    <3>3. WellFormed(doc) /\ ~HasHeader(doc)
      BY <3>2
    <3> HIDE DEF doc
    <3>4. Glyphs(HtmlToText(doc)) = VisibleGlyphs(doc)
      BY <3>2, <3>3, HtmlKeepsVisible
    <3> QED
      BY <3>2, <3>4 DEF doc
  <2> QED
    BY <2>1, <2>2
<1> QED
  BY <1>1, <1>2, InputKnownHolds, PTL DEF Spec, avars
=============================================================================
