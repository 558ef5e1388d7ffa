---------------------------- MODULE MCAlgorithms ----------------------------
EXTENDS Algorithms

SeqsUpTo(S, n) == UNION {[1 .. m -> S] : m \in 0 .. n}

Cmd(form, text) == [form |-> form, text |-> text]
Ann == [who |-> "ann", upper |-> FALSE]
ANN == [who |-> "ann", upper |-> TRUE]
Bob == [who |-> "bob", upper |-> FALSE]

MCMails ==
  {Cmd("path", Ann), Cmd("path", ANN), Cmd("bare", Bob), Cmd("path", Empty),
   Cmd("bare", Empty), Cmd("unclosed", Ann), Cmd("path", Invalid)}

MCRcpts ==
  SeqsUpTo({Cmd("path", Ann), Cmd("bare", ANN), Cmd("path", Bob), Cmd("path", Empty),
            Cmd("unclosed", Ann), Cmd("bare", Invalid)}, 2)

\* A list of rules, each with a room of its own.
MCRuleLists ==
  LET selectors == {{}, {Empty}, {ANN}, {Bob}}
      lists == SeqsUpTo([to : selectors, from : selectors], 2)
  IN  {[i \in 1 .. Len(l) |-> [to |-> l[i].to, from |-> l[i].from, room |-> i]] : l \in lists}

\* Leaves of every kind.
Leaf(type, attachment, decodes) ==
  [type |-> type, attachment |-> attachment, decodes |-> decodes, parts |-> 0]

Kinds ==
  {Leaf(type, attachment, decodes) :
     type \in {"text/plain", "text/html"}, attachment \in BOOLEAN, decodes \in BOOLEAN}
  \cup {Leaf(type, FALSE, TRUE) : type \in {"text/other", "other", "multipart"}}

\* The places of the leaves of trees of up to two levels.
Shapes ==
  {{<<>>}, {<<1>>, <<2>>}, {<<1>>, <<2>>, <<3>>},
   {<<1>>, <<2, 1>>, <<2, 2>>}, {<<1, 1>>, <<1, 2>>, <<2>>}}

\* The messages with leaves of the given kinds.
Tree(kinds) ==
  LET above == UNION {{SubSeq(p, 1, n) : n \in 0 .. Len(p) - 1} : p \in DOMAIN kinds}
      Count(p) == Cardinality({i \in 1 .. 3 : Append(p, i) \in above \cup DOMAIN kinds})
  IN  [p \in above \cup DOMAIN kinds |->
         IF p \in DOMAIN kinds THEN kinds[p]
         ELSE [Leaf("multipart", FALSE, TRUE) EXCEPT !.parts = Count(p)]]

MCParts == UNION {{Tree(kinds) : kinds \in [shape -> Kinds]} : shape \in Shapes}

MCHeaderLines == SeqsUpTo(LineKinds, 5)

\* All short documents; longer ones of white space and of elements.
MCDocuments ==
  SeqsUpTo(Tokens, 3)
  \cup [1 .. 6 -> {"x", Space, Newline, "<p>"}]
  \cup [1 .. 5 -> {"x", "<script>", "</script>", "<head>", "</head>", "&lt;"}]
  \cup [1 .. 4 -> {"x", "&", "<", "&lt;", "&nbsp;", "<b>", "<header>", "</header>"}]
=============================================================================
