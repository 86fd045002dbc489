----------------------------- MODULE MiniMessage -----------------------------
(***************************************************************************)
(* minimessage.Parse: a text with tags becomes a tree of nodes, the tree   *)
(* becomes styled components.  An input is a sequence of tokens, what the  *)
(* scanner (findTagEnd, parseTag, splitArgs) cuts a text into: a letter, a *)
(* malformed tag, an opening tag, a closing one, one that ends in "/".     *)
(* An output is a sequence of runes, each with the position of its token   *)
(* and its style; of the styles there are one decoration and the colour.   *)
(***************************************************************************)
EXTENDS Integers, Sequences, FiniteSets, SequencesExt, FiniteSetsExt

Letter == [form |-> "text", name |-> "letter"]
Malformed == [form |-> "text", name |-> "malformed"]
OpenTag(name) == [form |-> "open", name |-> name]
CloseTag(name) == [form |-> "close", name |-> name]
SlashTag(name) == [form |-> "slash", name |-> name]

\* Runes of a tag that is kept as literal text: any number but one will do.
LiteralRunes == 2
Width(t) ==
    IF t.name = "letter" \/ (t.name = "br" /\ t.form # "close") THEN 1 ELSE LiteralRunes

Colors == {"red", "blue"}

\* decoration, with the "!" of a negated one.
DecorationOf(name) ==
    CASE name \in {"bold", "b"} -> "true"
      [] name = "!bold"         -> "false"
      [] OTHER                  -> "none"

SelfClosing == {"reset", "br", "lang", "key"}

-----------------------------------------------------------------------------
(***************************************************************************)
(* The parser.                                                             *)
(***************************************************************************)

Text(pos) == [kind |-> "text", at |-> pos, children |-> <<>>]
Element(pos, children) == [kind |-> "tag", at |-> pos, children |-> children]

\* Mutant: any closing tag ends the innermost element.
ClosesAny(t, closing) == t.form = "close" /\ closing # ""

\* Whether a token is the closing tag parseNodes was called to look for.
Closes(t, closing) == t.form = "close" /\ closing # "" /\ t.name = closing

\* The nodes from pos to the closing tag, after those in out, and the position
\* behind it.
RECURSIVE parseNodes(_, _, _, _)
parseNodes(input, pos, closing, out) ==
    IF pos > Len(input) THEN [nodes |-> out, pos |-> pos]
    ELSE LET t == input[pos]
             More(node, next) == parseNodes(input, next, closing, Append(out, node))
         IN  CASE Closes(t, closing) -> [nodes |-> out, pos |-> pos + 1]
               [] t.form = "open" /\ t.name \notin SelfClosing ->
                      LET inner == parseNodes(input, pos + 1, t.name, <<>>)
                      IN  More(Element(pos, inner.nodes), inner.pos)
               [] t.form = "slash" \/ (t.form = "open" /\ t.name \in SelfClosing) ->
                      More(Element(pos, <<>>), pos + 1)
               [] OTHER -> More(Text(pos), pos + 1)

-----------------------------------------------------------------------------
(***************************************************************************)
(* The renderer.                                                           *)
(***************************************************************************)

Plain == [color |-> <<"none">>, bold |-> "unset"]

\* No gradient; a gradient is a rune counter shared by all that is inside it.
NoTransform == [of |-> 0, total |-> 0, index |-> 0]

SumOver(s, F(_)) == FoldLeft(LAMBDA sum, x : sum + F(x), 0, s)

\* A node without anything visible counts one.
RECURSIVE visibleRunes(_, _)
visibleRunes(input, nodes) ==
    IF nodes = <<>> THEN 1
    ELSE SumOver(nodes, LAMBDA n : IF n.kind = "text" THEN Width(input[n.at])
                                   ELSE visibleRunes(input, n.children))

\* Parts and what is left of the counter.
Rendered(parts, index) == [parts |-> parts, index |-> index]

\* n runes of the token at a position.
renderText(at, n, style, tx) ==
    IF tx.total <= 1
    THEN Rendered([k \in 1..n |-> [at |-> at, style |-> style]], tx.index)
    ELSE Rendered([k \in 1..n |->
                      [at |-> at,
                       style |-> [style EXCEPT !.color =
                                     <<"gradient", tx.of, tx.index + k - 1, tx.total>>]]],
                  tx.index + n)

\* applyStyleTag knows the tag.
KnownStyle(name) == name \in Colors \cup {"bold", "b", "!bold", "click"}

\* What it makes of a style; an unknown click action leaves it as it is.
applyStyleTag(name, style) ==
    CASE name \in Colors              -> [style EXCEPT !.color = <<name>>]
      [] DecorationOf(name) # "none"  -> [style EXCEPT !.bold = DecorationOf(name)]
      [] OTHER                        -> style

\* renderNodes, with the cases of renderTag: an element nobody knows is
\* written out as its opening tag, without its children.
RECURSIVE renderNodes(_, _, _, _)
renderNodes(input, nodes, style, tx) ==
    IF nodes = <<>> THEN Rendered(<<>>, tx.index)
    ELSE LET n     == Head(nodes)
             name  == input[n.at].name
             first ==
               CASE n.kind = "text" \/ name = "br" ->
                        renderText(n.at, Width(input[n.at]), style, tx)
                 [] n.kind = "tag" /\ name = "reset" -> Rendered(<<>>, tx.index)
                 [] n.kind = "tag" /\ name = "lang" ->
                        Rendered(<<[at |-> n.at, style |-> style]>>, tx.index)
                 [] n.kind = "tag" /\ name = "gradient" ->
                        Rendered(renderNodes(input, n.children, style,
                                    [of |-> n.at, total |-> visibleRunes(input, n.children),
                                     index |-> 0]).parts,
                                 tx.index)
                 [] n.kind = "tag" /\ KnownStyle(name) ->
                        renderNodes(input, n.children, applyStyleTag(name, style), tx)
                 [] OTHER -> renderText(n.at, Width(input[n.at]), style, tx)
             rest  == renderNodes(input, Tail(nodes),
                                  IF n.kind = "tag" /\ name = "reset" THEN Plain ELSE style,
                                  [tx EXCEPT !.index = first.index])
         IN  Rendered(first.parts \o rest.parts, rest.index)

\* Parse.
Parse(input) ==
    renderNodes(input, parseNodes(input, 1, "", <<>>).nodes, Plain, NoTransform).parts

-----------------------------------------------------------------------------
(***************************************************************************)
(* What the text means, without a tree: which tags enclose a token, and    *)
(* from them the style of each rune.                                       *)
(***************************************************************************)

\* Opening tags that may enclose something.
Openers(input) ==
    {i \in DOMAIN input : input[i].form = "open" /\ input[i].name \notin SelfClosing}

\* The closing tag of each opening one: the first of its name that does not
\* lie in an element opened later; behind the end if there is none.
CloseOf(input) ==
    LET never == Len(input) + 1
        f[i \in Openers(input)] ==
            Min({k \in (i + 1)..never :
                    \/ k = never
                    \/ /\ input[k] = CloseTag(input[i].name)
                       /\ \A m \in Openers(input) : i < m /\ m < k => f[m] < k})
    IN  f

\* The tags a token is inside of.
Enclosing(input, i) ==
    LET close == CloseOf(input)
    IN  {m \in Openers(input) : m < i /\ i < close[m]}

\* The last reset that is still in effect at a token, 0 if there is none.
LastReset(input, i) ==
    Max({0} \cup {r \in 1..(i - 1) :
                     /\ input[r].name = "reset" /\ input[r].form \in {"open", "slash"}
                     /\ Enclosing(input, r) \subseteq Enclosing(input, i)})

\* The style of the tags opened around a token since that reset.
StyleAt(input, i) ==
    LET since == {m \in Enclosing(input, i) : m > LastReset(input, i)}
    IN  FoldLeft(LAMBDA style, m : applyStyleTag(input[m].name, style), Plain,
                 SetToSortSeq(since, <))

\* Whether an element has more than one visible rune, counting one for each
\* element without content.
Wide(input, g) ==
    LET close  == CloseOf(input)
        inside == {i \in DOMAIN input : g < i /\ i < close[g]}
        closer == {close[m] : m \in Openers(input)}
        leaf   == {i \in inside : input[i].form # "text" /\ i \notin closer
                                  /\ (i \in Openers(input) =>
                                        i = Len(input) \/ close[i] = i + 1)}
        text   == {i \in inside : input[i].form = "text"
                                  \/ (input[i].form = "close" /\ i \notin closer)}
    IN  \/ Cardinality(leaf \cup text) > 1
        \/ \E i \in text : Width(input[i]) > 1

\* The gradient that colours a token: the innermost one around it.
GradientAt(input, i) ==
    LET around == {g \in Enclosing(input, i) : input[g].name = "gradient"}
    IN  IF around # {} /\ Wide(input, Max(around)) THEN Max(around) ELSE 0

\* The runes a token is shown as.
Shown(input, i) ==
    LET t       == input[i]
        closer  == \E m \in Openers(input) : CloseOf(input)[m] = i
        visible == \/ t.form = "text"
                   \/ t.form = "close" /\ ~closer
                   \/ t.form \in {"open", "slash"} /\ t.name \in {"br", "lang"}
        style   == StyleAt(input, i)
        g       == IF t.name = "lang" /\ t.form # "close" THEN 0 ELSE GradientAt(input, i)
    IN  IF ~visible THEN <<>>
        ELSE [k \in 1..(IF t.name = "lang" /\ t.form # "close" THEN 1 ELSE Width(t)) |->
                 [at |-> i,
                  style |-> IF g = 0 THEN style
                            ELSE [style EXCEPT !.color = <<"gradient", g>>]]]

Meaning(input) == FlattenSeq([i \in DOMAIN input |-> Shown(input, i)])

\* Tags renderTag and applyStyleTag know; those of a kind they do not support
\* ("key") are written as literal text and count as one rune of a gradient.
Understood(input) ==
    \A i \in DOMAIN input : input[i].form \in {"open", "slash"} =>
        \/ KnownStyle(input[i].name)
        \/ input[i].name \in {"reset", "br", "lang", "gradient"}

=============================================================================
