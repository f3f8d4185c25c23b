-------------------------------- MODULE Markup --------------------------------
(***************************************************************************)
(* The texts, rows and trees a message and a draft are made of, and the    *)
(* conversions of escape.rs between them.                                   *)
(*                                                                         *)
(* A text is a sequence of symbols: a word, a backslash, a bracket or one  *)
(* of the two link tags (the tags), and the marks set aside for a link     *)
(* found in an HTML part.  A tag of a row is live unless a backslash       *)
(* stands right before it.  A row is the text on it with what is around    *)
(* it: the two input tags ("input"), nothing ("plain"), or it is the hint  *)
(* row that offers to add one ("hint", which has no text of its own).      *)
(*                                                                         *)
(* A tree is a function from the positions of its rows: <<2, 1>> is the    *)
(* first row under the second one.  Only an object has rows under it.      *)
(***************************************************************************)
EXTENDS Naturals, SequencesExt

CONSTANTS
    Symbols,  \* what texts are made of
    Trees     \* the texts that are a tree written down, each with the tree

Backslash == "\\"
LinkOpen == "<link>"
LinkClose == "</link>"
Tags == {"<", LinkOpen, LinkClose}
MarkOpen == "{"
MarkClose == "}"
Web == "http"
Colon == ":"

ASSUME SymbolsAssumption ==
    Tags \cup {Backslash, MarkOpen, MarkClose, Web, Colon} \subseteq Symbols

Texts == Seq(Symbols)

\* The smallest of a set of positions, 0 if there is none.
FirstOf(positions) == IF positions = {} THEN 0 ELSE Min(positions)

(* ---------------------------------------------------------- texts *)

IsLive(t, i) == t[i] \in Tags /\ ~(i > 1 /\ t[i - 1] = Backslash)

\* The text with a backslash before each bracket, as a row shows it (tags::escape).
Escape(t) == FlattenSeq([i \in DOMAIN t |->
    IF t[i] \in Tags THEN <<Backslash, t[i]>> ELSE <<t[i]>>])

\* Only a backslash right before a bracket is dropped.
Unescape(t) == FlattenSeq([i \in DOMAIN t |->
    IF t[i] = Backslash /\ i < Len(t) /\ t[i + 1] \in Tags THEN <<>> ELSE <<t[i]>>])

\* The live tags dropped, the rest as it reads (tags::strip_display).
StripDisplay(t) == Unescape(FlattenSeq([i \in DOMAIN t |->
    IF IsLive(t, i) THEN <<>> ELSE <<t[i]>>]))

\* What a commit means: a field committed as it was holds its row's escapes.
TypedValue(old, new) == IF old = new THEN Unescape(new) ELSE new

Omit(t, symbols) == FlattenSeq([i \in DOMAIN t |->
    IF t[i] \in symbols THEN <<>> ELSE <<t[i]>>])

(* ---------------------------------------------------------- trees *)

Row == [obj : BOOLEAN, kind : {"input", "plain", "hint"}, text : Texts]
Line(kind, text) == [obj |-> FALSE, kind |-> kind, text |-> text]
Object(kind, text) == [obj |-> TRUE, kind |-> kind, text |-> text]
Hint == Line("hint", <<>>)

Positions == Seq(Nat \ {0}) \ {<<>>}

IsTreeOfRows(es) ==
    /\ IsFiniteSet(DOMAIN es) /\ DOMAIN es \subseteq Positions
    /\ \A p \in DOMAIN es :
          es[p] \in Row /\ (es[p].kind = "hint" => es[p].text = <<>>)

ASSUME TreesAssumption == \A t \in DOMAIN Trees : IsTreeOfRows(Trees[t])

\* The numbers of the rows right under a position, and these rows.
Kids(es, q) == {Last(p) : p \in {r \in DOMAIN es : r # <<>> /\ Front(r) = q}}
RowsUnder(es, q) == [k \in Kids(es, q) |-> es[q \o <<k>>]]

IsOneLine(es) == DOMAIN es = {<<1>>} /\ ~es[<<1>>].obj

\* The tree with these rows first at the top, and below them that of es.
Joined(rows, es) ==
    LET n == Len(rows) IN
    [p \in {<<i>> : i \in DOMAIN rows} \cup {[q EXCEPT ![1] = @ + n] : q \in DOMAIN es} |->
        IF p[1] <= n THEN rows[p[1]] ELSE es[[p EXCEPT ![1] = @ - n]]]

Lines(rows) == Joined(rows, <<>>)

\* The tree with a row in the place of the one at p; a new object has its hint under it.
PutRow(es, p, row) ==
    [q \in DOMAIN es \cup {p} \cup (IF row.obj THEN {p \o <<1>>} ELSE {}) |->
        IF q = p THEN row ELSE IF q \in DOMAIN es THEN es[q] ELSE Hint]

\* The number after these, and the tree with a row after those under q.
Behind(places) == Max(places \cup {0}) + 1
Added(es, q, row) == PutRow(es, q \o <<Behind(Kids(es, q))>>, row)

\* The tree without its i-th row at the top and what is under that.
Removed(es, i) ==
    [p \in {[q EXCEPT ![1] = IF @ > i THEN @ - 1 ELSE @] : q \in {q \in DOMAIN es : q[1] # i}} |->
        es[[p EXCEPT ![1] = IF @ >= i THEN @ + 1 ELSE @]]]

\* An object without a hint row gets one, in front (seed_i_placeholders).
Unhinted(es) == {p \in DOMAIN es :
    es[p].obj /\ \A k \in Kids(es, p) : es[p \o <<k>>] # Hint}

Seeded(es) ==
    LET bare == Unhinted(es)
        moved(p) == [n \in DOMAIN p |-> IF SubSeq(p, 1, n - 1) \in bare THEN p[n] + 1 ELSE p[n]]
        hints == {moved(p) \o <<1>> : p \in bare} IN
    [q \in {moved(p) : p \in DOMAIN es} \cup hints |->
        IF q \in hints THEN Hint ELSE es[CHOOSE p \in DOMAIN es : moved(p) = q]]

\* Faulty variant: a person's leaf goes to the form as it is written on the wire.
RowAsLeafUnescaped(how, row) == IF row.kind = "hint" THEN row ELSE
    CASE how = "received" -> [row EXCEPT !.kind = "plain", !.text = Escape(@)]
      [] how = "compose" -> IF row.kind = "input" THEN row ELSE [row EXCEPT !.text = Escape(@)]
      [] how = "wire" -> [row EXCEPT !.text = Unescape(@)]

\* A row of a tree as a row of a message being read, as a row of a draft, or as it
\* goes on the wire.
RowAs(how, row) == IF row.kind = "hint" THEN row ELSE
    CASE how = "received" -> [row EXCEPT !.kind = "plain", !.text = Escape(@)]
      [] how = "compose" -> [row EXCEPT !.text = Escape(@)]
      [] how = "wire" -> [row EXCEPT !.text = Unescape(@)]

MapTree(how, es) == [p \in DOMAIN es |-> RowAs(how, es[p])]

ReceivedRows(es) == MapTree("received", es)
ComposeRows(es) == MapTree("compose", es)
WireRows(es) == MapTree("wire", es)

(* ----------------------------------------------- links of a text body *)

StripMarks(t) == Omit(t, {MarkOpen, MarkClose})

IsFollowable(url) ==
    /\ url # <<>> /\ url[1] = Web
    /\ ToSet(url) \cap (Tags \cup {Backslash}) = {}

\* The first position from i on at which t holds c, 0 if there is none.
NextOf(t, i, c) == FirstOf({j \in i..Len(t) : t[j] = c})

\* The row of a text body: all of it escaped, with a marked URL a live link.
TextRow(t) ==
    LET row[from \in 1..(Len(t) + 1)] ==
            LET open == NextOf(t, from, MarkOpen)
                close == IF open = 0 THEN 0 ELSE NextOf(t, open + 1, MarkClose)
                url == SubSeq(t, open + 1, close - 1) IN
            IF close = 0 THEN Escape(StripMarks(SubSeq(t, from, Len(t))))
            ELSE Escape(StripMarks(SubSeq(t, from, open - 1))) \o
                 (IF IsFollowable(url) THEN <<LinkOpen>> \o Escape(url) \o <<LinkClose>>
                  ELSE Escape(url)) \o
                 row[close + 1]
    IN row[1]

(* --------------------------------------------------- what a row makes live *)

\* A row makes nothing live but a link around a web address.
IsInert(t) == \A i \in DOMAIN t : IsLive(t, i) =>
    \/ t[i] = LinkOpen /\ \E j \in (i + 2)..Len(t) :
          t[j] = LinkClose /\ IsFollowable(SubSeq(t, i + 1, j - 1))
    \/ t[i] = LinkClose /\ \E j \in 1..(i - 2) :
          t[j] = LinkOpen /\ IsFollowable(SubSeq(t, j + 1, i - 1))

TextsOf(es) == {es[p].text : p \in DOMAIN es}
===============================================================================
