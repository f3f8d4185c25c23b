------------------------------- MODULE MimeRead -------------------------------
(***************************************************************************)
(* What the program reads out of a message on the wire: the part that is    *)
(* its body, as a text or a tree, and its attachments.                      *)
(***************************************************************************)
EXTENDS Mime

\* The links of a row of an HTML part, each as its first and last position: a live
\* opening tag with a closing one somewhere after it, the next search starting there.
RECURSIVE LinksFrom(_, _)
LinksFrom(t, from) ==
    LET open == FirstOf({i \in from..Len(t) : t[i] = LinkOpen
                             /\ ~(i > from /\ t[i - 1] = Backslash)})
        close == NextOf(t, open + 1, LinkClose) IN
    IF open = 0 \/ close = 0 THEN <<>>
    ELSE <<<<open, close>>>> \o LinksFrom(t, close + 1)

\* A row of an HTML part as text: every tag goes, and a link to the web is marked.
MarkedText(row) ==
    LET t == StripMarks(row)
        links == LinksFrom(t, 1)
        url(k) == SubSeq(t, links[k][1] + 1, links[k][2] - 1)
        start(k) == IF k = 1 THEN 1 ELSE links[k - 1][2] + 1
        end(k) == IF k > Len(links) THEN Len(t) ELSE links[k][1] - 1 IN
    FlattenSeq([k \in 1..(Len(links) + 1) |->
        StripDisplay(SubSeq(t, start(k), end(k))) \o
        (IF k > Len(links) THEN <<>>
         ELSE IF IsFollowable(url(k)) THEN <<MarkOpen>> \o url(k) \o <<MarkClose>>
         ELSE StripDisplay(url(k)))])

\* What is under a position of the tree an HTML part is converted to, as text.
RECURSIVE FlattenToText(_, _)
FlattenToText(es, q) == FlattenSeq([k \in 1..Cardinality(Kids(es, q)) |->
    MarkedText(es[q \o <<k>>].text) \o FlattenToText(es, q \o <<k>>)])

StripMarksOfTree(es) == [p \in DOMAIN es |-> [es[p] EXCEPT !.text = StripMarks(@)]]

\* A text that is a tree written down is read as the tree, whatever its type says.
TreeOrText(content) ==
    CASE content.kind = "ffon" -> Ffon(StripMarksOfTree(content.rows))
      [] IsTree(StripMarks(content.text)) -> Ffon(Trees[StripMarks(content.text)])
      [] OTHER -> Text(StripMarks(content.text))

\* A tree before a text, and the first of each.
BestPart(bodies) ==
    LET tree == SelectInSeq(bodies, LAMBDA b : b.kind = "ffon") IN
    IF tree # 0 THEN bodies[tree]
    ELSE IF bodies # <<>> THEN bodies[1]
    ELSE Text(<<>>)

RECURSIVE ParseBodyPart(_)
ParseBodyPart(p) ==
    CASE p.mime = "multipart" /\ p.named ->
            LET read == SelectSeq(p.parts, LAMBDA q : q.headed) IN
            BestPart([i \in DOMAIN read |-> ParseBodyPart(read[i])])
      [] p.mime = "multipart" /\ ~p.named -> Text(StripMarks(p.content.text))
      [] p.mime = "html" -> Text(FlattenToText(StripMarksOfTree(p.content.rows), <<>>))
      [] OTHER -> TreeOrText(p.content)

\* The parts of the outermost multipart that are attached, or are neither text nor
\* parts themselves.
ParseAttachments(p) ==
    IF p.mime = "multipart" /\ p.named
    THEN SelectSeq(p.parts, LAMBDA q : q.headed /\
            (q.attached \/ q.mime \notin {"none", "text", "html", "multipart"}))
    ELSE <<>>

\* A message as it is read: its headers, its body and its attachments.
ParseMessage(m) ==
    [from |-> m.from, to |-> m.to, subject |-> m.subject,
     body |-> ParseBodyPart(m.part), attachments |-> ParseAttachments(m.part)]
===============================================================================
