--------------------------------- MODULE Mime ---------------------------------
(***************************************************************************)
(* What a message is on the wire, and how the program writes one: the draft *)
(* it saves and the message it sends.                                       *)
(*                                                                         *)
(* A part has a content type, and what is in it: the parts of a multipart, *)
(* or a content, which is a text or a tree written down as JSON, or, in an *)
(* HTML part, the tree the HTML is converted to.  A body is a text or a    *)
(* tree.  Transfer encodings and the wording of headers are left out.       *)
(***************************************************************************)
EXTENDS Markup

CONSTANT Files  \* what is in each file a draft can name

Text(t) == [kind |-> "text", text |-> t, rows |-> <<>>]
Ffon(es) == [kind |-> "ffon", text |-> <<>>, rows |-> es]
IsTree(t) == t \in DOMAIN Trees

\* A part of a message: "named" is a boundary that can be found in its header,
\* "headed" that it has headers at all, "attached" its disposition.
Part(mime, content) ==
    [mime |-> mime, content |-> content, parts |-> <<>>,
     named |-> FALSE, headed |-> TRUE, attached |-> FALSE, name |-> <<>>]
Multipart(parts) ==
    [Part("multipart", Text(<<>>)) EXCEPT !.parts = parts, !.named = TRUE]
Attachment(name) ==
    [Part("octet", Files[name]) EXCEPT !.attached = TRUE, !.name = name]

\* The file names a draft's attachments are read under, the unreadable ones left out.
Readable(names) == SelectSeq(names, LAMBDA f : f \in DOMAIN Files)

\* The body of a draft in the form a message carries: one line is a text again, a text
\* that is a tree written down is the tree, and no row holds an escape.
NormalizeBodyForSend(body) ==
    LET asText(t) == IF IsTree(t) THEN Ffon(Trees[t]) ELSE Text(t) IN
    CASE body.kind = "text" -> asText(body.text)
      [] body.kind = "ffon" /\ IsOneLine(body.rows) -> asText(Unescape(body.rows[<<1>>].text))
      [] OTHER -> Ffon(WireRows(body.rows))

\* The message sent: the body as a text part, with the attachments after it.
SentPart(draft) ==
    LET body == Part("text", NormalizeBodyForSend(draft.body))
        files == Readable(draft.attachments) IN
    IF files = <<>> THEN body
    ELSE Multipart(<<body>> \o [i \in DOMAIN files |-> Attachment(files[i])])

\* The copy of a draft that is saved: its body and no attachment.
DraftPart(draft) ==
    Part("text", IF draft.body.kind = "text" THEN draft.body
                 ELSE Ffon(WireRows(draft.body.rows)))
===============================================================================
