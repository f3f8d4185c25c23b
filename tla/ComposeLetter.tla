---------------------------- MODULE ComposeLetter -----------------------------
(***************************************************************************)
(* Writing a message as writing a letter: the letter is the draft without   *)
(* its escapes, its hint rows and its empty lines, and the mail as it is    *)
(* read back.                                                               *)
(***************************************************************************)
EXTENDS Compose, MimeRead

RECURSIVE PlainUnder(_, _)
PlainUnder(es, q) == SelectSeq(
    [k \in 1..Cardinality(Kids(es, q)) |->
        [obj |-> es[q \o <<k>>].obj, text |-> es[q \o <<k>>].text,
         kids |-> PlainUnder(es, q \o <<k>>)]],
    LAMBDA e : e.obj \/ e.text # <<>>)

PlainRows(es) == PlainUnder(es, <<>>)

PlainBody(body) ==
    PlainRows(IF body.kind = "text" THEN Lines(<<Line("plain", body.text)>>) ELSE body.rows)

PlainDraft(body) ==
    IF body.kind = "text" THEN PlainBody(body) ELSE PlainRows(WireRows(body.rows))

Readings(t) ==
    CASE t = <<>> -> {<<>>}
      [] ObjKey(t) # <<>> -> {PlainRows(Lines(<<Object("input", ObjKey(t))>>))}
      [] OTHER -> {PlainRows(Lines(<<Line("input", t)>>))} \cup
                  (IF IsTree(t) THEN {PlainRows(Trees[t])} ELSE {})

AsRead(letter) ==
    IF Len(letter) = 1 /\ ~letter[1].obj /\ IsTree(letter[1].text)
    THEN PlainRows(Trees[letter[1].text]) ELSE letter

Openings == {PlainDraft(ReplyBody(Message(uid).body)) : uid \in DOMAIN Mails}

TextsKnown == UNION (
    {w.typed : w \in Worlds} \cup
    {{Unescape(t) : t \in TextsOf(ReplyBody(Message(uid).body).rows)} : uid \in DOMAIN Mails}
    \cup {TextsOf(Trees[t]) : t \in DOMAIN Trees})

\* A key that is committed as it was is added as a line.
NewLines == UNION {Readings(t) : t \in TextsKnown \cup {ObjKey(t) : t \in TextsKnown}}

Enclosed(names) == {PlainBody(TreeOrText(Files[names[i]])) :
    i \in {j \in DOMAIN names : names[j] \in DOMAIN Files
              /\ TreeOrText(Files[names[j]]).kind = "ffon"}}

Letter == INSTANCE Letter WITH
    letter <- PlainDraft(Body),
    enclosed <- Enclosed(Draft.attachments),
    mailed <- PlainBody(ParseBodyPart(mail))

\* Writing a message is writing a letter: every edit, deletion and change of format does
\* to the draft what it says and no more, and what is read out of the mail that is sent,
\* and of the draft that is saved, is what was typed.
ImplementsLetter == Letter!LetterSpec
===============================================================================
