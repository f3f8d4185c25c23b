------------------------------- MODULE Compose --------------------------------
(***************************************************************************)
(* Reading a message, answering it, and writing one: the path the user     *)
(* walks (push_path, pop_path), the message found behind a row's label     *)
(* (lookup_uid), the form and what fills it (ComposeState, prefill), the    *)
(* edits of its fields and of its body (commit_edit and the body helpers), *)
(* the rows that are shown, and the mail that is sent or saved.             *)
(***************************************************************************)
EXTENDS Mime

CONSTANTS
    Mails,       \* the messages, by UID: the subject and sender of each
    Message(_),  \* a message as it is read, by UID
    Username,    \* the address of the account
    Fields,      \* the header fields of the form
    MaxFiles,    \* the most attachments of a draft
    Worlds       \* the sittings: see world

None == 0
Folder == <<"INBOX">>
FormRoots == {<<"compose">>, <<"reply">>, <<"reply all">>, <<"forward">>}
Answers == FormRoots \ {<<"compose">>}
AttachmentsKey == <<"Attachments:">>

\* A body, a message as it is read and a draft are of these shapes.
IsBody(body) ==
    /\ body = [kind |-> body.kind, text |-> body.text, rows |-> body.rows]
    /\ body.kind \in {"text", "ffon"} /\ body.text \in Texts /\ IsTreeOfRows(body.rows)

IsMessage(m) ==
    /\ m.from \in Texts /\ m.to \in Texts /\ m.subject \in Texts /\ IsBody(m.body)
    /\ \A i \in DOMAIN m.attachments : m.attachments[i].name \in Texts

ASSUME FormAssumption ==
    /\ {"To", "Subject"} \subseteq Fields /\ Fields \subseteq Symbols
    /\ Username \in Symbols /\ MaxFiles \in Nat

ASSUME MailsAssumption ==
    /\ None \notin DOMAIN Mails
    /\ \A uid \in DOMAIN Mails :
          Mails[uid].base \in Texts \ {<<>>} /\ IsMessage(Message(uid))

ASSUME WorldsAssumption == \A w \in Worlds :
    /\ w.listed \in Seq(DOMAIN Mails) /\ w.coming \subseteq DOMAIN Mails
    /\ w.stars \subseteq BOOLEAN
    /\ DOMAIN w.words \subseteq Fields /\ \A f \in DOMAIN w.words : w.words[f] \subseteq Texts
    /\ w.typed \subseteq Texts /\ w.paths \subseteq Texts

NewHeader(uid) == [uid |-> uid, seen |-> FALSE, flagged |-> FALSE]
NoMail == Part("none", Text(<<>>))
EmptyDraft == [header |-> [f \in Fields |-> <<>>], attachments |-> <<>>, body |-> Text(<<>>)]
NewForm == [mode |-> <<"compose">>, uid |-> None, prefilled |-> FALSE, draft |-> EmptyDraft]

VARIABLES
    path,    \* the segments of current_path
    cache,   \* the headers listed, newest first (message_cache)
    open,    \* the message whose row was last entered
    viewed,  \* whether its view has been shown
    form,    \* the form being filled in (ComposeState)
    sent,    \* whether the form was sent (compose_sent)
    mail,    \* the part the last step sent or saved
    world    \* the messages listed and those to come, the stars another client sets, what
             \* is typed into a line, a field and as a path, and the most rows a body has

vars == <<path, cache, open, viewed, form, sent, mail, world>>

Draft == form.draft
Body == form.draft.body

(* ---------------------------------------------------------------- labels *)

Base(h) == Mails[h.uid].base

MessageLabel(h) ==
    (IF h.seen THEN <<"[read]">> ELSE <<"[unread]">>) \o
    (IF h.flagged THEN <<"[star]">> ELSE <<>>) \o Base(h)

BracketedTags == {"[read]", "[unread]", "[star]", "[list]"}

\* The words the program itself writes.
Words == BracketedTags \cup
    {"INBOX", "compose", "reply", "reply all", "forward", "Attachments:", "Body:", "[text]",
     "[ffon]", "wrote", "Re:", "Fwd:"}

ASSUME WordsAssumption == Words \subseteq Symbols

\* All leading tags, those of the subject too.
StripMessageTags(label) ==
    LET body == SelectInSeq(label, LAMBDA c : c \notin BracketedTags) IN
    IF body = 0 THEN <<>> ELSE SubSeq(label, body, Len(label))

\* Faulty variant: only the label as it is now is looked up.
LookupExact(label) ==
    LET exact == SelectInSeq(cache, LAMBDA h : MessageLabel(h) = label) IN
    IF exact # 0 THEN cache[exact].uid ELSE None

\* The first message with this label, or else with this subject and sender.
LookupUid(label) ==
    LET exact == SelectInSeq(cache, LAMBDA h : MessageLabel(h) = label)
        bare == SelectInSeq(cache, LAMBDA h : Base(h) = StripMessageTags(label)) IN
    IF exact # 0 THEN cache[exact].uid
    ELSE IF bare # 0 THEN cache[bare].uid
    ELSE None

(* ------------------------------------------------------------------ path *)

\* A segment is pushed as it is, and read back split at its slashes.
Pieces(segment) == FlattenSeq([i \in DOMAIN segment |->
    IF segment[i] # "/" /\ (i = 1 \/ segment[i - 1] = "/")
    THEN <<SubSeq(segment, i, Min({j \in i..Len(segment) :
                                     j = Len(segment) \/ segment[j + 1] = "/"}))>>
    ELSE <<>>])

InForm == \E i \in DOMAIN path : path[i] \in FormRoots
AtForm == path # <<>> /\ Len(path) <= 3 /\ Last(path) \in FormRoots

BodyFormatLabel(body) == <<"Body:", IF body.kind = "text" THEN "[text]" ELSE "[ffon]">>

IsBodySegment(s) == s[1] = "Body:"
BodyPos == SelectInSeq(path, IsBodySegment)
AtBody == InForm /\ path # <<>> /\ IsBodySegment(Last(path))
SubPath == SubSeq(path, BodyPos + 1, Len(path))

\* The last segment follows the kind of the body.
SyncBodyPathLabel(body) == path' = Append(Front(path), BodyFormatLabel(body))

(* ------------------------------------------------------------------ body *)

TextLeaf(text) == Line("input", Escape(text))

NewObject(key) == Object("input", Escape(key))

BodyToComposeChildren(body) ==
    CASE body.kind = "ffon" -> body.rows
      [] body.kind = "text" /\ body.text = <<>> -> Lines(<<>>)
      [] OTHER -> Lines(<<TextLeaf(body.text)>>)

\* The key an edit names, <<>> if the edit names no object.
ObjKey(new) ==
    IF new = <<>> \/ Last(new) # Colon THEN <<>>
    ELSE LET key == SelectLastInSeq(new, LAMBDA c : c # Colon) IN SubSeq(new, 1, key)

EditedRow(new) == IF ObjKey(new) # <<>> THEN NewObject(ObjKey(new)) ELSE TextLeaf(new)

\* The first row under q whose content is the old one, an object excepted.
RowHolding(es, q, old) ==
    FirstOf({k \in Kids(es, q) : ~es[q \o <<k>>].obj /\ es[q \o <<k>>].text = old})

\* Faulty variant: the text typed is added, and the row it replaces is left.
UpdateBodyElemsAppending(es, q, old, new) == Added(es, q, EditedRow(new))

UpdateBodyElems(es, q, old, new) ==
    LET i == RowHolding(es, q, old) IN
    IF i = 0 THEN Added(es, q, EditedRow(new)) ELSE PutRow(es, q \o <<i>>, EditedRow(new))

UpdateBodyLeaf(body, old, new) ==
    CASE body.kind = "ffon" -> Ffon(UpdateBodyElems(body.rows, <<>>, old, new))
      [] body.kind = "text" /\ (ObjKey(new) # <<>> \/ (old = <<>> /\ body.text # <<>>)) ->
            Ffon(Added(BodyToComposeChildren(body), <<>>, EditedRow(new)))
      [] OTHER -> Text(new)

\* A text that is a tree written down becomes the tree.
DetectBodyFormatLive(body) ==
    IF body.kind = "text" /\ IsTree(body.text) THEN Ffon(ComposeRows(Trees[body.text]))
    ELSE body

\* One row is a text again, unless it is the hint.
RenormalizeBodyVariant(body) ==
    IF body.kind = "ffon" /\ IsOneLine(body.rows) /\ body.rows[<<1>>] # Hint
    THEN Text(Unescape(body.rows[<<1>>].text))
    ELSE body

BodyAddElement(body) ==
    CASE body.kind = "ffon" -> Ffon(Added(body.rows, <<>>, TextLeaf(<<>>)))
      [] body.kind = "text" /\ body.text = <<>> -> body
      [] OTHER -> Ffon(Lines(<<TextLeaf(body.text), TextLeaf(<<>>)>>))

\* Faulty variant: the one row left is taken as it shows.
BodyFromRowsEscaped(es) ==
    CASE DOMAIN es = {} -> Text(<<>>)
      [] IsOneLine(es) /\ es[<<1>>].kind # "plain" -> Text(es[<<1>>].text)
      [] OTHER -> Ffon(es)

BodyFromFfonChildren(es) ==
    CASE DOMAIN es = {} -> Text(<<>>)
      [] IsOneLine(es) /\ es[<<1>>].kind # "plain" -> Text(Unescape(es[<<1>>].text))
      [] OTHER -> Ffon(es)

\* The first object under q with this key, 0 if there is none.
ObjectAt(es, q, segment) == FirstOf({k \in Kids(es, q) :
    es[q \o <<k>>].obj /\ StripDisplay(es[q \o <<k>>].text) = segment})

\* The position a sub-path leads to, object by object; it may lead nowhere.
PlacesAt(es, sub) == {p \in DOMAIN es \cup {<<>>} :
    /\ Len(p) = Len(sub)
    /\ \A n \in DOMAIN p : p[n] = ObjectAt(es, SubSeq(p, 1, n - 1), sub[n])}

PlaceAt(es, sub) == CHOOSE p \in PlacesAt(es, sub) : TRUE

\* The rows at a sub-path.
ElemsAt(es, sub) ==
    IF PlacesAt(es, sub) = {} THEN <<>> ELSE RowsUnder(es, PlaceAt(es, sub))

\* The tree with the rows at a sub-path edited, as it was if they are not there.
UpdatedAt(es, sub, old, new) ==
    IF PlacesAt(es, sub) = {} THEN es ELSE UpdateBodyElems(es, PlaceAt(es, sub), old, new)

\* The rows the app has in front of the user inside the body (fetch_subtree_children).
RowsHere == ElemsAt(BodyToComposeChildren(Body), SubPath)

\* The rows of a tree, at every depth.
SizeOf(es) == Cardinality(DOMAIN es)

(* --------------------------------------------------------------- prefill *)

\* What stands above a message answered or forwarded: its headers, in one row or many.
Attribution == <<"wrote", "<">>

ReplyBody(body) ==
    IF body.kind = "text" THEN Text(Attribution \o StripMarks(body.text))
    ELSE Ffon(Joined(<<Hint, TextLeaf(Attribution)>>, Seeded(ComposeRows(body.rows))))

Prefixed(prefix, subject) ==
    IF subject # <<>> /\ subject[1] = prefix THEN subject ELSE <<prefix>> \o subject

\* The recipients of an answer: the sender, and for all of them the others but oneself.
AnswerTo(mode, m) ==
    CASE mode = <<"reply">> -> m.from
      [] mode = <<"reply all">> -> m.from \o Omit(m.to, {Username})
      [] mode = <<"forward">> -> <<>>

PrefillCompose(draft, m, mode) ==
    [draft EXCEPT
        !.header = [f \in Fields |->
            CASE f = "To" -> AnswerTo(mode, m)
              [] f = "Subject" ->
                    Prefixed(IF mode = <<"forward">> THEN "Fwd:" ELSE "Re:", m.subject)
              [] OTHER -> @[f]],
        !.body = ReplyBody(m.body)]

(* --------------------------------------------------------------- actions *)

Init ==
    /\ path = <<>> /\ open = None /\ viewed = FALSE /\ sent = FALSE
    /\ world \in Worlds
    /\ cache = [i \in DOMAIN world.listed |-> NewHeader(world.listed[i])]
    /\ form = NewForm
    /\ mail = NoMail

\* The user enters the folder, or the row of a message in it.
OpenFolder ==
    /\ path = <<>>
    /\ path' = <<Folder>>
    /\ UNCHANGED <<cache, open, viewed, form, sent>>

OpenMessage(h) ==
    /\ path = <<Folder>>
    /\ path' = path \o Pieces(MessageLabel(h))
    /\ open' = h.uid
    /\ UNCHANGED <<cache, viewed, form, sent>>

\* The view of a message is built once its body is there, and marks it as read.
ShowMessage ==
    /\ Len(path) = 2 /\ ~InForm
    /\ viewed' = (LookupUid(path[2]) # None)
    /\ cache' = [i \in DOMAIN cache |->
            [cache[i] EXCEPT !.seen = @ \/ cache[i].uid = LookupUid(path[2])]]
    /\ UNCHANGED <<path, open, form, sent>>

\* Another client changes the flags of a message, or mail comes in, and the list is
\* fetched again.
Relabel(i) ==
    /\ ~InForm
    /\ \E seen \in BOOLEAN, flagged \in world.stars :
          cache' = [cache EXCEPT ![i] = [uid |-> @.uid, seen |-> seen, flagged |-> flagged]]
    /\ UNCHANGED <<path, open, viewed, form, sent>>

NewMail(uid) ==
    /\ ~InForm
    /\ uid \notin {cache[i].uid : i \in DOMAIN cache}
    /\ cache' = <<NewHeader(uid)>> \o cache
    /\ UNCHANGED <<path, open, viewed, form, sent>>

\* The segments that begin a form, wherever they are pushed.  An answer remembers the
\* message its path names, and a new form none.
Begins(segment) == segment = <<"compose">> \/ (segment \in Answers /\ Len(path) = 2)

Begun(segment) ==
    IF segment = <<"compose">> THEN NewForm
    ELSE [NewForm EXCEPT !.mode = segment, !.uid = LookupUid(path[2])]

PushAnswer(mode) ==
    /\ Len(path) = 2 /\ ~InForm /\ viewed
    /\ path' = Append(path, mode)
    /\ form' = Begun(mode) /\ sent' = FALSE
    /\ UNCHANGED <<cache, open, viewed>>

\* From the root, or by the command, after which the app goes to the form.
PushCompose ==
    /\ path' = <<<<"compose">>>>
    /\ form' = Begun(<<"compose">>) /\ sent' = FALSE /\ open' = None /\ viewed' = FALSE
    /\ UNCHANGED cache

\* The form is shown: the first time, an answer is filled in from its message, or stays
\* empty if that is gone.  While it is being fetched nothing changes.
ShowForm ==
    /\ AtForm /\ ~sent /\ form.uid # None /\ ~form.prefilled
    /\ \/ form' = [form EXCEPT !.prefilled = TRUE,
                      !.draft = PrefillCompose(@, Message(form.uid), form.mode)]
       \/ form' = [form EXCEPT !.prefilled = TRUE]
    /\ UNCHANGED <<path, cache, open, viewed, sent>>

FormShown == ~sent /\ (form.prefilled \/ form.uid = None)

OpenField ==
    /\ AtForm /\ FormShown
    /\ \E key \in {<<f>> : f \in Fields} \cup {AttachmentsKey, BodyFormatLabel(Body)} :
          path' = Append(path, key)
    /\ UNCHANGED <<cache, open, viewed, form, sent>>

\* The user enters an object of the body, whose key may be the name of a form.
OpenObject ==
    /\ InForm /\ BodyPos # 0
    /\ \E i \in DOMAIN RowsHere :
       LET key == StripDisplay(RowsHere[i].text) IN
       /\ RowsHere[i].obj
       /\ path' = path \o Pieces(key)
       /\ IF Begins(key) THEN form' = Begun(key) /\ sent' = FALSE
          ELSE UNCHANGED <<form, sent>>
    /\ UNCHANGED <<cache, open, viewed>>

SetDraft(draft) ==
    /\ form' = [form EXCEPT !.draft = draft]
    /\ UNCHANGED <<cache, open, viewed, sent>>

FieldKeys == {<<f>> : f \in {"To", "Cc", "Bcc", "Subject"}} \cup {AttachmentsKey}

\* commit_edit goes by the last segment of the path.
CommitField(f, old, new) ==
    /\ InForm /\ Last(path) = <<f>>
    /\ SetDraft([Draft EXCEPT !.header[f] = TypedValue(old, new)])
    /\ UNCHANGED path

CommitAttachment(new) ==
    /\ InForm /\ Last(path) = AttachmentsKey
    /\ new # <<>> /\ Len(Draft.attachments) < MaxFiles
    /\ SetDraft([Draft EXCEPT !.attachments = Append(@, new)])
    /\ UNCHANGED path

\* The body after a commit: of a line at the top, where what is typed may be a whole tree,
\* or of one under the objects the path names.
EditedBody(old, new) ==
    CASE SubPath = <<>> ->
            RenormalizeBodyVariant(DetectBodyFormatLive(UpdateBodyLeaf(Body, old, new)))
      [] SubPath # <<>> /\ Body.kind = "text" -> Body
      [] OTHER -> Ffon(UpdatedAt(Body.rows, SubPath, old, new))

CommitLine(old, new) ==
    /\ InForm /\ BodyPos # 0 /\ Last(path) \notin FieldKeys
    /\ LET body == EditedBody(old, new) IN
       /\ SizeOf(body.rows) <= world.lines
       /\ SetDraft([Draft EXCEPT !.body = body])
       /\ IF SubPath = <<>> THEN SyncBodyPathLabel(body) ELSE UNCHANGED path

\* The rows here that can be edited: the lines, and the objects whose key is a field.
EditableHere == {i \in DOMAIN RowsHere : RowsHere[i].obj => RowsHere[i].kind = "input"}

\* The user edits a row he sees, or a line that is not yet committed.
EditLine ==
    /\ InForm /\ BodyPos # 0
    /\ \E old \in {RowsHere[i].text : i \in EditableHere} \cup {<<>>} :
       \E typed \in world.typed \cup {old} : CommitLine(old, TypedValue(old, typed))

EditField == \E f \in DOMAIN world.words :
    LET old == Escape(Draft.header[f]) IN
    \E new \in world.words[f] \cup {old} : CommitField(f, old, new)

Attach == \E new \in world.paths : CommitAttachment(new)

\* The "body_new_line" button, inside the body.
AddLine ==
    /\ AtBody /\ SubPath = <<>>
    /\ LET body == RenormalizeBodyVariant(BodyAddElement(Body)) IN
       /\ SizeOf(body.rows) <= world.lines
       /\ SetDraft([Draft EXCEPT !.body = body])
       /\ SyncBodyPathLabel(body)

\* The app takes a row out of the body and reports the rows that are left.
DeleteLine ==
    /\ AtBody /\ SubPath = <<>>
    /\ \E i \in DOMAIN RowsHere :
       LET body == RenormalizeBodyVariant(BodyFromFfonChildren(Removed(BodyToComposeChildren(Body), i))) IN
       /\ SetDraft([Draft EXCEPT !.body = body])
       /\ SyncBodyPathLabel(body)

\* A message that is accepted: its recipients, and whether it is delivered, are the
\* outbox's.
PressSend ==
    /\ AtForm /\ FormShown /\ Draft.header["To"] # <<>>
    /\ mail' = SentPart(Draft)
    /\ form' = NewForm /\ sent' = TRUE
    /\ UNCHANGED <<path, cache, open, viewed>>

IsDraftNonEmpty ==
    \/ Draft.header["To"] # <<>> \/ Draft.header["Subject"] # <<>>
    \/ Draft.attachments # <<>> \/ Body # Text(<<>>)

\* Leaving the form that stands at the root saves the draft; leaving an answer does not.
PopPath ==
    /\ path # <<>>
    /\ path' = Front(path)
    /\ IF Len(path) = 1 /\ AtForm
       THEN /\ sent' = FALSE
            /\ mail' = IF IsDraftNonEmpty THEN DraftPart(Draft) ELSE mail
       ELSE UNCHANGED sent /\ mail' = NoMail
    /\ viewed' = FALSE
    /\ open' = IF Len(path) <= 2 THEN None ELSE open
    /\ UNCHANGED <<cache, form>>

Step ==
    \/ OpenFolder \/ ShowMessage \/ PushCompose \/ ShowForm \/ OpenField \/ OpenObject
    \/ EditField \/ Attach \/ EditLine \/ AddLine \/ DeleteLine
    \/ \E i \in DOMAIN cache : OpenMessage(cache[i]) \/ Relabel(i)
    \/ \E uid \in world.coming : NewMail(uid)
    \/ \E mode \in Answers : PushAnswer(mode)

\* Only sending and leaving hand a mail over.
Next ==
    /\ (Step /\ mail' = NoMail) \/ PressSend \/ PopPath
    /\ UNCHANGED world

Spec == Init /\ [][Next]_vars

(* ------------------------------------------------------------ properties *)

\* The form is of the fields declared, the flags are flags, and a draft holds no more
\* than its bounds; what is in the view and on the wire are a body and a part.
TypeOK ==
    /\ open \in DOMAIN Mails \cup {None} /\ viewed \in BOOLEAN /\ sent \in BOOLEAN
    /\ \A i \in DOMAIN path : path[i] # <<>>
    /\ \A i \in DOMAIN cache : cache[i].uid \in DOMAIN Mails
    /\ form.mode \in FormRoots /\ form.uid \in DOMAIN Mails \cup {None}
    /\ DOMAIN Draft.header = Fields /\ Len(Draft.attachments) <= MaxFiles
    /\ Body.kind \in {"text", "ffon"}

\* The texts of the rows in front of the user, whoever wrote what is on them.
MessageRows(m) ==
    {Escape(m.from), Escape(m.to), Escape(m.subject)} \cup
    {Escape(m.attachments[i].name) : i \in DOMAIN m.attachments} \cup
    (IF m.body.kind = "text" THEN {TextRow(m.body.text)}
     ELSE TextsOf(ReceivedRows(m.body.rows)))

FormRows ==
    {Escape(Draft.header[f]) : f \in Fields} \cup
    {Escape(Draft.attachments[i]) : i \in DOMAIN Draft.attachments} \cup
    TextsOf(BodyToComposeChildren(Body))

ShownTexts ==
    CASE path = <<Folder>> -> {Escape(MessageLabel(cache[i])) : i \in DOMAIN cache}
      [] viewed /\ Len(path) = 2 /\ ~InForm /\ LookupUid(path[2]) # None ->
            MessageRows(Message(LookupUid(path[2])))
      [] InForm /\ FormShown -> FormRows
      [] OTHER -> {}

\* Nothing a sender or the user wrote is live on a row but a link to the web: a label, a
\* header, a body of any kind, a reply that quotes it, after any edits.
NothingLive == \A t \in ShownTexts : IsInert(t)

\* What is on the rows at a sub-path of a body.
PlainTextsAt(sub, body) ==
    LET rows == ElemsAt(BodyToComposeChildren(body), sub) IN
    [i \in DOMAIN rows |-> Unescape(rows[i].text)]

\* An edit of a line changes that line to what was typed, and no other row.  An edit of
\* an object's key changes no row at all: the object keeps its key, and what was typed is
\* added behind the rows.  It is so at the top and under an object, whatever escapes the
\* rows hold, since a commit names a row by what is on it; but only for a row that is like
\* no other, and not under an object named like a field.
EditLandsOnRow == InForm /\ BodyPos # 0 /\ Last(path) \notin FieldKeys =>
    LET rows == RowsHere
        before == PlainTextsAt(SubPath, Body) IN
    \A i \in {j \in EditableHere : rows[j].text # <<>>} :
    \A typed \in world.typed \cup {rows[i].text} :
        LET new == TypedValue(rows[i].text, typed)
            words == IF ObjKey(new) # <<>> THEN ObjKey(new) ELSE new
            place == IF rows[i].obj THEN Behind(DOMAIN rows) ELSE i
            after == PlainTextsAt(SubPath, EditedBody(rows[i].text, new)) IN
        (/\ \A j \in DOMAIN rows : rows[j].text = rows[i].text => j = i
         /\ Body.kind = "ffon" \/ (ObjKey(new) = <<>> /\ ~IsTree(new)))
        => \/ after = [k \in DOMAIN rows \cup {place} |->
                           IF k = place THEN words ELSE before[k]]
           \/ after = <<>> /\ new = <<>> /\ DOMAIN rows = {i} /\ ~rows[i].obj

\* No other message has the subject and the sender of this one, or them after a star.
Alone(uid) == \A i \in DOMAIN cache :
    Base(cache[i]) \in {Mails[uid].base, <<"[star]">> \o Mails[uid].base}
        => cache[i].uid = uid

\* The label of a message is one segment of the path, and its tags are its flags.
IsPlainLabel(uid) == Mails[uid].base[1] \notin BracketedTags /\ "/" \notin ToSet(Mails[uid].base)

Answering == InForm /\ form.mode \in Answers /\ open # None

\* An answer is to the message that was opened, though its label has changed since,
\* because it has been read, marked elsewhere, or has others above it now.  It is so of
\* a message like no other, whose subject begins with no tag and holds no slash.
AnswersOpenMessage ==
    Answering /\ Alone(open) /\ IsPlainLabel(open) => form.uid = open
===============================================================================
