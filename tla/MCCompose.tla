------------------------------ MODULE MCCompose -------------------------------
(* Small instances of Compose: the messages, the files and what is typed. *)
EXTENDS ComposeLetter

AllSymbols == STRING

x == <<"x">>
bracket == <<"<">>
escaped == <<Backslash, "<">>
tree == <<"json">>

AllTrees == tree :> Lines(<<Line("input", bracket), Line("plain", escaped)>>)

Received(base, part) ==
    [base |-> base, from |-> bracket, to |-> <<"me", "you">>, subject |-> base, part |-> part]

\* An HTML part with a link to the web, one to elsewhere and text that looks like a tag.
html == [Part("html", Text(<<>>)) EXCEPT !.content = Ffon(
    <<1>> :> Line("plain", <<"x", MarkOpen, LinkOpen, Web, LinkClose>>) @@
    <<2>> :> Object("plain", <<LinkOpen, "file", "<", LinkClose, Backslash>>) @@
    <<2, 1>> :> Line("plain", bracket))]

\* A structured message with a leaf, a row of tags and an object.
structured == Part("json", Ffon(Lines(<<
    Line("input", <<LinkOpen, "x">>), Object("input", escaped)>>)))

AllMails ==
    1 :> Received(<<"Hello">>, Multipart(<<html, Attachment(<<"f">>)>>)) @@
    2 :> Received(<<"[list]", "Hello">>, structured)

AllMessages(uid) == ParseMessage(AllMails[uid])

AllFiles == <<"f">> :> Text(x) @@ <<"g">> :> Ffon(Lines(<<Line("plain", x)>>))

Quiet == [listed |-> <<>>, coming |-> {}, stars |-> {FALSE}, words |-> <<>>, paths |-> {},
          lines |-> 0, typed |-> {}]

\* A new message is written: everything that can be typed.
Writing == [Quiet EXCEPT !.words = "To" :> {x}, !.lines = 3, !.typed =
    {<<>>, x, bracket, escaped, <<"x", Colon>>, <<"To", Colon>>, tree}]

\* A short one is sent with a file.
Enclosing == [Quiet EXCEPT !.words = [f \in {"To", "Subject"} |-> {x}],
    !.paths = DOMAIN AllFiles, !.lines = 2, !.typed = {x, tree}]

\* Messages are read, while others come in and are marked elsewhere, and answered.
Reading == [Quiet EXCEPT !.listed = <<1>>, !.coming = {2}, !.stars = BOOLEAN]

\* A structured message is answered, and the rows of the answer are edited.
Quoting == [Quiet EXCEPT !.listed = <<2>>, !.lines = 5, !.typed = {x}]

\* Objects of the body are keyed like a form.
Naming == [Quiet EXCEPT !.words = "Subject" :> {x}, !.lines = 3, !.typed =
    {x, <<"compose", Colon>>, <<"reply", Colon>>}]

AllWorlds == {Writing, Enclosing, Reading, Quoting, Naming}
===============================================================================
