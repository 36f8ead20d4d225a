------------------------ MODULE MCMessageCommands -------------------------
(***************************************************************************)
(* MessageCommands for TLC.  The bodies hold the verification button in    *)
(* every place the code looks for it, and not at all; classic messages of  *)
(* every layout; and, for each check of the validation, a body it refuses. *)
(* With room for eight components some bodies leave no room for the        *)
(* button, and with two paragraphs for a text some sections cannot become  *)
(* one text.                                                               *)
(***************************************************************************)
EXTENDS MessageCommands

MCStrings == {"", " ", "verify", "other", "site", "t", "i", "a", "b", "c", "d", "f", "h"}

Embed(header, description, thumbnail, image, footer) ==
    [header |-> header, description |-> description, fields |-> <<>>,
     thumbnail |-> thumbnail, image |-> image, footer |-> footer]

Classic(content, embeds, components) ==
    [kind |-> "classic", content |-> content, embeds |-> embeds, components |-> components]

Named == Button("other")
Again == Row(<<Button(Verify)>>)
Both  == Row(<<Button(Verify), Named>>)
Beside(texts) == Section(texts, Button(Verify))
A == Text(<<"a">>)
B == Text(<<"b">>)
Long == Text(<<"a", "b">>)

Copied(c) == [c EXCEPT !.extra = {"id", "flag"}]
Known(c) == [c EXCEPT !.extra = {"id", "flag", "meta"}]
WrittenOut == [Bare("separator") EXCEPT !.extra = {"default"}]

Accepted1 == {
    Body(<<A>>),
    Body(<<Copied(Container(<<Copied(A), Copied(Both)>>))>>),
    Body(<<A, Container(<<Again>>)>>),
    Body(<<Again, Again, B>>),
    Body(<<Beside(<<A, B>>), Section(<<B>>, Named)>>),
    Body(<<Container(<<Beside(<<B>>), Row(<<LinkButton("site")>>)>>)>>),
    Body(<<Section(<<A>>, Known(Thumbnail("t"))), Container(<<WrittenOut, Gallery("i")>>)>>),
    Body(<<A, Bare("separator"), Row(<<[Named EXCEPT !.disabled = TRUE]>>)>>),
    Body(<<Beside(<<Long, A>>)>>),
    Body(<<A, A, A, B, B, Row(<<Named>>)>>),
    Classic(<<"c">>, <<Embed(<<"h">>, <<"d">>, "t", "i", <<"f">>)>>, <<Both>>),
    Classic(<<>>, <<Embed(<<"">>, <<>>, "t", NoUrl, <<>>), Embed(<<>>, <<"d">>, NoUrl, "i", <<>>)>>,
            <<>>)}

Refused == {
    Body(<<>>),
    Body(<<Text(<<"">>)>>),
    Body(<<[A EXCEPT !.id = "other"]>>),
    Body(<<Text(<<"a", "a", "b">>)>>),
    Body(<<Row(<<>>)>>),
    Body(<<Row(<<Bare("button")>>)>>),
    Body(<<Section(<<>>, Named)>>),
    Body(<<Section(<<A>>, Gallery("i"))>>),
    Body(<<Gallery(BadUrl)>>),
    Body(<<Known(Gallery("i"))>>),
    Body(<<Container(<<Container(<<A>>)>>)>>),
    Body(<<A, A, A, A, A, A, A, A, A>>),
    Classic(<<>>, <<Embed(<<>>, <<"">>, NoUrl, NoUrl, <<>>)>>, <<>>),
    Classic(<<"a", "b", "a">>, <<>>, <<>>)}

MCBodies == Accepted1 \union Refused
=============================================================================
