------------------------------ MODULE Payloads ------------------------------
(***************************************************************************)
(* Message bodies: their validation and normal form (internal/messages),   *)
(* the conversion of classic messages (internal/messages/classic), the     *)
(* verification button put on them (internal/security) and their preview   *)
(* (platform/messagesdiscord).  Everything here is a function of a body;   *)
(* MessageCommands has the steps that store bodies.                        *)
(*                                                                         *)
(* A body is a list of component trees.  A component that is valid is at   *)
(* most three deep (container, section or row, leaf), and so are the trees *)
(* here.  Its JSON is abstracted to what the code decides by: the texts,   *)
(* paragraph by paragraph, as if all were of one length; the buttons, by   *)
(* their custom_id or URL; the pictures, by their URL; and the fields that *)
(* may stand there or not without a difference to a reader, which is what  *)
(* bodies that went through Discord and its library differ by.  A gallery  *)
(* has one picture.  Colours, emojis, the spacings there are and unknown   *)
(* fields, which are refused or kept as they are, and mentions are left    *)
(* out.                                                                    *)
(***************************************************************************)
EXTENDS Naturals, Sequences, SequencesExt

CONSTANTS
    Strings,        \* paragraphs, custom_ids and URLs
    MaxText,        \* paragraphs a text display may hold (4000 characters)
    MaxComponents   \* components of a message, nested ones included (40)

Verify == "verify"  \* the custom_id of the verification button
NoId == ""          \* no custom_id
NoUrl == ""         \* no URL
BadUrl == " "       \* one that is refused: blanks, or no address

ASSUME PayloadsAssumption ==
    /\ MaxText \in Nat /\ MaxComponents \in Nat
    /\ {Verify, NoId, NoUrl} \subseteq Strings

-----------------------------------------------------------------------------
(* Components.                                                             *)

Types == {"text", "button", "thumbnail", "gallery", "separator", "row", "section",
          "container"}

\* Fields that may be written or not: Discord's numbering ("id"), flags that are
\* false ("flag": disabled, spoiler), what Discord knows of a picture ("meta": its
\* size, a proxy's URL), a separator's divider and spacing ("default").
Optional == {"id", "flag", "meta", "default"}

\* extra: those of the optional fields that are written.
\* accessory: of a section, none or one.
Bare(type) ==
    [type |-> type, text |-> <<>>, id |-> NoId, url |-> NoUrl, extra |-> {},
     disabled |-> FALSE, children |-> <<>>, accessory |-> <<>>]

Text(paragraphs) == [Bare("text") EXCEPT !.text = paragraphs]
Button(id)       == [Bare("button") EXCEPT !.id = id]
LinkButton(url)  == [Bare("button") EXCEPT !.url = url]
Thumbnail(url)   == [Bare("thumbnail") EXCEPT !.url = url]
Gallery(url)     == [Bare("gallery") EXCEPT !.url = url]
Row(buttons)     == [Bare("row") EXCEPT !.children = buttons]
Container(items) == [Bare("container") EXCEPT !.children = items]
Section(texts, accessory) ==
    [Bare("section") EXCEPT !.children = texts, !.accessory = <<accessory>>]

\* The optional fields that are not refused.
Permitted(type) == IF type = "separator" THEN {"default"} ELSE {}

\* A component is of a type, and has no field that others have.
Is(c, type) ==
    /\ c.type = type
    /\ c.extra \subseteq Permitted(type)
    /\ c.text # <<>> => type = "text"
    /\ c.id # NoId \/ c.disabled => type = "button"
    /\ c.url # NoUrl => type \in {"button", "thumbnail", "gallery"}
    /\ c.children # <<>> => type \in {"row", "section", "container"}
    /\ c.accessory # <<>> => type = "section"

\* The trees bodies are made of, by their depth: leaves are inner components,
\* and those are components.
Shape(children) ==
    [type : Types, text : Seq(Strings), id : Strings, url : Strings,
     extra : SUBSET Optional, disabled : BOOLEAN,
     children : Seq(children), accessory : {s \in Seq(children) : Len(s) <= 1}]

Leaves == Shape({})
InnerComponents == Shape(Leaves)
Components == Shape(InnerComponents)

\* What the API takes, and the commands too; and what only the commands take.
ComponentBodies == [kind : {"components"}, components : Seq(Components)]

Embeds == [header : Seq(Strings), description : Seq(Strings), fields : Seq(Strings),
           footer : Seq(Strings), thumbnail : Strings, image : Strings]

ClassicBodies == [kind : {"classic"}, content : Seq(Strings), embeds : Seq(Embeds),
                  components : Seq(Components)]

\* F of every part of component c, innermost first.
Rebuilt(F(_), c) ==
    LET Inside(G(_), x) ==
            F([x EXCEPT !.children = [i \in DOMAIN @ |-> G(@[i])],
                        !.accessory = [i \in DOMAIN @ |-> G(@[i])]])
        Inner(x) == Inside(F, x)
    IN  Inside(Inner, c)

\* Component c and everything in it, in reading order.
Parts(c) ==
    LET Inner(x) == <<x>> \o x.children \o x.accessory
    IN  <<c>> \o FlattenSeq([i \in DOMAIN c.children |-> Inner(c.children[i])])
            \o c.accessory

AllParts(components) == FlattenSeq([i \in DOMAIN components |-> Parts(components[i])])

\* The paragraphs a reader sees, in order.
TextOf(components) ==
    LET parts == AllParts(components)
    IN  FlattenSeq([i \in DOMAIN parts |-> parts[i].text])

\* SelectSeq, as a concatenation.
Filtered(s, Test(_)) ==
    FlattenSeq([i \in DOMAIN s |-> IF Test(s[i]) THEN <<s[i]>> ELSE <<>>])

-----------------------------------------------------------------------------
(* Normal form, and what becomes of a body at Discord.                      *)

\* normalizeComponentValue of the component itself.  Of a picture's metadata only
\* a thumbnail's go, a gallery has its pictures one level deeper.
NormalPart(c) ==
    [c EXCEPT !.extra = @ \ ({"id", "flag"} \union (IF c.type = "thumbnail" THEN {"meta"} ELSE {}))]

\* A normal form of the outermost component only.
NormalOutside(components) == [i \in DOMAIN components |-> NormalPart(components[i])]

\* Payload.Normalize.
Normal(components) == [i \in DOMAIN components |-> Rebuilt(NormalPart, components[i])]

\* The flag a component has is false, and written by whoever writes all fields.
Flag(c) ==
    IF (c.type = "button" /\ ~c.disabled) \/ c.type \in {"thumbnail", "gallery", "container"}
    THEN {"flag"} ELSE {}

\* A component read into discordgo's structs and written again: a picture is its
\* URL there, a text has no number, and flags are always written.
Reread(c) ==
    [c EXCEPT !.extra = (@ \ ({"meta"} \union (IF c.type = "text" THEN {"id"} ELSE {})))
                            \union Flag(c)]

\* What Discord answers for a component it was sent: all optional fields it has.
Answered(c) ==
    [c EXCEPT !.extra = @ \union {"id"} \union Flag(c)
                            \union (IF c.type \in {"thumbnail", "gallery"} THEN {"meta"} ELSE {})
                            \union (IF c.type = "separator" THEN {"default"} ELSE {})]

\* A component as it is observed: sent and read back through discordgo's structs.
ObservedPart(c) == Reread(Answered(Reread(c)))

\* The components of observe, when nobody has changed the message.
Observed(components) == [i \in DOMAIN components |-> Rebuilt(ObservedPart, components[i])]

-----------------------------------------------------------------------------
(* Validation.                                                             *)

Blank(paragraphs) == \A i \in DOMAIN paragraphs : paragraphs[i] = ""

ValidText(c) == Is(c, "text") /\ ~Blank(c.text) /\ Len(c.text) <= MaxText

ValidUrl(url) == url \notin {NoUrl, BadUrl}

\* A link button has a URL, an interactive one a custom_id, neither has both.
ValidButton(c) ==
    /\ Is(c, "button")
    /\ IF c.id = NoId THEN ValidUrl(c.url) ELSE c.url = NoUrl

ValidAccessory(c) == ValidButton(c) \/ (Is(c, "thumbnail") /\ ValidUrl(c.url))

ValidRow(c) ==
    /\ Is(c, "row")
    /\ Len(c.children) \in 1..5
    /\ \A i \in DOMAIN c.children : ValidButton(c.children[i])

ValidSection(c) ==
    /\ Is(c, "section")
    /\ Len(c.children) \in 1..3
    /\ \A i \in DOMAIN c.children : ValidText(c.children[i])
    /\ c.accessory # <<>> /\ ValidAccessory(c.accessory[1])

\* What may stand in a container as well as at the top.
ValidItem(c) ==
    \/ ValidText(c) \/ ValidRow(c) \/ ValidSection(c)
    \/ Is(c, "gallery") /\ ValidUrl(c.url)
    \/ Is(c, "separator")

ValidComponent(c) ==
    \/ ValidItem(c)
    \/ /\ Is(c, "container")
       /\ c.children # <<>>
       /\ \A i \in DOMAIN c.children : ValidItem(c.children[i])

\* validateComponent counts a component for itself and for each of its parts.
Count(components) == Len(AllParts(components))

\* Validate, of the normal form it first makes.
Valid(components) ==
    /\ components # <<>>
    /\ \A i \in DOMAIN components : ValidComponent(components[i])
    /\ Count(components) <= MaxComponents

-----------------------------------------------------------------------------
(* Classic messages.                                                       *)

\* An embed: header (author and title, with their links), description, fields and
\* footer as texts, thumbnail and image as URLs.
Texts(embed) ==
    Filtered(<<embed.header, embed.description, embed.fields>>, LAMBDA t : ~Blank(t))

Pictures(url) == IF url = NoUrl THEN <<>> ELSE <<Gallery(url)>>

\* A thumbnail only where it has texts to stand beside.
ChildrenBesideTexts(embed) ==
    LET texts == [i \in DOMAIN Texts(embed) |-> Text(Texts(embed)[i])] IN
       (IF embed.thumbnail # NoUrl /\ texts # <<>>
        THEN <<Section(texts, Thumbnail(embed.thumbnail))>>
        ELSE texts)
    \o Pictures(embed.image)
    \o (IF Blank(embed.footer) THEN <<>> ELSE <<Text(embed.footer)>>)

\* A thumbnail stands beside the texts, in a section, or alone.
Children(embed) ==
    LET texts == [i \in DOMAIN Texts(embed) |-> Text(Texts(embed)[i])] IN
       (IF embed.thumbnail # NoUrl /\ texts # <<>>
        THEN <<Section(texts, Thumbnail(embed.thumbnail))>>
        ELSE texts \o Pictures(embed.thumbnail))
    \o Pictures(embed.image)
    \o (IF Blank(embed.footer) THEN <<>> ELSE <<Text(embed.footer)>>)

ConvertEmbed(embed) ==
    IF Children(embed) = <<>> THEN <<>> ELSE <<Container(Children(embed))>>

\* Content and embeds, then the components the message already has.
Convert(message) ==
       (IF Blank(message.content) THEN <<>> ELSE <<Text(message.content)>>)
    \o FlattenSeq([i \in DOMAIN message.embeds |-> ConvertEmbed(message.embeds[i])])
    \o message.components

\* A text too long, or nothing to show.  The footer is left to the validation.
ConversionFails(message) ==
    \/ ~Blank(message.content) /\ Len(message.content) > MaxText
    \/ \E i \in DOMAIN message.embeds :
        \E j \in DOMAIN Texts(message.embeds[i]) :
            Len(Texts(message.embeds[i])[j]) > MaxText
    \/ Convert(message) = <<>>

-----------------------------------------------------------------------------
(* The verification button.                                                *)

\* A cleaning that leaves rows without buttons behind.
EmptiedNever(kept) == FALSE

\* Nothing is left of what it held.
Emptied(kept) == kept = <<>>

\* A component without the verification button, <<>> when nothing is left of
\* it; Sub does the same for its children.  A section whose accessory it was
\* becomes one text.
CleanWith(Sub(_), c) ==
    LET kept == FlattenSeq([i \in DOMAIN c.children |-> Sub(c.children[i])]) IN
    IF c.id = Verify \/ (c.children # <<>> /\ Emptied(kept))
    THEN <<>>
    ELSE IF c.accessory # <<>> /\ c.accessory[1].id = Verify
         THEN <<Text(TextOf(kept))>>
         ELSE <<[c EXCEPT !.children = kept]>>

CleanLeaf(c) == CleanWith(LAMBDA x : <<x>>, c)

CleanInner(c) == CleanWith(CleanLeaf, c)

\* A cleaning that looks at rows of the top level only.
CleanOutside(c) == CleanWith(LAMBDA x : IF x.type = "button" THEN CleanLeaf(x) ELSE <<x>>, c)

Clean(c) == CleanWith(CleanInner, c)

\* An insertion that does not look for an earlier button.
WithOneMoreButton(components) == components \o <<Row(<<Button(Verify)>>)>>

\* withVerificationButton: exactly one, in a row of its own at the end.
WithVerificationButton(components) ==
    FlattenSeq([i \in DOMAIN components |-> Clean(components[i])])
        \o <<Row(<<Button(Verify)>>)>>

-----------------------------------------------------------------------------
(* The preview.                                                            *)

Disabled(c) == IF c.type = "button" THEN [c EXCEPT !.disabled = TRUE] ELSE c

\* A preview that forgets accessories.
PreviewOfRows(components) ==
    [i \in DOMAIN components |->
        Rebuilt(LAMBDA x : IF x.type = "row"
                           THEN [x EXCEPT !.children = [j \in DOMAIN @ |-> Disabled(@[j])]]
                           ELSE x,
                components[i])]

Preview(components) == [i \in DOMAIN components |-> Rebuilt(Disabled, components[i])]
=============================================================================
