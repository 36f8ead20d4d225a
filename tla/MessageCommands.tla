-------------------------- MODULE MessageCommands --------------------------
(***************************************************************************)
(* The command /mensaje (platform/messagesdiscord) on one managed message  *)
(* that the verification is bound to: bodies of every accepted form are    *)
(* stored, the security job puts its button on what is stored, exports are *)
(* sent back, also when the message has changed since, and an archive      *)
(* waits for its confirmation in memory.                                   *)
(*                                                                         *)
(* The steps of one handler are one step here: MessageRequests has their   *)
(* interleavings, whose only outcome is a refusal, and a refusal changes   *)
(* nothing.  Archives are the exception, as minutes lie between them and   *)
(* the confirmation.                                                       *)
(***************************************************************************)
EXTENDS Payloads, FiniteSets

CONSTANTS
    Users,          \* administrators
    Bodies,         \* what they send: [kind, components] or a classic message
    NoUser,
    MaxAsked,       \* bound: archives ever asked for
    PendingLimit,   \* confirmations waited for at once (128)
    MaxRevision     \* bound: revisions of the message

ASSUME MessageCommandsAssumption ==
    /\ MaxAsked \in Nat /\ PendingLimit \in Nat \ {0} /\ MaxRevision \in Nat
    /\ NoUser \notin Users \union {"user", "job"}
    /\ Bodies \subseteq ComponentBodies \union ClassicBodies

VARIABLES
    row,      \* the managed message
    exported, \* what a user was last shown of it and may send back
    source,   \* history: the body a user last stored
    writer,   \* history: who has last written the row
    store,    \* the pending store
    asked,    \* how many archives have been asked for
    tasks,    \* confirmations taken and not worked off yet
    fates,    \* history: what became of every confirmation
    full      \* history: how much was waited for when an archive was last refused

vars == <<row, exported, source, writer, store, asked, tasks, fates, full>>

pendings == <<store, asked, tasks, fates, full>>

Ids == 1..MaxAsked

\* A body as the API takes it.
Body(components) == [kind |-> "components", components |-> components]

AbsentMessage == [state |-> "absent", revision |-> 0, components |-> <<>>]

Live == row.state = "live"

\* An item of the pending store; ids are random and never come again.
Item(id, user) == [id |-> id, user |-> user, expired |-> FALSE]

Init ==
    /\ row = AbsentMessage
    /\ exported = <<>>
    /\ source = Body(<<>>)
    /\ writer = NoUser
    /\ store = {} /\ asked = 0 /\ tasks = {}
    /\ fates = [id \in Ids |-> "none"]
    /\ full = PendingLimit

-----------------------------------------------------------------------------
(* Creating and editing.                                                   *)

\* The components of a body: converted when it is a classic message.
Parsed(body) == IF body.kind = "classic" THEN Convert(body) ELSE body.components

\* parsePayload, and the validation of the service behind it.
Accepted(body) ==
    /\ ~(body.kind = "classic" /\ ConversionFails(body))
    /\ Valid(Normal(Parsed(body)))

\* Create, or Replace at the revision the row has: without a change no revision.
Stored(components) ==
    IF row.state # "absent" /\ Normal(components) = row.components
    THEN row
    ELSE [state |-> "live", revision |-> row.revision + 1,
          components |-> Normal(components)]

Write(body) ==
    /\ Accepted(body)
    /\ row.revision < MaxRevision
    /\ row' = Stored(Parsed(body))
    /\ source' = body
    /\ writer' = IF row' = row THEN writer ELSE "user"
    /\ UNCHANGED <<exported, pendings>>

\* present and execute of crear: there must be no message of that key, and an
\* archived one is a conflict.
CreateMessage(body) == row.state = "absent" /\ Write(body)

\* ... and of editar, from an attachment or the form.
EditMessage(body) == Live /\ Write(body)

\* ver, or the form that opens with what is stored.
Export ==
    /\ Live
    /\ exported' = row.components
    /\ UNCHANGED <<row, source, writer, pendings>>

\* editar with what was shown, whatever has happened since.
ResubmitExport == exported # <<>> /\ EditMessage(Body(exported))

-----------------------------------------------------------------------------
(* The security job, without its interleavings (Security has those).       *)

\* refreshVerification: compared by hash, refused when it does not fit.
PutButton ==
    LET components == WithVerificationButton(row.components) IN
    /\ Live
    /\ Normal(components) # row.components
    /\ Valid(Normal(components))
    /\ row.revision < MaxRevision
    /\ row' = Stored(components)
    /\ writer' = "job"
    /\ UNCHANGED <<exported, source, pendings>>

-----------------------------------------------------------------------------
(* Archiving.                                                              *)

\* put that only counts.
KeptAll(items) == items

\* put first drops what has expired.
Kept(items) == {item \in items : ~item.expired}

Waiting == {item \in store : ~item.expired}

\* A limit checked one too late.
HasRoomForOneMore(items) == Cardinality(items) <= PendingLimit

HasRoom(items) == Cardinality(items) < PendingLimit

\* archivar: asks the user to confirm.
AskArchive(user) ==
    /\ Live
    /\ asked < MaxAsked
    /\ LET kept == Kept(store) IN
       \/ /\ HasRoom(kept)
          /\ store' = kept \union {Item(asked + 1, user)}
          /\ asked' = asked + 1
          /\ fates' = [fates EXCEPT ![asked + 1] = "waiting"]
          /\ UNCHANGED full
       \/ /\ ~HasRoom(kept)
          /\ store' = kept
          /\ full' = Cardinality(Waiting)
          /\ UNCHANGED <<asked, fates>>
    /\ UNCHANGED <<row, exported, source, writer, tasks>>

\* Fifteen minutes have passed; the item itself is only dropped later.
ItemExpires(item) ==
    /\ ~item.expired
    /\ store' = (store \ {item}) \union {[item EXCEPT !.expired = TRUE]}
    /\ fates' = [fates EXCEPT ![item.id] = "expired"]
    /\ UNCHANGED <<row, exported, source, writer, asked, tasks, full>>

\* A taking that leaves the item in the store.
TakenOnly(item) == store

Without(item) == store \ {item}

\* take, of an item that waits and belongs to the user.  Another user's press is
\* refused, and one on an item that is gone or expired says so.
Confirm(user, item) ==
    /\ ~item.expired
    /\ item.user = user
    /\ store' = Without(item)
    /\ tasks' = tasks \union {item.id}
    /\ fates' = [fates EXCEPT ![item.id] = "confirmed"]
    /\ UNCHANGED <<row, exported, source, writer, asked, full>>

PressExpired(item) ==
    /\ item.expired
    /\ store' = store \ {item}
    /\ UNCHANGED <<row, exported, source, writer, asked, tasks, fates, full>>

Cancel(user, item) ==
    /\ item.user = user
    /\ store' = store \ {item}
    /\ fates' = [fates EXCEPT ![item.id] = IF @ = "waiting" THEN "cancelled" ELSE @]
    /\ UNCHANGED <<row, exported, source, writer, asked, tasks, full>>

\* execute of a confirmed archive: of the revision there is, unless archived.
ExecuteArchive(id) ==
    /\ id \in tasks
    /\ tasks' = tasks \ {id}
    /\ IF Live /\ row.revision < MaxRevision
       THEN /\ row' = [row EXCEPT !.state = "archived", !.revision = @ + 1]
            /\ writer' = "user"
       ELSE UNCHANGED <<row, writer>>
    /\ UNCHANGED <<exported, source, store, asked, fates, full>>

\* The process starts anew: what waits in memory is gone, the buttons are not.
Restart ==
    /\ store # {} \/ tasks # {}
    /\ store' = {} /\ tasks' = {}
    /\ fates' = [id \in Ids |-> IF fates[id] = "waiting" THEN "lost" ELSE fates[id]]
    /\ UNCHANGED <<row, exported, source, writer, asked, full>>

-----------------------------------------------------------------------------

Next ==
    \/ \E body \in Bodies : CreateMessage(body) \/ EditMessage(body)
    \/ Export
    \/ ResubmitExport
    \/ PutButton
    \/ \E user \in Users :
        \/ AskArchive(user)
        \/ \E item \in store : Confirm(user, item) \/ Cancel(user, item)
    \/ \E item \in store : ItemExpires(item) \/ PressExpired(item)
    \/ \E id \in Ids : ExecuteArchive(id)
    \/ Restart

Spec == Init /\ [][Next]_vars

-----------------------------------------------------------------------------
(* Properties.                                                             *)

Fates == {"none", "waiting", "expired", "confirmed", "cancelled", "lost"}

\* The type invariant.
TypeOK ==
    /\ row = [state |-> row.state, revision |-> row.revision, components |-> row.components]
    /\ row.state \in {"absent", "live", "archived"}
    /\ row.revision \in 0..MaxRevision
    /\ writer \in {NoUser, "user", "job"}
    /\ asked \in 0..MaxAsked
    /\ store \subseteq [id : 1..asked, user : Users, expired : BOOLEAN]
    /\ tasks \subseteq 1..asked
    /\ fates \in [Ids -> Fates]
    /\ full \in Nat

\* What waits in memory stays within its limit and under one id each, and is what
\* has not met its fate; what is to be archived was confirmed.
PendingIsSound ==
    /\ \A item, other \in store : item.id = other.id => item = other
    /\ IsFiniteSet(store) /\ Cardinality(store) <= PendingLimit
    /\ \A item \in store : fates[item.id] = IF item.expired THEN "expired" ELSE "waiting"
    /\ \A id \in Ids : id > asked => fates[id] = "none"
    /\ \A id \in tasks : fates[id] = "confirmed"

NonBlank(paragraphs) == Filtered(paragraphs, LAMBDA p : p # "")

\* The paragraphs of a body as its author wrote them, whatever form it has.
Written(body) ==
    IF body.kind = "components"
    THEN NonBlank(TextOf(body.components))
    ELSE NonBlank(body.content
            \o FlattenSeq([i \in DOMAIN body.embeds |->
                    LET e == body.embeds[i]
                    IN  e.header \o e.description \o e.fields \o e.footer])
            \o TextOf(body.components))

VerifyButtons(components) == Filtered(AllParts(components), LAMBDA c : c.id = Verify)

\* Every button but the verification button, with all that tells it from others,
\* and every picture, in order.
Controls(components) ==
    LET buttons == Filtered(AllParts(components), LAMBDA c : c.type = "button" /\ c.id # Verify)
    IN  [i \in DOMAIN buttons |-> <<buttons[i].id, buttons[i].url, buttons[i].disabled>>]
Urls(components) ==
    LET pictures == Filtered(AllParts(components), LAMBDA c : c.type \in {"thumbnail", "gallery"})
    IN  [i \in DOMAIN pictures |-> pictures[i].url]

\* The pictures of a body as its author gave them: of each embed its thumbnail and
\* its image.
EmbedUrls(embed) == Filtered(<<embed.thumbnail, embed.image>>, LAMBDA url : url # NoUrl)
WrittenUrls(body) ==
    (IF body.kind = "components"
     THEN <<>>
     ELSE FlattenSeq([i \in DOMAIN body.embeds |-> EmbedUrls(body.embeds[i])]))
    \o Urls(body.components)

\* Conversion, normalization, stale exports and any number of passes of the
\* security job lose, repeat and reorder nothing of what a user has written, no
\* paragraph, button or picture, be it in an embed or a component ("conserva tu
\* contenido", README.md:51; "se convierte automaticamente", README.md:92).  What
\* was written is taken from the body as it was sent, before its conversion.
ContentSurvives ==
    row.state # "absent" =>
        /\ NonBlank(TextOf(row.components)) = Written(source)
        /\ Controls(row.components) = Controls(source.components)
        /\ Urls(row.components) = WrittenUrls(source)

\* Whatever the job found there, it leaves one verification button, in a row at
\* the end (README.md:51: "un unico boton").
ButtonIsUnique ==
    writer = "job" =>
        /\ Len(VerifyButtons(row.components)) = 1
        /\ Last(row.components) = Row(<<Button(Verify)>>)

\* The job does not answer its own write with another: every pass would raise
\* the revision and make each edit of an administrator a conflict.
RefreshSettles ==
    [][writer = "job" /\ writer' = "job" => row' = row]_vars

\* A section whose accessory is the button, with more text than one text holds.
Overflows(components) ==
    \E i \in DOMAIN AllParts(components) :
        LET c == AllParts(components)[i] IN
        /\ c.accessory # <<>> /\ c.accessory[1].id = Verify
        /\ Len(TextOf(c.children)) > MaxText

\* Who leaves room for a row and a button (README.md:53) gets the button: the
\* job's body is valid, or the button would silently never appear.  The README
\* leaves out one case, a section of more than 4000 characters that has the
\* button as its accessory: its texts are joined, and the join is refused.
RoomIsEnough ==
    /\ Live
    /\ Count(row.components) + 2 <= MaxComponents
    /\ ~Overflows(row.components)
    => Valid(Normal(WithVerificationButton(row.components)))

\* A separator without its divider and spacing, as an administrator may write it.
HasBareSeparator(components) ==
    \E i \in DOMAIN AllParts(components) :
        LET c == AllParts(components)[i] IN c.type = "separator" /\ "default" \notin c.extra

\* What is read back of a message that nobody has changed is recognised as what is
\* stored, whatever Discord and its library have added and dropped at every depth:
\* else every audit would repair the message again.  A bare separator is left out:
\* neither Normalize nor Hash fills in what Discord answers for it.
EchoIsRecognised ==
    Live /\ ~HasBareSeparator(row.components)
        => Normal(Observed(row.components)) = row.components

\* In the preview of a body no button can be pressed, accessories included
\* (README.md:92: "con los botones desactivados"), and the text is what would
\* be stored.
PreviewIsInert ==
    LET shown == Preview(Normal(Parsed(source))) IN
    /\ \A i \in DOMAIN AllParts(shown) :
            AllParts(shown)[i].type = "button" => AllParts(shown)[i].disabled
    /\ TextOf(shown) = TextOf(Parsed(source))

\* A confirmation has one fate: it is not taken twice, nor after it expired, was
\* cancelled or was lost with the process.
FateIsFinal ==
    [][\A id \in Ids :
        fates[id] \in {"expired", "confirmed", "cancelled", "lost"} => fates'[id] = fates[id]]_vars

\* An archive is refused for want of room only while as many confirmations as
\* may be are really waited for; expired ones take no room.
RefusedOnlyWhenFull == full >= PendingLimit

\* What is stored is in normal form and valid, also when the job wrote it, and
\* then the job would not change it; what a user is shown is a body again.
BodiesAreSound ==
    /\ row.components \in Seq(Components) /\ exported \in Seq(Components)
    /\ source \in ComponentBodies \union ClassicBodies
    /\ Normal(row.components) = row.components
    /\ row.state # "absent" => Valid(row.components)
    /\ writer = "job" => WithVerificationButton(row.components) = row.components

\* The inductive invariants: of what waits, and of both.
PendingInv == TypeOK /\ PendingIsSound /\ RefusedOnlyWhenFull

IInv == PendingInv /\ BodiesAreSound /\ ContentSurvives
=============================================================================
