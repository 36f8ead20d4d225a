-------------------------- MODULE MessageRequests --------------------------
(***************************************************************************)
(* How clients change managed messages: the HTTP API (platform/httpapi),   *)
(* the command /mensaje (platform/messagesdiscord), the service between    *)
(* them and the store (internal/messages), and the store's idempotent      *)
(* transactions.                                                           *)
(*                                                                         *)
(* A client decides on a request once and may send it again: an answer can *)
(* be lost, and two copies can be under way at the same time.  A handler   *)
(* works on one copy; what it has read may be stale when its transaction   *)
(* starts.  A transaction is one step: it first reserves its idempotency   *)
(* key, on which concurrent transactions wait for one another, and rolls   *)
(* that back with everything else when it is refused.                      *)
(*                                                                         *)
(* Requests that are invalid in themselves never reach a handler here, and *)
(* reconcile requests, which carry no key, are in ManagedMessages.         *)
(***************************************************************************)
EXTENDS Naturals, FiniteSets

CONSTANTS
    Requests,     \* what clients decide to ask for
    IdemKeys,     \* idempotency keys of API clients; they may be used again
    Handlers,     \* copies of requests that can be under way at once
    Keys,         \* message keys
    Channels,
    Contents,
    NoChannel,    \* no channel named
    NoContent,    \* no content named
    MaxSends      \* bound: copies sent of one request

ASSUME MessageRequestsAssumption ==
    /\ MaxSends \in Nat \ {0}
    /\ NoChannel \notin Channels /\ NoContent \notin Contents
    /\ Requests \intersect IdemKeys = {} /\ NoContent \notin Requests \union IdemKeys

VARIABLES
    rows,      \* managed_messages
    replays,   \* message_idempotency
    asked,     \* the requests decided on
    sends,     \* how many copies of each have been sent
    handlers,  \* what every handler is doing
    answers,   \* history: the answers given to the copies of a request
    applied    \* history: how often a request has changed its row

vars == <<rows, replays, asked, sends, handlers, answers, applied>>

Store == INSTANCE MessageRows WITH
    Owners <- {}, MaxMessages <- 0, NoOwner <- NoContent

-----------------------------------------------------------------------------

\* The API's operations, and the two of the command /mensaje that are not its own.
ApiOps == {"create", "replace", "assign", "archive"}
CommandOps == {"edit", "retire"}

\* idem is the client's key, or for a command its interaction: the request.
Request ==
    [op       : ApiOps \union CommandOps,
     idem     : IdemKeys \union Requests,
     key      : Keys,
     revision : Nat,                            \* If-Match
     channel  : Channels \union {NoChannel},
     content  : Contents \union {NoContent}]

NoRequest == [op |-> "none", idem |-> NoContent, key |-> NoContent, revision |-> 0,
              channel |-> NoChannel, content |-> NoContent]

Asked(r) == asked[r] # NoRequest

\* An error: conflict or not found.
Refused == [revision |-> 0, channel |-> NoChannel, content |-> NoContent,
            archived |-> FALSE]

\* What a client can tell of the record it is answered with.
Answer(row) ==
    [revision |-> row.revision, channel |-> row.channel, content |-> row.content,
     archived |-> Store!Archived(row)]

\* step "check" and "get" read the row, "put" is the transaction; the rest is
\* what has been put together for it.
IdleHandler == [step |-> "idle", request |-> NoContent, revision |-> 0,
                channel |-> NoChannel, content |-> NoContent]

At(h, step) == handlers[h].step = step

SetHandler(h, handler) == handlers' = [handlers EXCEPT ![h] = handler]

Init ==
    /\ rows = [k \in Keys |-> Store!AbsentRow]
    /\ replays = {}
    /\ asked = [r \in Requests |-> NoRequest]
    /\ sends = [r \in Requests |-> 0]
    /\ handlers = [h \in Handlers |-> IdleHandler]
    /\ answers = [r \in Requests |-> {}]
    /\ applied = [r \in Requests |-> 0]

-----------------------------------------------------------------------------
(* Clients.                                                                *)

\* Revisions a client can have been shown.
Seen(k) == 1..rows[k].revision

\* What the operations carry.  An edit that names no channel keeps the present
\* one; a command carries no revision.
WellFormed(req) ==
    /\ req.op = "create" => req.revision = 0
    /\ req.op \in {"replace", "assign", "archive"} => req.revision \in Seen(req.key)
    /\ req.op \in CommandOps => req.revision = 0
    /\ req.op \in {"archive", "retire"} <=> req.channel = NoChannel /\ req.op # "edit"
    /\ req.op \in {"create", "replace", "edit"} <=> req.content # NoContent

Ask(r) ==
    /\ ~Asked(r)
    /\ \E op \in ApiOps \union CommandOps, k \in Keys,
          channel \in Channels \union {NoChannel},
          content \in Contents \union {NoContent}, revision \in 0..Cardinality(Requests),
          idem \in IdemKeys \union {r} :
        LET req == [op |-> op, idem |-> idem, key |-> k, revision |-> revision,
                    channel |-> channel, content |-> content]
        IN  /\ WellFormed(req)
            /\ op \in CommandOps <=> idem = r
            \* The command asks for a confirmation of what is not archived yet.
            /\ op = "retire" => Store!Markable(rows[k])
            /\ asked' = [asked EXCEPT ![r] = req]
    /\ UNCHANGED <<rows, replays, sends, handlers, answers, applied>>

\* A first copy or another one; an interaction is delivered once, and the
\* confirmation of an archive is taken out of the pending store once.
Send(r, h) ==
    LET req == asked[r] IN
    /\ Asked(r)
    /\ At(h, "idle")
    /\ sends[r] < IF req.op \in CommandOps THEN 1 ELSE MaxSends
    /\ sends' = [sends EXCEPT ![r] = @ + 1]
    /\ SetHandler(h, [request  |-> r,
                      revision |-> req.revision,
                      channel  |-> req.channel,
                      content  |-> req.content,
                      step     |-> CASE req.op \in {"assign", "retire"} -> "get"
                                     [] req.op = "edit" -> "check"
                                     [] OTHER -> "put"])
    /\ UNCHANGED <<rows, replays, asked, answers, applied>>

-----------------------------------------------------------------------------
(* Handlers.                                                               *)

Replies(h, answer) ==
    /\ answers' = [answers EXCEPT ![handlers[h].request] = @ \union {answer}]
    /\ SetHandler(h, IdleHandler)

Target(h) == asked[handlers[h].request].key

\* The command's check of an edit, which also fills in the channel.
CheckEdit(h) ==
    LET row == rows[Target(h)] IN
    /\ At(h, "check")
    /\ \/ /\ ~Store!Markable(row)
          /\ Replies(h, Refused)
       \/ /\ Store!Markable(row)
          /\ SetHandler(h, [handlers[h] EXCEPT
                 !.step = "get",
                 !.channel = IF @ = NoChannel THEN row.channel ELSE @])
          /\ UNCHANGED answers
    /\ UNCHANGED <<rows, replays, asked, sends, applied>>

\* An assignment that goes by the revision it has just read.
ReadAtItsOwnRevision(handler, req, row) ==
    IF req.op = "assign"
    THEN [handler EXCEPT !.step = "put", !.content = row.content, !.revision = row.revision]
    ELSE [handler EXCEPT !.step = "put", !.revision = row.revision]

\* An assignment takes over the content it reads, under the client's revision;
\* a command takes the revision it reads for the client's.
Read(handler, req, row) ==
    IF req.op = "assign" THEN [handler EXCEPT !.step = "put", !.content = row.content]
                         ELSE [handler EXCEPT !.step = "put", !.revision = row.revision]

GetMessage(h) ==
    LET req == asked[handlers[h].request]
        row == rows[req.key]
    IN
    /\ At(h, "get")
    /\ \/ /\ ~Store!Exists(row)
          /\ Replies(h, Refused)
       \/ /\ Store!Exists(row)
          /\ SetHandler(h, Read(handlers[h], req, row))
          /\ UNCHANGED answers
    /\ UNCHANGED <<rows, replays, asked, sends, applied>>

Verb(op) ==
    CASE op = "create" -> "create"
      [] op \in {"replace", "assign", "edit"} -> "replace"
      [] op \in {"archive", "retire"} -> "archive"

\* A request hash that leaves out what is written.
ChangeUnhashed(handler, req) ==
    [verb |-> Verb(req.op), key |-> req.key, revision |-> handler.revision,
     channel |-> NoChannel, content |-> NoContent]

\* Operation and request hash of newIdempotency: what is to be done, completely.
\* An assignment is hashed as the replacement it turns into.
Change(handler, req) ==
    [verb |-> Verb(req.op), key |-> req.key, revision |-> handler.revision,
     channel |-> handler.channel, content |-> handler.content]

\* Replace and Archive that look at the state only.
ConflictOfState(verb, row, revision) ==
    IF verb = "create" THEN Store!Exists(row) ELSE ~Store!Markable(row)

\* A revision that need only have been reached.
ConflictUnlessReached(verb, row, revision) ==
    \/ ConflictOfState(verb, row, revision)
    \/ verb # "create" /\ row.revision < revision

\* The row is there already; is not there; has moved on or is archived.
Conflict(verb, row, revision) ==
    IF verb = "create" THEN Store!Exists(row)
                       ELSE row.revision # revision \/ ~Store!Markable(row)

\* The row a transaction that is not refused leaves.
Mutated(verb, row, channel, content) ==
    CASE verb = "create" -> Store!InsertedRow(channel, content)
      [] verb = "archive" -> Store!ArchivedRow(row)
      [] verb = "replace" ->
             IF row.channel = channel /\ row.content = content
             THEN row ELSE Store!ReplacedRow(row, channel, content)

\* A replay of whatever the key was last used for.
ReplayOfKey(idem, change) == {e \in replays : e.idem = idem}

\* The stored answer to this very change under this key.
Replay(idem, change) == {e \in replays : e.idem = idem /\ e.change = change}

\* A table whose primary key is not the idempotency key.
ReservedNever(idem) == FALSE

Reserved(idem) == \E e \in replays : e.idem = idem

\* Create, Replace and Archive of the store.
Execute(h) ==
    LET r == handlers[h].request
        req == asked[r]
        change == Change(handlers[h], req)
        row == rows[req.key]
        new == Mutated(Verb(req.op), row, handlers[h].channel, handlers[h].content)
        reserved == Reserved(req.idem)
        conflict == Conflict(Verb(req.op), row, handlers[h].revision)
    IN
    /\ At(h, "put")
    /\ \/ /\ \E e \in Replay(req.idem, change) : Replies(h, e.answer)
          /\ UNCHANGED <<rows, replays, applied>>
       \/ /\ Replay(req.idem, change) = {}
          /\ reserved \/ conflict
          /\ Replies(h, Refused)
          /\ UNCHANGED <<rows, replays, applied>>
       \/ /\ ~reserved /\ ~conflict
          /\ rows' = [rows EXCEPT ![req.key] = new]
          /\ replays' = replays \union
                 {[idem |-> req.idem, change |-> change, answer |-> Answer(new)]}
          /\ applied' = [applied EXCEPT ![r] = IF new = row THEN @ ELSE @ + 1]
          /\ Replies(h, Answer(new))
    /\ UNCHANGED <<asked, sends>>

\* The handler fails or its process dies before its transaction commits.  When
\* it dies afterwards the answer is lost, which no client can tell from a delay.
Abandon(h) ==
    /\ ~At(h, "idle")
    /\ SetHandler(h, IdleHandler)
    /\ UNCHANGED <<rows, replays, asked, sends, answers, applied>>

\* Twenty-four hours have passed.
Expire ==
    /\ \E e \in replays : replays' = replays \ {e}
    /\ UNCHANGED <<rows, asked, sends, handlers, answers, applied>>

-----------------------------------------------------------------------------

Next ==
    \/ \E r \in Requests : Ask(r) \/ \E h \in Handlers : Send(r, h)
    \/ \E h \in Handlers : CheckEdit(h) \/ GetMessage(h) \/ Execute(h) \/ Abandon(h)
    \/ Expire

Spec == Init /\ [][Next]_vars

-----------------------------------------------------------------------------
(* Properties.                                                             *)

Handler == [step     : {"idle", "check", "get", "put"},
            request  : Requests \union {NoContent},
            revision : Nat,
            channel  : Channels \union {NoChannel},
            content  : Contents \union {NoContent}]

Answers == [revision : Nat,
            channel  : Channels \union {NoChannel},
            content  : Contents \union {NoContent},
            archived : BOOLEAN]

Entry == [idem   : IdemKeys \union Requests,
          change : [verb     : {"create", "replace", "archive"},
                    key      : Keys,
                    revision : Nat,
                    channel  : Channels \union {NoChannel},
                    content  : Contents \union {NoContent}],
          answer : Answers]

\* Among the types, the primary key of message_idempotency.
TypeOK ==
    /\ rows \in [Keys -> Store!Row]
    /\ replays \subseteq Entry
    /\ \A e, f \in replays : e.idem = f.idem => e = f
    /\ asked \in [Requests -> Request \union {NoRequest}]
    /\ sends \in [Requests -> 0..MaxSends]
    /\ handlers \in [Handlers -> Handler]
    /\ answers \in [Requests -> SUBSET Answers]
    /\ applied \in [Requests -> Nat]

\* A request changes its row at most once, however many copies of it are sent,
\* at the same time or after its key has expired: what the idempotency table
\* has forgotten, the revision still refuses.
AppliedAtMostOnce == \A r \in Requests : applied[r] <= 1

\* Of the API requests that start from one revision of a message only one
\* changes it: no client overwrites a change it has not seen.
OneWinner ==
    \A r, s \in Requests :
        /\ r # s
        /\ applied[r] > 0 /\ applied[s] > 0
        /\ asked[r].key = asked[s].key
        /\ asked[r].op \in ApiOps /\ asked[s].op \in ApiOps
        => asked[r].revision # asked[s].revision

Accepted(r) == answers[r] \ {Refused}

Fits(req, answer) ==
    /\ answer.archived <=> Verb(req.op) = "archive"
    /\ req.channel # NoChannel => answer.channel = req.channel
    /\ req.content # NoContent => answer.content = req.content

OwnKey(r) == \A s \in Requests \ {r} : asked[s].idem # asked[r].idem

\* All accepted copies of a request with a key of its own are answered alike, by
\* the transaction or by a replay, even after the key has expired.
AnswersAgree ==
    \A r \in Requests : Asked(r) /\ OwnKey(r) => Cardinality(Accepted(r)) <= 1

\* An accepted request is answered with what it asked for, never with the
\* result of another request that used the same key.
AnswersFit ==
    \A r \in Requests : \A answer \in Accepted(r) : Fits(asked[r], answer)

\* An assignment moves a message and leaves its content as it is, although it
\* reads the content before, and outside of, the transaction that writes it.
AssignmentKeepsContent ==
    [][\A r \in Requests :
        /\ applied'[r] # applied[r]
        /\ asked[r].op = "assign"
        => rows'[asked[r].key].content = rows[asked[r].key].content]_vars

\* README.md: "Repetir una operación con la misma clave devuelve su resultado
\* anterior", and keys are kept for 24 hours: while the answer to a request is
\* kept under a key of its own, no further copy of it is refused.
RetryReturnsResult ==
    [][\A r \in Requests :
        /\ Asked(r) /\ OwnKey(r) /\ Reserved(asked[r].idem)
        /\ Refused \in answers'[r]
        => Refused \in answers[r]]_vars

-----------------------------------------------------------------------------
(* The inductive invariant behind the safety properties.                   *)

RowIsSound(k) ==
    /\ rows[k].state = "absent" <=> rows[k].revision = 0
    /\ rows[k].state = "absent" => rows[k] = Store!AbsentRow

Working(h, r) == ~At(h, "idle") /\ handlers[h].request = r

\* What a client asked for was well formed, and its revision has existed.
RequestIsSound(r) ==
    LET req == asked[r] IN
    Asked(r) =>
        /\ req.revision <= rows[req.key].revision
        /\ req.op \in {"create"} \union CommandOps => req.revision = 0
        /\ req.op \in {"archive", "retire"} => req.channel = NoChannel
        /\ req.op \in {"replace", "assign", "create"} => req.channel # NoChannel
        /\ req.op \in {"create", "replace", "edit"} <=> req.content # NoContent
        /\ req.idem = r <=> req.op \in CommandOps
        /\ req.idem \in IdemKeys \union {r}

\* What a handler has put together is what was asked for; the content of an
\* assignment is the one of its revision, unless that has passed.
HandlerIsSound(h) ==
    LET handler == handlers[h]
        req == asked[handler.request]
    IN
    ~At(h, "idle") =>
        /\ handler.request \in Requests /\ Asked(handler.request)
        /\ sends[handler.request] > 0
        /\ handler.step = "check" => req.op = "edit"
        /\ handler.step = "get" => req.op \in {"assign"} \union CommandOps
        /\ req.op \in ApiOps => handler.revision = req.revision
        /\ req.channel # NoChannel => handler.channel = req.channel
        /\ req.content # NoContent => handler.content = req.content
        /\ req.op = "assign" /\ handler.step = "put"
                /\ rows[req.key].revision = req.revision
            => handler.content = rows[req.key].content

\* A command has one copy; what was applied lies behind the row's revision.
HistoryIsSound(r) ==
    /\ sends[r] = 0 => applied[r] = 0 /\ answers[r] = {} /\ \A h \in Handlers : ~Working(h, r)
    /\ ~Asked(r) => sends[r] = 0
    /\ applied[r] > 0 /\ asked[r].op \in ApiOps =>
           rows[asked[r].key].revision > asked[r].revision
    /\ asked[r].op \in CommandOps =>
           /\ sends[r] <= 1
           /\ \A g, h \in Handlers : Working(g, r) /\ Working(h, r) => g = h
           /\ applied[r] > 0 \/ answers[r] # {} => \A h \in Handlers : ~Working(h, r)

\* A stored answer is what its change asked for, and its key's only request,
\* if there is only one, has been given it.
ReplayIsSound(e) ==
    LET verb == e.change.verb IN
    /\ e.answer # Refused
    /\ e.answer.archived <=> verb = "archive"
    /\ verb # "archive" => /\ e.answer.channel = e.change.channel
                           /\ e.answer.content = e.change.content
    /\ \E r \in Requests : Asked(r) /\ asked[r].idem = e.idem
    /\ \A r \in Requests :
           Asked(r) /\ asked[r].idem = e.idem /\ OwnKey(r) => e.answer \in answers[r]

\* An accepted request that has changed nothing was answered with the row as it
\* is, until somebody else changes it.
AnswersAreSound(r) ==
    Asked(r) /\ OwnKey(r) =>
        /\ \A a, b \in Accepted(r) : a = b
        /\ /\ asked[r].op \in ApiOps /\ Accepted(r) # {}
           /\ rows[asked[r].key].revision = asked[r].revision
           => Answer(rows[asked[r].key]) \in Accepted(r)

IInv ==
    /\ TypeOK
    /\ AppliedAtMostOnce /\ OneWinner /\ AnswersFit
    /\ \A k \in Keys : RowIsSound(k)
    /\ \A h \in Handlers : HandlerIsSound(h)
    /\ \A r \in Requests : RequestIsSound(r) /\ HistoryIsSound(r) /\ AnswersAreSound(r)
    /\ \A e \in replays : ReplayIsSound(e)
=============================================================================
