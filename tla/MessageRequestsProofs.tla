----------------------- MODULE MessageRequestsProofs -----------------------
(***************************************************************************)
(* Proofs about MessageRequests, for every set of requests, idempotency    *)
(* keys, handlers, message keys, channels and contents, and however often  *)
(* a request is sent.                                                      *)
(***************************************************************************)
EXTENDS MessageRequests, FiniteSetTheorems, TLAPS

-----------------------------------------------------------------------------
(* What the store's statements and answers are.                            *)

Sound(row) ==
    /\ row \in Store!Row
    /\ row.state = "absent" <=> row.revision = 0
    /\ row.state = "absent" => row = Store!AbsentRow

LEMMA RowType ==
    ASSUME IInv, NEW k \in Keys
    PROVE  Sound(rows[k]) /\ rows[k].revision \in Nat
  BY DEF IInv, TypeOK, RowIsSound, Sound, Store!Row

\* What a transaction that is not refused leaves of its row.
LEMMA MutatedRow ==
    ASSUME NEW row, Sound(row), NEW verb \in {"create", "replace", "archive"},
           NEW revision \in Nat, ~Conflict(verb, row, revision),
           NEW channel \in Channels \union {NoChannel},
           NEW content \in Contents \union {NoContent},
           NEW new, new = Mutated(verb, row, channel, content)
    PROVE  /\ Sound(new) /\ new.state # "absent" /\ new.revision > 0
           /\ new = row \/ new.revision = row.revision + 1
           /\ verb = "replace" /\ channel = row.channel /\ content = row.content
                  => new = row
           /\ new.state = "archived" <=> verb = "archive"
           /\ verb # "archive" => new.channel = channel /\ new.content = content
  <1>1. row \in Store!Row /\ row.revision \in Nat
    BY DEF Sound, Store!Row
  <1>2. CASE verb = "create"
    <2>1. row.revision = 0 /\ new = Store!InsertedRow(channel, content)
      BY <1>2 DEF Conflict, Mutated, Store!Exists, Sound
    <2>2. /\ new \in Store!Row /\ new.state = "pending" /\ new.revision = 1
          /\ new.channel = channel /\ new.content = content
      <3>1. Store!AbsentRow \in Store!Row
        BY DEF Store!AbsentRow, Store!Row, Store!Hashes
      <3>2. \A r \in Store!Row :
                [r EXCEPT !.state = "pending", !.revision = 1, !.due = TRUE,
                          !.channel = channel, !.content = content] \in Store!Row
        BY DEF Store!Row, Store!States
      <3>3. new \in Store!Row
        BY <2>1, <3>1, <3>2 DEF Store!InsertedRow
      <3>4. /\ new.state = "pending" /\ new.revision = 1
            /\ new.channel = channel /\ new.content = content
        BY <2>1 DEF Store!InsertedRow, Store!AbsentRow
      <3>5. QED
        BY <3>3, <3>4
    <2>3. QED
      BY <1>2, <2>1, <2>2 DEF Sound
  <1>3. CASE verb = "archive"
    <2>1. new = Store!ArchivedRow(row)
      BY <1>3 DEF Mutated
    <2>2. row.revision + 1 \in Nat
      BY <1>1
    <2>3. /\ new \in Store!Row /\ new.state = "archived"
          /\ new.revision = row.revision + 1
      BY <1>1, <2>1, <2>2 DEF Store!ArchivedRow, Store!Row, Store!States
    <2>4. QED
      BY <1>1, <1>3, <2>3 DEF Sound
  <1>4. CASE verb = "replace"
    <2>1. row.state # "archived" /\ row.state # "absent" /\ row.revision > 0
      BY <1>1, <1>4 DEF Conflict, Store!Markable, Store!Exists, Store!Archived, Sound
    <2>2. CASE row.channel = channel /\ row.content = content
      BY <1>4, <2>1, <2>2 DEF Mutated
    <2>3. CASE ~(row.channel = channel /\ row.content = content)
      <3>1. new = Store!ReplacedRow(row, channel, content)
        BY <1>4, <2>3 DEF Mutated
      <3>2. /\ (IF channel = row.channel THEN row.message ELSE Store!NoMessage)
                  \in Store!MessageIds \union {Store!NoMessage}
            /\ row.revision + 1 \in Nat
        BY <1>1 DEF Store!Row
      <3>3. /\ new \in Store!Row /\ new.state = "pending"
            /\ new.revision = row.revision + 1
            /\ new.channel = channel /\ new.content = content
        BY <3>1, <3>2 DEF Store!ReplacedRow, Store!Row, Store!States, Store!Hashes
      <3>4. QED
        BY <1>1, <1>4, <2>3, <3>3 DEF Sound
    <2>4. QED
      BY <2>2, <2>3
  <1>5. QED
    BY <1>2, <1>3, <1>4

LEMMA AnswerType ==
    ASSUME NEW row, Sound(row)
    PROVE  /\ Answer(row) \in Answers
           /\ Answer(row).revision = row.revision
           /\ Answer(row).channel = row.channel /\ Answer(row).content = row.content
           /\ Answer(row).archived <=> row.state = "archived"
           /\ row.revision # 0 => Answer(row) # Refused
           /\ row.revision = 0 => Answer(row) = Refused
  <1>1. /\ Answer(row) \in Answers
        /\ Answer(row).revision = row.revision
        /\ Answer(row).channel = row.channel /\ Answer(row).content = row.content
        /\ Answer(row).archived <=> row.state = "archived"
    BY DEF Answer, Answers, Sound, Store!Row, Store!Archived
  <1>2. row.revision # 0 => Answer(row) # Refused
    BY <1>1 DEF Refused
  <1>3. ASSUME row.revision = 0
        PROVE  Answer(row) = Refused
    <2>1. row = Store!AbsentRow
      BY <1>3 DEF Sound
    <2>2. row.channel = NoChannel /\ row.content = NoContent /\ row.state = "absent"
      BY <2>1 DEF Store!AbsentRow
    <2>3. /\ Refused \in Answers /\ Refused.revision = 0 /\ Refused.channel = NoChannel
          /\ Refused.content = NoContent /\ ~Refused.archived
      BY DEF Refused, Answers
    <2>4. \A a, b \in Answers :
              /\ a.revision = b.revision /\ a.channel = b.channel
              /\ a.content = b.content /\ (a.archived <=> b.archived)
              => a = b
      BY DEF Answers
    <2>5. QED
      BY <1>1, <1>3, <2>2, <2>3, <2>4
  <1>4. QED
    BY <1>1, <1>2, <1>3

-----------------------------------------------------------------------------
(* A handler at work.                                                      *)

LEMMA HandlerFacts ==
    ASSUME IInv, NEW h \in Handlers, ~At(h, "idle")
    PROVE  LET r == handlers[h].request IN
           /\ r \in Requests /\ Asked(r) /\ asked[r] \in Request /\ asked[r].key \in Keys
           /\ handlers[h] \in Handler /\ HandlerIsSound(h)
           /\ RequestIsSound(r) /\ HistoryIsSound(r) /\ AnswersAreSound(r)
  BY DEF IInv, TypeOK, HandlerIsSound, Asked, Request

\* A step of one handler that gives no answer.
LEMMA HandlerFrame ==
    ASSUME IInv, UNCHANGED <<rows, replays, asked, sends, answers, applied>>,
           NEW h \in Handlers, ~At(h, "idle"), NEW handler \in Handler,
           SetHandler(h, handler),
           handler.step = "idle" \/ handler.request = handlers[h].request,
           HandlerIsSound(h)'
    PROVE  IInv'
  <1>1. handlers \in [Handlers -> Handler]
    BY DEF IInv, TypeOK
  <1>2. \A g \in Handlers : handlers'[g] = IF g = h THEN handler ELSE handlers[g]
    BY <1>1 DEF SetHandler
  <1>3. \A r : \A g \in Handlers : Working(g, r)' => Working(g, r)
    BY <1>2 DEF Working, At
  <1>4. TypeOK'
    BY <1>1 DEF IInv, TypeOK, SetHandler
  <1>5. ASSUME NEW g \in Handlers
        PROVE  HandlerIsSound(g)'
    BY <1>2 DEF IInv, HandlerIsSound, At, Asked
  <1>6. ASSUME NEW r \in Requests
        PROVE  HistoryIsSound(r)'
    <2>1. HistoryIsSound(r)
      BY DEF IInv
    <2>2. QED
      BY <1>3, <2>1 DEF HistoryIsSound, Asked
  <1>7. /\ AppliedAtMostOnce' /\ OneWinner' /\ AnswersFit'
        /\ \A k \in Keys : RowIsSound(k)'
        /\ \A r \in Requests : RequestIsSound(r)' /\ AnswersAreSound(r)'
        /\ \A e \in replays' : ReplayIsSound(e)'
    BY DEF IInv, AppliedAtMostOnce, OneWinner, AnswersFit, Accepted, RowIsSound,
           RequestIsSound, AnswersAreSound, ReplayIsSound, OwnKey, Asked
  <1>8. QED
    BY <1>4, <1>5, <1>6, <1>7 DEF IInv

LEMMA AbandonKeeps ==
    ASSUME IInv, NEW h \in Handlers, Abandon(h)
    PROVE  IInv'
  <1>1. IdleHandler \in Handler /\ IdleHandler.step = "idle"
    BY DEF IdleHandler, Handler
  <1>2. HandlerIsSound(h)'
    BY <1>1 DEF Abandon, SetHandler, IInv, TypeOK, HandlerIsSound, At
  <1>3. QED
    BY <1>1, <1>2, HandlerFrame DEF Abandon

\* A handler that answers without changing anything else: with an error, or with
\* an answer that fits and that its request, if its key is its own, already has.
LEMMA AnswerFrame ==
    ASSUME IInv, UNCHANGED <<rows, replays, asked, sends, applied>>,
           NEW h \in Handlers, ~At(h, "idle"), NEW answer \in Answers,
           Replies(h, answer),
           answer # Refused =>
               LET r == handlers[h].request IN
               /\ Fits(asked[r], answer)
               /\ OwnKey(r) => answer \in answers[r]
    PROVE  IInv'
  <1> DEFINE r == handlers[h].request
  <1>1. /\ handlers \in [Handlers -> Handler] /\ answers \in [Requests -> SUBSET Answers]
        /\ r \in Requests /\ sends[r] > 0 /\ sends[r] \in Nat
    BY HandlerFacts, MessageRequestsAssumption DEF IInv, TypeOK, HandlerIsSound
  <1>2. IdleHandler \in Handler /\ IdleHandler.step = "idle"
    BY DEF IdleHandler, Handler
  <1>3. \A g \in Handlers : handlers'[g] = IF g = h THEN IdleHandler ELSE handlers[g]
    BY <1>1 DEF Replies, SetHandler
  <1>4. \A s \in Requests : answers'[s] = IF s = r THEN answers[s] \union {answer}
                                                   ELSE answers[s]
    BY <1>1 DEF Replies
  <1>5. \A s : \A g \in Handlers : Working(g, s)' => Working(g, s) /\ g # h
    BY <1>2, <1>3 DEF Working, At
  <1>6. Working(h, r)
    BY DEF Working
  <1>7. TypeOK'
    BY <1>1, <1>2 DEF IInv, TypeOK, Replies, SetHandler
  <1>8. ASSUME NEW g \in Handlers
        PROVE  HandlerIsSound(g)'
    BY <1>2, <1>3 DEF IInv, HandlerIsSound, At, Asked
  <1> HIDE DEF r
  <1>9. ASSUME NEW s \in Requests
        PROVE  HistoryIsSound(s)'
    <2>1. HistoryIsSound(s)
      BY DEF IInv
    <2>2. s # r => answers'[s] = answers[s]
      BY <1>4
    <2>3. s = r => sends[s] # 0
      BY <1>1
    <2>4. asked[s].op \in CommandOps /\ s = r => \A g \in Handlers : ~Working(g, s)'
      BY <1>5, <1>6, <2>1 DEF HistoryIsSound
    <2>5. QED
      BY <1>5, <2>1, <2>2, <2>3, <2>4 DEF HistoryIsSound, Asked
  <1>10. AnswersFit'
    BY <1>1, <1>4 DEF IInv, AnswersFit, Accepted, r
  <1>11. ASSUME NEW s \in Requests
         PROVE  AnswersAreSound(s)'
    <2>1. AnswersAreSound(s)
      BY DEF IInv
    <2>2. OwnKey(s) => Accepted(s)' = Accepted(s)
      BY <1>4 DEF Accepted, r
    <2>3. QED
      BY <2>1, <2>2 DEF AnswersAreSound, Asked, OwnKey
  <1>12. ASSUME NEW e \in replays'
         PROVE  ReplayIsSound(e)'
    <2>1. ReplayIsSound(e)
      BY DEF IInv
    <2>2. \A s \in Requests : answers[s] \subseteq answers'[s]
      BY <1>4
    <2>3. QED
      BY <2>1, <2>2 DEF ReplayIsSound, Asked, OwnKey
  <1>13. /\ AppliedAtMostOnce' /\ OneWinner' /\ \A k \in Keys : RowIsSound(k)'
         /\ \A s \in Requests : RequestIsSound(s)'
    BY DEF IInv, AppliedAtMostOnce, OneWinner, RowIsSound, RequestIsSound, Asked
  <1>14. QED
    BY <1>7, <1>8, <1>9, <1>10, <1>11, <1>12, <1>13 DEF IInv

LEMMA RefusedType == Refused \in Answers
  BY DEF Refused, Answers

LEMMA CheckEditKeeps ==
    ASSUME IInv, NEW h \in Handlers, CheckEdit(h)
    PROVE  IInv'
  <1> DEFINE row == rows[Target(h)]
  <1>1. ~At(h, "idle") /\ UNCHANGED <<rows, replays, asked, sends, applied>>
    BY DEF CheckEdit, At
  <1>2. CASE Replies(h, Refused)
    BY <1>1, <1>2, RefusedType, AnswerFrame
  <1>3. ASSUME UNCHANGED answers,
               SetHandler(h, [handlers[h] EXCEPT
                   !.step = "get",
                   !.channel = IF @ = NoChannel THEN row.channel ELSE @])
        PROVE  IInv'
    <2> DEFINE channel == IF handlers[h].channel = NoChannel THEN row.channel
                                                            ELSE handlers[h].channel
               handler == [handlers[h] EXCEPT !.step = "get", !.channel = channel]
    <2>1. /\ handlers[h] \in Handler /\ HandlerIsSound(h)
          /\ asked[handlers[h].request].op = "edit"
          /\ row.channel \in Channels \union {NoChannel}
      BY <1>1, HandlerFacts, RowType
         DEF HandlerIsSound, CheckEdit, At, Target, Sound, Store!Row
    <2>2. channel \in Channels \union {NoChannel}
      BY <2>1 DEF Handler
    <2> HIDE DEF channel, row
    <2>3. /\ handler \in Handler /\ handler.step = "get" /\ handler.channel = channel
          /\ handler.request = handlers[h].request
          /\ handler.content = handlers[h].content
          /\ handler.revision = handlers[h].revision
      BY <2>1, <2>2 DEF Handler
    <2>4. SetHandler(h, handler)
      BY <1>3 DEF channel
    <2>5. handlers'[h] = handler
      BY <2>4 DEF SetHandler, IInv, TypeOK
    <2>6. HandlerIsSound(h)'
      <3> HIDE DEF handler
      <3>1. handlers[h].channel # NoChannel => channel = handlers[h].channel
        BY DEF channel
      <3>2. QED
        BY <1>1, <2>1, <2>3, <2>5, <3>1
           DEF HandlerIsSound, At, Asked, ApiOps, CommandOps
    <2> HIDE DEF handler
    <2>7. QED
      BY <1>1, <1>3, <2>3, <2>4, <2>6, HandlerFrame
  <1>4. QED
    BY <1>2, <1>3 DEF CheckEdit

LEMMA GetMessageKeeps ==
    ASSUME IInv, NEW h \in Handlers, GetMessage(h)
    PROVE  IInv'
  <1> DEFINE req == asked[handlers[h].request]
             row == rows[req.key]
             handler == Read(handlers[h], req, row)
  <1>1. ~At(h, "idle") /\ UNCHANGED <<rows, replays, asked, sends, applied>>
    BY DEF GetMessage, At
  <1>2. CASE Replies(h, Refused)
    BY <1>1, <1>2, RefusedType, AnswerFrame
  <1>3. ASSUME UNCHANGED answers, SetHandler(h, handler)
        PROVE  IInv'
    <2>1. /\ handlers[h] \in Handler /\ HandlerIsSound(h)
          /\ RequestIsSound(handlers[h].request) /\ Asked(handlers[h].request)
          /\ req.op \in {"assign"} \union CommandOps
          /\ row.revision \in Nat /\ row.content \in Contents \union {NoContent}
      BY <1>1, HandlerFacts, RowType DEF HandlerIsSound, GetMessage, At, Sound, Store!Row
    <2>2. CASE req.op = "assign"
      <3>1. handler = [handlers[h] EXCEPT !.step = "put", !.content = row.content]
        BY <2>2 DEF Read
      <3> HIDE DEF handler, row
      <3>2. /\ handler \in Handler /\ handler.step = "put"
            /\ handler.content = row.content /\ handler.channel = handlers[h].channel
            /\ handler.request = handlers[h].request
            /\ handler.revision = handlers[h].revision
        BY <2>1, <3>1 DEF Handler
      <3>3. handlers'[h] = handler
        BY <1>3 DEF SetHandler, IInv, TypeOK
      <3>4. req.content = NoContent
        BY <2>1, <2>2 DEF RequestIsSound, CommandOps
      <3>5. HandlerIsSound(h)'
        BY <1>1, <2>1, <2>2, <3>2, <3>3, <3>4 DEF HandlerIsSound, At, Asked, row
      <3>6. QED
        BY <1>1, <1>3, <3>2, <3>5, HandlerFrame
    <2>3. CASE req.op \in CommandOps
      <3>1. handler = [handlers[h] EXCEPT !.step = "put", !.revision = row.revision]
        BY <2>3 DEF Read, CommandOps
      <3> HIDE DEF handler, row
      <3>2. /\ handler \in Handler /\ handler.step = "put"
            /\ handler.content = handlers[h].content
            /\ handler.channel = handlers[h].channel
            /\ handler.request = handlers[h].request
        BY <2>1, <3>1 DEF Handler
      <3>3. handlers'[h] = handler
        BY <1>3 DEF SetHandler, IInv, TypeOK
      <3>4. HandlerIsSound(h)'
        BY <1>1, <2>1, <2>3, <3>2, <3>3 DEF HandlerIsSound, At, Asked, ApiOps, CommandOps
      <3>5. QED
        BY <1>1, <1>3, <3>2, <3>4, HandlerFrame
    <2>4. QED
      BY <2>1, <2>2, <2>3
  <1>4. QED
    BY <1>2, <1>3 DEF GetMessage

-----------------------------------------------------------------------------
(* The transaction.                                                        *)

\* What a transaction that commits does, in the terms the invariant needs.
Applies(h, new) ==
    LET r == handlers[h].request
        req == asked[r]
        handler == handlers[h]
        row == rows[req.key]
    IN
    /\ At(h, "put")
    /\ ~Reserved(req.idem) /\ ~Conflict(Verb(req.op), row, handler.revision)
    /\ new = Mutated(Verb(req.op), row, handler.channel, handler.content)
    /\ rows' = [rows EXCEPT ![req.key] = new]
    /\ replays' = replays \union
           {[idem |-> req.idem, change |-> Change(handler, req), answer |-> Answer(new)]}
    /\ applied' = [applied EXCEPT ![r] = IF new = row THEN @ ELSE @ + 1]
    /\ Replies(h, Answer(new))
    /\ UNCHANGED <<asked, sends>>

LEMMA VerbType ==
    ASSUME NEW req \in Request
    PROVE  /\ Verb(req.op) \in {"create", "replace", "archive"}
           /\ Verb(req.op) = "create" <=> req.op = "create"
           /\ Verb(req.op) = "replace" <=> req.op \in {"replace", "assign", "edit"}
           /\ Verb(req.op) = "archive" <=> req.op \in {"archive", "retire"}
  BY DEF Request, Verb, ApiOps, CommandOps

\* A replay fits the request it is given to.
LEMMA ReplayFits ==
    ASSUME IInv, NEW h \in Handlers, ~At(h, "idle"), NEW e \in replays,
           e.change = Change(handlers[h], asked[handlers[h].request])
    PROVE  Fits(asked[handlers[h].request], e.answer)
  <1> DEFINE req == asked[handlers[h].request]
             handler == handlers[h]
  <1>1. /\ req \in Request /\ HandlerIsSound(h) /\ RequestIsSound(handler.request)
        /\ Asked(handler.request) /\ ReplayIsSound(e)
    BY HandlerFacts DEF IInv
  <1>2. /\ e.change.verb = Verb(req.op) /\ e.change.channel = handler.channel
        /\ e.change.content = handler.content
    BY DEF Change
  <1>3. /\ req.channel # NoChannel => handler.channel = req.channel
        /\ req.content # NoContent => handler.content = req.content
        /\ req.op \in {"archive", "retire"} =>
               req.channel = NoChannel /\ req.content = NoContent
    BY <1>1 DEF HandlerIsSound, RequestIsSound
  <1> HIDE DEF req, handler
  <1>4. Fits(req, e.answer)
    BY <1>1, <1>2, <1>3, VerbType DEF Fits, ReplayIsSound
  <1>5. QED
    BY <1>4 DEF req

\* The facts of a transaction that commits.
LEMMA AppliesFacts ==
    ASSUME IInv, NEW h \in Handlers, NEW new, Applies(h, new)
    PROVE  LET r == handlers[h].request
               req == asked[r]
               row == rows[req.key]
           IN
           /\ Sound(new) /\ new.state # "absent" /\ new.revision > 0 /\ new.revision \in Nat
           /\ new = row \/ new.revision = row.revision + 1
           /\ req.op \in ApiOps => row.revision = req.revision
           /\ Answer(new) \in Answers /\ Answer(new) # Refused
           /\ Fits(req, Answer(new))
           /\ Answer(new).archived <=> Verb(req.op) = "archive"
           /\ Verb(req.op) # "archive" => /\ Answer(new).channel = handlers[h].channel
                                         /\ Answer(new).content = handlers[h].content
  <1> DEFINE r == handlers[h].request
             req == asked[r]
             row == rows[req.key]
             handler == handlers[h]
             verb == Verb(req.op)
  <1>1. /\ ~At(h, "idle") /\ req \in Request /\ handler \in Handler
        /\ HandlerIsSound(h) /\ RequestIsSound(r) /\ Asked(r)
        /\ Sound(row) /\ row.revision \in Nat
    BY HandlerFacts, RowType DEF Applies, At
  <1>2. /\ verb \in {"create", "replace", "archive"} /\ handler.revision \in Nat
        /\ handler.channel \in Channels \union {NoChannel}
        /\ handler.content \in Contents \union {NoContent}
        /\ ~Conflict(verb, row, handler.revision)
        /\ new = Mutated(verb, row, handler.channel, handler.content)
    BY <1>1, VerbType DEF Applies, Handler
  <1>3. /\ req.op \in ApiOps => handler.revision = req.revision
        /\ req.channel # NoChannel => handler.channel = req.channel
        /\ req.content # NoContent => handler.content = req.content
        /\ req.op = "create" => req.revision = 0
        /\ req.op \in {"archive", "retire"} =>
               req.channel = NoChannel /\ req.content = NoContent
    BY <1>1 DEF HandlerIsSound, RequestIsSound
  <1>4. req.op \in ApiOps => row.revision = req.revision
    BY <1>1, <1>2, <1>3, VerbType DEF Conflict, Sound, Store!Exists
  <1> HIDE DEF row, verb, handler
  <1>5. /\ Sound(new) /\ new.state # "absent" /\ new.revision > 0
        /\ new = row \/ new.revision = row.revision + 1
        /\ new.state = "archived" <=> verb = "archive"
        /\ verb # "archive" => new.channel = handler.channel /\ new.content = handler.content
    BY <1>1, <1>2, MutatedRow
  <1>6. /\ Answer(new) \in Answers /\ Answer(new) # Refused
        /\ Answer(new).channel = new.channel /\ Answer(new).content = new.content
        /\ Answer(new).archived <=> new.state = "archived"
    <2>1. new.revision # 0
      BY <1>5 DEF Sound
    <2>2. QED
      BY <1>5, <2>1, AnswerType
  <1>7. new.revision \in Nat
    BY <1>5 DEF Sound, Store!Row
  <1>8. Fits(req, Answer(new))
    BY <1>1, <1>3, <1>5, <1>6, VerbType DEF Fits, verb
  <1>9. QED
    BY <1>4, <1>5, <1>6, <1>7, <1>8 DEF row, verb, handler

\* An own request that has been accepted already finds its row as it left it.
LEMMA AcceptedIsRow ==
    ASSUME IInv, NEW h \in Handlers, NEW new, Applies(h, new),
           OwnKey(handlers[h].request), Accepted(handlers[h].request) # {}
    PROVE  /\ new = rows[asked[handlers[h].request].key]
           /\ Accepted(handlers[h].request) = {Answer(new)}
  <1> DEFINE r == handlers[h].request
             req == asked[r]
             row == rows[req.key]
             handler == handlers[h]
  <1>1. /\ ~At(h, "idle") /\ At(h, "put") /\ r \in Requests /\ Asked(r)
        /\ req \in Request /\ HandlerIsSound(h) /\ RequestIsSound(r) /\ HistoryIsSound(r)
        /\ AnswersAreSound(r) /\ Sound(row) /\ row.revision \in Nat
    BY HandlerFacts, RowType DEF Applies, At
  <1>2. req.op \in ApiOps
    <2>1. Working(h, r) /\ answers[r] # {}
      BY <1>1 DEF Working, Accepted
    <2>2. req.op \notin CommandOps
      BY <1>1, <2>1 DEF HistoryIsSound
    <2>3. QED
      BY <1>1, <2>2 DEF Request
  <1>3. row.revision = req.revision
    BY <1>2, AppliesFacts
  <1>4. Answer(row) \in Accepted(r) /\ \A a, b \in Accepted(r) : a = b
    BY <1>1, <1>2, <1>3 DEF AnswersAreSound
  <1>5. Fits(req, Answer(row)) /\ Answer(row) # Refused
    BY <1>1, <1>4 DEF IInv, AnswersFit, Accepted
  <1>6. row.revision # 0 /\ Answer(row).channel = row.channel
        /\ Answer(row).content = row.content
        /\ (Answer(row).archived <=> row.state = "archived")
    BY <1>1, <1>5, AnswerType
  <1>7. /\ ~Conflict(Verb(req.op), row, handler.revision)
        /\ new = Mutated(Verb(req.op), row, handler.channel, handler.content)
    BY DEF Applies
  <1>8. Verb(req.op) = "replace"
    <2>1. Verb(req.op) # "create"
      BY <1>1, <1>6, <1>7 DEF Conflict, Store!Exists, Sound
    <2>2. Verb(req.op) # "archive"
      BY <1>5, <1>6, <1>7 DEF Conflict, Store!Markable, Store!Archived, Fits
    <2>3. QED
      BY <1>1, <2>1, <2>2, VerbType
  <1>9. req.op \in {"replace", "assign"}
    BY <1>1, <1>2, <1>8, VerbType DEF ApiOps
  <1>10. handler.channel = row.channel
    BY <1>1, <1>5, <1>6, <1>9 DEF HandlerIsSound, RequestIsSound, Fits
  <1>11. handler.content = row.content
    <2>1. CASE req.op = "replace"
      BY <1>1, <1>5, <1>6, <2>1 DEF HandlerIsSound, RequestIsSound, Fits
    <2>2. CASE req.op = "assign"
      BY <1>1, <1>3, <2>2 DEF HandlerIsSound, At
    <2>3. QED
      BY <1>9, <2>1, <2>2
  <1>12. new = row
    BY <1>7, <1>8, <1>10, <1>11 DEF Mutated
  <1>13. QED
    BY <1>4, <1>12

LEMMA ApplyKeeps ==
    ASSUME IInv, NEW h \in Handlers, NEW new, Applies(h, new)
    PROVE  IInv'
  <1> DEFINE r == handlers[h].request
             req == asked[r]
             row == rows[req.key]
             answer == Answer(new)
             entry == [idem |-> req.idem, change |-> Change(handlers[h], req),
                       answer |-> answer]
  <1>1. /\ ~At(h, "idle") /\ At(h, "put") /\ r \in Requests /\ Asked(r)
        /\ req \in Request /\ req.key \in Keys /\ handlers[h] \in Handler
        /\ HandlerIsSound(h) /\ RequestIsSound(r) /\ HistoryIsSound(r)
        /\ row.revision \in Nat /\ Working(h, r) /\ sends[r] # 0
    <2>1. ~At(h, "idle") /\ At(h, "put")
      BY DEF Applies, At
    <2>2. sends[r] > 0 /\ sends[r] \in 0..MaxSends
      BY <2>1, HandlerFacts DEF HandlerIsSound, IInv, TypeOK
    <2>3. sends[r] # 0
      BY <2>2, MessageRequestsAssumption
    <2>4. QED
      BY <2>1, <2>3, HandlerFacts, RowType DEF Working
  <1>2. /\ Sound(new) /\ new.state # "absent" /\ new.revision > 0
        /\ new.revision \in Nat
        /\ new = row \/ new.revision = row.revision + 1
        /\ req.op \in ApiOps => row.revision = req.revision
        /\ answer \in Answers /\ answer # Refused /\ Fits(req, answer)
        /\ answer.archived <=> Verb(req.op) = "archive"
        /\ Verb(req.op) # "archive" => /\ answer.channel = handlers[h].channel
                                      /\ answer.content = handlers[h].content
    BY AppliesFacts
  <1>3. /\ rows \in [Keys -> Store!Row] /\ handlers \in [Handlers -> Handler]
        /\ answers \in [Requests -> SUBSET Answers] /\ applied \in [Requests -> Nat]
        /\ asked' = asked /\ sends' = sends
        /\ IdleHandler \in Handler /\ IdleHandler.step = "idle"
    BY DEF IInv, TypeOK, Applies, IdleHandler, Handler
  <1>4. \A k \in Keys : rows'[k] = IF k = req.key THEN new ELSE rows[k]
    BY <1>1, <1>3 DEF Applies
  <1>5. \A g \in Handlers : handlers'[g] = IF g = h THEN IdleHandler ELSE handlers[g]
    BY <1>3 DEF Applies, Replies, SetHandler
  <1>6. \A s \in Requests : answers'[s] = IF s = r THEN answers[s] \union {answer}
                                                   ELSE answers[s]
    BY <1>3 DEF Applies, Replies
  <1>7. \A s \in Requests :
            applied'[s] = IF s = r /\ new # row THEN applied[s] + 1 ELSE applied[s]
    BY <1>1, <1>3 DEF Applies
  <1>8. replays' = replays \union {entry} /\ ~Reserved(req.idem)
    BY DEF Applies
  <1>9. /\ \A s : \A g \in Handlers : Working(g, s)' => Working(g, s) /\ g # h
        /\ \A s : Asked(s)' <=> Asked(s)
        /\ \A s : OwnKey(s)' <=> OwnKey(s)
    BY <1>3, <1>5 DEF Working, At, Asked, OwnKey
  <1>10. \A k \in Keys : /\ rows[k].revision \in Nat /\ rows'[k].revision \in Nat
                         /\ \/ rows'[k] = rows[k]
                            \/ rows'[k].revision = rows[k].revision + 1
    BY <1>2, <1>4, RowType
  <1>11. entry \in Entry /\ entry.idem = req.idem /\ entry.answer = answer
         /\ entry.change.verb = Verb(req.op)
         /\ entry.change.channel = handlers[h].channel
         /\ entry.change.content = handlers[h].content
    <2>1. /\ Verb(req.op) \in {"create", "replace", "archive"}
          /\ req.idem \in IdemKeys \union Requests
      BY <1>1, VerbType DEF Request
    <2>2. Change(handlers[h], req) \in
              [verb : {"create", "replace", "archive"}, key : Keys, revision : Nat,
               channel : Channels \union {NoChannel}, content : Contents \union {NoContent}]
      BY <1>1, <2>1 DEF Change, Handler
    <2>3. /\ Change(handlers[h], req).verb = Verb(req.op)
          /\ Change(handlers[h], req).channel = handlers[h].channel
          /\ Change(handlers[h], req).content = handlers[h].content
      BY DEF Change
    <2> HIDE DEF answer
    <2>4. QED
      BY <1>2, <2>1, <2>2, <2>3 DEF Entry
  <1> HIDE DEF r, answer, entry, row
  <1>12. TypeOK'
    <2>1. new \in Store!Row
      BY <1>2 DEF Sound
    <2>2. rows' \in [Keys -> Store!Row]
      BY <1>1, <1>3, <2>1 DEF Applies, r
    <2>3. /\ handlers' \in [Handlers -> Handler]
          /\ answers' \in [Requests -> SUBSET Answers]
      BY <1>2, <1>3 DEF Applies, Replies, SetHandler, answer
    <2>4. applied' \in [Requests -> Nat]
      <3>1. (IF new = row THEN applied[r] ELSE applied[r] + 1) \in Nat
        BY <1>1, <1>3
      <3>2. applied' = [applied EXCEPT ![r] = IF new = row THEN applied[r]
                                                           ELSE applied[r] + 1]
        BY DEF Applies, r, row
      <3>3. QED
        BY <1>3, <3>1, <3>2
    <2>5. replays' \subseteq Entry /\ \A e, f \in replays' : e.idem = f.idem => e = f
      BY <1>8, <1>11 DEF IInv, TypeOK, Reserved
    <2>6. QED
      BY <1>3, <2>2, <2>3, <2>4, <2>5 DEF IInv, TypeOK
  <1>13. ASSUME NEW k \in Keys
         PROVE  RowIsSound(k)'
    BY <1>2, <1>4 DEF IInv, RowIsSound, Sound
  <1>14. ASSUME NEW s \in Requests
         PROVE  RequestIsSound(s)'
    <2>1. RequestIsSound(s) /\ asked[s] \in Request \union {NoRequest}
      BY DEF IInv, TypeOK
    <2>2. Asked(s) => asked[s].key \in Keys /\ asked[s].revision \in Nat
      BY <2>1 DEF Asked, Request
    <2>3. Asked(s) => asked[s].revision <= rows'[asked[s].key].revision
      BY <1>10, <2>1, <2>2 DEF RequestIsSound
    <2>4. QED
      BY <1>3, <2>1, <2>3 DEF RequestIsSound, Asked
  <1>15. ASSUME NEW g \in Handlers
         PROVE  HandlerIsSound(g)'
    <2>1. CASE g = h
      BY <1>3, <1>5, <2>1 DEF HandlerIsSound, At
    <2>2. CASE g # h
      <3> DEFINE s == handlers[g].request
      <3>1. handlers'[g] = handlers[g] /\ HandlerIsSound(g)
        BY <1>5, <2>2 DEF IInv
      <3>2. ASSUME ~At(g, "idle"), rows'[asked[s].key].revision = asked[s].revision
            PROVE  rows'[asked[s].key] = rows[asked[s].key]
        <4>1. /\ asked[s].key \in Keys /\ asked[s].revision \in Nat
              /\ asked[s].revision <= rows[asked[s].key].revision
          BY <3>2, HandlerFacts DEF RequestIsSound, Request
        <4>2. QED
          BY <1>10, <3>2, <4>1
      <3>3. QED
        BY <1>3, <3>1, <3>2 DEF HandlerIsSound, At, Asked
    <2>3. QED
      BY <2>1, <2>2
  <1>16. ASSUME new # row
         PROVE  applied[r] = 0
    <2>1. applied[r] \in Nat
      BY <1>1, <1>3
    <2>2. CASE req.op \in ApiOps
      BY <1>1, <1>2, <2>1, <2>2 DEF HistoryIsSound, row, r
    <2>3. CASE req.op \in CommandOps
      BY <1>1, <2>1, <2>3 DEF HistoryIsSound, r
    <2>4. QED
      BY <1>1, <2>2, <2>3 DEF Request
  <1>17. AppliedAtMostOnce'
    BY <1>3, <1>7, <1>16 DEF IInv, AppliedAtMostOnce
  <1>18. ASSUME NEW s \in Requests
         PROVE  HistoryIsSound(s)'
    <2>1. HistoryIsSound(s) /\ RequestIsSound(s) /\ applied[s] \in Nat
          /\ asked[s] \in Request \union {NoRequest}
      BY <1>3 DEF IInv, TypeOK
    <2>2. s # r => answers'[s] = answers[s] /\ applied'[s] = applied[s]
      BY <1>6, <1>7
    <2>3. asked[s].op \in CommandOps /\ s = r => \A g \in Handlers : ~Working(g, s)'
      BY <1>1, <1>9, <2>1 DEF HistoryIsSound
    <2>4. ASSUME applied'[s] > 0, asked[s].op \in ApiOps
          PROVE  rows'[asked[s].key].revision > asked[s].revision
      <3>1. Asked(s) /\ asked[s].key \in Keys /\ asked[s].revision \in Nat
        BY <2>1, <2>4 DEF Asked, Request, NoRequest, ApiOps
      <3>2. CASE applied[s] > 0
        BY <1>10, <2>1, <2>4, <3>1, <3>2 DEF HistoryIsSound
      <3>3. CASE applied[s] = 0
        <4>1. s = r /\ new # row
          BY <1>7, <2>4, <3>3
        <4>2. rows'[req.key] = new
          BY <1>1, <1>4
        <4>3. QED
          BY <1>1, <1>2, <2>4, <4>1, <4>2 DEF r
      <3>4. QED
        BY <2>1, <3>2, <3>3
    <2>5. QED
      BY <1>1, <1>3, <1>9, <2>1, <2>2, <2>3, <2>4 DEF HistoryIsSound
  <1>19. OneWinner'
    <2> SUFFICES ASSUME NEW s \in Requests, NEW t \in Requests, s # t,
                        applied'[s] > 0, applied'[t] > 0,
                        asked[s].key = asked[t].key,
                        asked[s].op \in ApiOps, asked[t].op \in ApiOps
                 PROVE  asked[s].revision # asked[t].revision
      BY <1>3 DEF OneWinner
    <2>1. /\ applied[s] \in Nat /\ applied[t] \in Nat
          /\ asked[s] \in Request \union {NoRequest}
          /\ asked[t] \in Request \union {NoRequest}
          /\ HistoryIsSound(s) /\ HistoryIsSound(t)
      BY <1>3 DEF IInv, TypeOK
    <2>2. asked[s].revision \in Nat /\ asked[t].revision \in Nat
      BY <2>1 DEF Request, NoRequest
    <2>3. CASE applied[s] > 0 /\ applied[t] > 0
      BY <2>3 DEF IInv, OneWinner
    <2>4. CASE applied[s] = 0
      <3>1. s = r /\ new # row /\ applied[t] > 0
        BY <1>7, <2>1, <2>4
      <3>2. row.revision > asked[t].revision /\ row.revision = asked[s].revision
        BY <1>2, <2>1, <3>1 DEF HistoryIsSound, row, r
      <3>3. QED
        BY <1>1, <2>2, <3>2
    <2>5. CASE applied[t] = 0
      <3>1. t = r /\ new # row /\ applied[s] > 0
        BY <1>7, <2>1, <2>5
      <3>2. row.revision > asked[s].revision /\ row.revision = asked[t].revision
        BY <1>2, <2>1, <3>1 DEF HistoryIsSound, row, r
      <3>3. QED
        BY <1>1, <2>2, <3>2
    <2>6. QED
      BY <2>1, <2>3, <2>4, <2>5
  <1>20. AnswersFit'
    <2> SUFFICES ASSUME NEW s \in Requests, NEW a \in answers'[s], a # Refused
                 PROVE  Fits(asked[s], a)
      BY <1>3 DEF AnswersFit, Accepted, Fits
    <2>1. CASE a \in answers[s]
      BY <2>1 DEF IInv, AnswersFit, Accepted
    <2>2. CASE a \notin answers[s]
      BY <1>2, <1>6, <2>2 DEF r
    <2>3. QED
      BY <2>1, <2>2
  <1>21. ASSUME NEW s \in Requests
         PROVE  AnswersAreSound(s)'
    <2> SUFFICES ASSUME Asked(s), OwnKey(s)
                 PROVE  AnswersAreSound(s)'
      BY <1>9 DEF AnswersAreSound
    <2>1. /\ AnswersAreSound(s) /\ RequestIsSound(s) /\ asked[s] \in Request
          /\ asked[s].key \in Keys /\ asked[s].revision \in Nat
      BY DEF IInv, TypeOK, Asked, Request
    <2>2. rows'[asked[s].key].revision = asked[s].revision =>
              rows'[asked[s].key] = rows[asked[s].key]
      BY <1>10, <2>1 DEF RequestIsSound
    <2>3. CASE s # r
      <3>1. Accepted(s)' = Accepted(s)
        BY <1>6, <2>3 DEF Accepted
      <3>2. rows'[asked[s].key].revision = asked[s].revision =>
                Answer(rows'[asked[s].key]) = Answer(rows[asked[s].key])
        BY <2>2
      <3>3. QED
        BY <1>3, <2>1, <2>2, <3>1, <3>2 DEF AnswersAreSound, Answer, Store!Archived
    <2>4. CASE s = r
      <3>1. Accepted(s)' = {answer}
        <4>1. Accepted(s)' = Accepted(s) \union {answer}
          BY <1>1, <1>2, <1>6, <2>4 DEF Accepted
        <4>2. Accepted(s) # {} => Accepted(s) = {answer}
          BY <2>4, AcceptedIsRow DEF r, answer
        <4>3. QED
          BY <4>1, <4>2
      <3>2. rows'[asked[s].key] = new
        BY <1>1, <1>4, <2>4 DEF r
      <3>3. Answer(rows[asked[s].key])' = answer
        BY <1>3, <3>2 DEF answer, Answer, Store!Archived
      <3>4. QED
        BY <2>4, <3>1, <3>3 DEF AnswersAreSound
    <2>5. QED
      BY <2>3, <2>4
  <1>22. ASSUME NEW e \in replays'
         PROVE  ReplayIsSound(e)'
    <2>1. \A s \in Requests : answers[s] \subseteq answers'[s]
      BY <1>6
    <2>2. CASE e \in replays
      <3>1. ReplayIsSound(e)
        BY <2>2 DEF IInv
      <3>2. QED
        BY <1>3, <1>9, <2>1, <3>1 DEF ReplayIsSound
    <2>3. CASE e = entry
      <3>1. \A s \in Requests : asked[s].idem = req.idem /\ OwnKey(s) => s = r
        BY <1>1 DEF OwnKey, r
      <3>2. answer \in answers'[r]
        BY <1>1, <1>6
      <3>3. QED
        BY <1>1, <1>2, <1>3, <1>9, <1>11, <2>3, <3>1, <3>2 DEF ReplayIsSound, r
    <2>4. QED
      BY <1>8, <2>2, <2>3
  <1>23. QED
    BY <1>12, <1>13, <1>14, <1>15, <1>17, <1>18, <1>19, <1>20, <1>21, <1>22 DEF IInv

\* A transaction replays, refuses or commits.
LEMMA ExecuteCases ==
    ASSUME IInv, NEW h \in Handlers, Execute(h)
    PROVE  LET r == handlers[h].request IN
           /\ At(h, "put") /\ ~At(h, "idle")
           /\ \/ /\ \E e \in replays : /\ e.change = Change(handlers[h], asked[r])
                                       /\ e.idem = asked[r].idem
                                       /\ Replies(h, e.answer)
                 /\ UNCHANGED <<rows, replays, asked, sends, applied>>
              \/ Replies(h, Refused) /\ UNCHANGED <<rows, replays, asked, sends, applied>>
              \/ \E new : Applies(h, new)
  <1>1. At(h, "put") /\ ~At(h, "idle") /\ UNCHANGED <<asked, sends>>
    BY DEF Execute, At
  <1> DEFINE r == handlers[h].request
             req == asked[r]
             change == Change(handlers[h], req)
             new == Mutated(Verb(req.op), rows[req.key], handlers[h].channel,
                            handlers[h].content)
  <1>2. CASE (\E e \in Replay(req.idem, change) : Replies(h, e.answer))
             /\ UNCHANGED <<rows, replays, applied>>
    BY <1>1, <1>2 DEF Replay
  <1>3. CASE Replies(h, Refused) /\ UNCHANGED <<rows, replays, applied>>
    BY <1>1, <1>3
  <1>4. CASE ~Reserved(req.idem)
             /\ ~Conflict(Verb(req.op), rows[req.key], handlers[h].revision)
             /\ rows' = [rows EXCEPT ![req.key] = new]
             /\ replays' = replays \union
                    {[idem |-> req.idem, change |-> change, answer |-> Answer(new)]}
             /\ applied' = [applied EXCEPT ![r] = IF new = rows[req.key] THEN @
                                                                        ELSE @ + 1]
             /\ Replies(h, Answer(new))
    <2>1. Applies(h, new)
      BY <1>1, <1>4 DEF Applies
    <2>2. QED
      BY <1>1, <2>1
  <1>5. QED
    BY <1>2, <1>3, <1>4, Zenon DEF Execute

LEMMA ExecuteKeeps ==
    ASSUME IInv, NEW h \in Handlers, Execute(h)
    PROVE  IInv'
  <1>1. ~At(h, "idle")
    BY ExecuteCases
  <1>2. ASSUME NEW e \in replays,
               e.change = Change(handlers[h], asked[handlers[h].request]),
               e.idem = asked[handlers[h].request].idem, Replies(h, e.answer),
               UNCHANGED <<rows, replays, asked, sends, applied>>
        PROVE  IInv'
    <2>1. /\ e.answer \in Answers /\ ReplayIsSound(e)
          /\ handlers[h].request \in Requests /\ Asked(handlers[h].request)
      BY <1>1, HandlerFacts DEF IInv, TypeOK, Entry
    <2>2. Fits(asked[handlers[h].request], e.answer)
      BY <1>1, <1>2, ReplayFits
    <2>3. OwnKey(handlers[h].request) => e.answer \in answers[handlers[h].request]
      BY <1>2, <2>1 DEF ReplayIsSound
    <2>4. QED
      BY <1>1, <1>2, <2>1, <2>2, <2>3, AnswerFrame
  <1>3. CASE Replies(h, Refused) /\ UNCHANGED <<rows, replays, asked, sends, applied>>
    BY <1>1, <1>3, RefusedType, AnswerFrame
  <1>4. ASSUME NEW new, Applies(h, new)
        PROVE  IInv'
    BY <1>4, ApplyKeeps
  <1>5. QED
    BY <1>2, <1>3, <1>4, ExecuteCases

-----------------------------------------------------------------------------
(* Clients, and time.                                                      *)

LEMMA SendKeeps ==
    ASSUME IInv, NEW r \in Requests, NEW h \in Handlers, Send(r, h)
    PROVE  IInv'
  <1> DEFINE req == asked[r]
             step == CASE req.op \in {"assign", "retire"} -> "get"
                       [] req.op = "edit" -> "check"
                       [] OTHER -> "put"
             handler == [request |-> r, revision |-> req.revision,
                         channel |-> req.channel, content |-> req.content,
                         step |-> step]
  <1>1. /\ Asked(r) /\ At(h, "idle") /\ req \in Request
        /\ UNCHANGED <<rows, replays, asked, answers, applied>>
        /\ RequestIsSound(r) /\ HistoryIsSound(r)
    BY DEF Send, Asked, IInv, TypeOK
  <1>2. /\ step \in {"get", "check", "put"}
        /\ step = "check" => req.op = "edit"
        /\ step = "get" => req.op \in {"assign"} \union CommandOps
        /\ step = "put" => req.op \notin {"assign"}
    BY DEF CommandOps
  <1> HIDE DEF step
  <1>3. /\ handler \in Handler /\ handler.step = step /\ handler.request = r
        /\ handler.revision = req.revision /\ handler.channel = req.channel
        /\ handler.content = req.content
    BY <1>1, <1>2 DEF Handler, Request
  <1>4. SetHandler(h, handler)
    BY DEF Send, step
  <1> HIDE DEF handler
  <1>5. \A g \in Handlers : handlers'[g] = IF g = h THEN handler ELSE handlers[g]
    BY <1>4 DEF SetHandler, IInv, TypeOK
  <1>6. /\ sends \in [Requests -> 0..MaxSends]
        /\ sends' = [sends EXCEPT ![r] = sends[r] + 1]
        /\ sends[r] < IF req.op \in CommandOps THEN 1 ELSE MaxSends
    BY DEF Send, IInv, TypeOK
  <1>7. /\ sends' \in [Requests -> 0..MaxSends]
        /\ \A s \in Requests : sends'[s] = IF s = r THEN sends[s] + 1 ELSE sends[s]
        /\ sends'[r] > 0 /\ sends'[r] # 0
        /\ req.op \in CommandOps => sends[r] = 0 /\ sends'[r] <= 1
    BY <1>6, MessageRequestsAssumption
  <1>8. TypeOK'
    BY <1>1, <1>3, <1>4, <1>7 DEF IInv, TypeOK, SetHandler
  <1>9. \A s : \A g \in Handlers : Working(g, s)' =>
            (Working(g, s) /\ g # h) \/ (g = h /\ s = r)
    BY <1>3, <1>5 DEF Working, At
  <1>10. ASSUME NEW g \in Handlers
         PROVE  HandlerIsSound(g)'
    <2>1. CASE g = h
      BY <1>1, <1>2, <1>3, <1>5, <1>7, <2>1 DEF HandlerIsSound, At, Asked
    <2>2. CASE g # h
      <3>1. HandlerIsSound(g) /\ handlers'[g] = handlers[g]
        BY <1>5, <2>2 DEF IInv
      <3>2. \A s \in Requests : sends[s] > 0 => sends'[s] > 0
        BY <1>6, <1>7, MessageRequestsAssumption
      <3>3. QED
        BY <1>1, <3>1, <3>2 DEF HandlerIsSound, At, Asked
    <2>3. QED
      BY <2>1, <2>2
  <1>11. ASSUME NEW s \in Requests
         PROVE  HistoryIsSound(s)'
    <2>1. HistoryIsSound(s) /\ (s # r => sends'[s] = sends[s])
      BY <1>7 DEF IInv
    <2>2. CASE s # r
      BY <1>1, <1>9, <2>1, <2>2 DEF HistoryIsSound, Asked
    <2>3. CASE s = r
      BY <1>1, <1>7, <1>9, <2>1, <2>3 DEF HistoryIsSound, Asked
    <2>4. QED
      BY <2>2, <2>3
  <1>12. /\ AppliedAtMostOnce' /\ OneWinner' /\ AnswersFit'
         /\ \A k \in Keys : RowIsSound(k)'
         /\ \A s \in Requests : RequestIsSound(s)' /\ AnswersAreSound(s)'
         /\ \A e \in replays' : ReplayIsSound(e)'
    BY <1>1 DEF IInv, AppliedAtMostOnce, OneWinner, AnswersFit, Accepted, RowIsSound,
                RequestIsSound, AnswersAreSound, ReplayIsSound, OwnKey, Asked
  <1>13. QED
    BY <1>8, <1>10, <1>11, <1>12 DEF IInv

LEMMA ExpireKeeps ==
    ASSUME IInv, Expire
    PROVE  IInv'
  <1>1. /\ replays' \subseteq replays
        /\ UNCHANGED <<rows, asked, sends, handlers, answers, applied>>
    BY DEF Expire
  <1>2. QED
    BY <1>1 DEF IInv, TypeOK, AppliedAtMostOnce, OneWinner, AnswersFit, Accepted,
                RowIsSound, HandlerIsSound, RequestIsSound, HistoryIsSound,
                AnswersAreSound, ReplayIsSound, OwnKey, Asked, Working, At

LEMMA AskKeeps ==
    ASSUME IInv, NEW r \in Requests, Ask(r)
    PROVE  IInv'
  <1>a. PICK op \in ApiOps \union CommandOps, k \in Keys,
             channel \in Channels \union {NoChannel},
             content \in Contents \union {NoContent},
             revision \in 0..Cardinality(Requests), idem \in IdemKeys \union {r} :
            /\ WellFormed([op |-> op, idem |-> idem, key |-> k, revision |-> revision,
                           channel |-> channel, content |-> content])
            /\ op \in CommandOps <=> idem = r
            /\ asked' = [asked EXCEPT ![r] =
                   [op |-> op, idem |-> idem, key |-> k, revision |-> revision,
                    channel |-> channel, content |-> content]]
    BY Zenon DEF Ask
  <1> DEFINE req == [op |-> op, idem |-> idem, key |-> k, revision |-> revision,
                     channel |-> channel, content |-> content]
  <1>1. WellFormed(req) /\ asked' = [asked EXCEPT ![r] = req]
    BY <1>a
  <1>2. /\ req \in [op : ApiOps \union CommandOps, idem : IdemKeys \union {r}, key : Keys,
                    revision : 0..Cardinality(Requests),
                    channel : Channels \union {NoChannel},
                    content : Contents \union {NoContent}]
        /\ req.idem = r <=> req.op \in CommandOps
    BY <1>a
  <1> HIDE DEF req
  <1>3. /\ ~Asked(r) /\ UNCHANGED <<rows, replays, sends, handlers, answers, applied>>
        /\ asked[r] = NoRequest /\ HistoryIsSound(r)
    BY DEF Ask, Asked, IInv
  <1>4. /\ asked \in [Requests -> Request \union {NoRequest}]
        /\ \A s \in Requests : asked'[s] = IF s = r THEN req ELSE asked[s]
    BY <1>1 DEF IInv, TypeOK
  <1>5. rows[req.key].revision \in Nat
    BY <1>2, RowType
  <1>6. req.revision \in Nat /\ req.revision <= rows[req.key].revision
    BY <1>1, <1>2, <1>5 DEF WellFormed, Seen, ApiOps
  <1>7. req \in Request /\ req # NoRequest
    BY <1>2, <1>6 DEF Request, NoRequest, ApiOps, CommandOps
  <1>8. /\ sends[r] = 0 /\ applied[r] = 0 /\ answers[r] = {}
        /\ \A h \in Handlers : ~Working(h, r)
    BY <1>3 DEF HistoryIsSound
  <1>9. \A s : s \in Requests => (Asked(s)' <=> Asked(s) \/ s = r)
    BY <1>4, <1>7 DEF Asked
  <1>10. \A s \in Requests : s # r /\ Asked(s) /\ OwnKey(s)' => OwnKey(s)
    <2> SUFFICES ASSUME NEW s \in Requests, s # r, Asked(s), OwnKey(s)'
                 PROVE  OwnKey(s)
      OBVIOUS
    <2>1. asked[s].idem \in IdemKeys \union Requests
      BY <1>4 DEF Asked, Request
    <2>2. asked[s].idem # asked[r].idem
      BY <1>3, <2>1, MessageRequestsAssumption DEF NoRequest
    <2>3. QED
      BY <1>4, <2>2 DEF OwnKey
  <1>11. TypeOK'
    <2>1. asked' \in [Requests -> Request \union {NoRequest}]
      BY <1>1, <1>4, <1>7
    <2>2. QED
      BY <1>3, <2>1 DEF IInv, TypeOK
  <1>12. ASSUME NEW s \in Requests
         PROVE  RequestIsSound(s)'
    <2>1. CASE s = r
      <3>1. /\ req.op \in {"create"} \union CommandOps => req.revision = 0
            /\ req.op \in {"archive", "retire"} => req.channel = NoChannel
            /\ req.op \in {"replace", "assign", "create"} => req.channel # NoChannel
            /\ req.op \in {"create", "replace", "edit"} <=> req.content # NoContent
        BY <1>1 DEF WellFormed, CommandOps
      <3>2. asked'[s] = req
        BY <1>4, <2>1
      <3>3. QED
        BY <1>2, <1>3, <1>6, <2>1, <3>1, <3>2 DEF RequestIsSound
    <2>2. CASE s # r
      <3>1. RequestIsSound(s) /\ asked'[s] = asked[s]
        BY <1>4, <2>2 DEF IInv
      <3>2. QED
        BY <1>3, <3>1 DEF RequestIsSound, Asked
    <2>3. QED
      BY <2>1, <2>2
  <1>13. ASSUME NEW h \in Handlers
         PROVE  HandlerIsSound(h)'
    <2>1. HandlerIsSound(h) /\ (~At(h, "idle") => handlers[h].request # r)
      BY <1>8 DEF IInv, Working
    <2>2. QED
      BY <1>3, <1>4, <2>1 DEF HandlerIsSound, At, Asked
  <1>14. ASSUME NEW s \in Requests
         PROVE  HistoryIsSound(s)'
    <2>1. CASE s = r
      BY <1>3, <1>8, <2>1 DEF HistoryIsSound, Working, At
    <2>2. CASE s # r
      <3>1. HistoryIsSound(s) /\ asked'[s] = asked[s]
        BY <1>4, <2>2 DEF IInv
      <3>2. QED
        BY <1>3, <3>1 DEF HistoryIsSound, Working, At, Asked
    <2>3. QED
      BY <2>1, <2>2
  <1>15. AppliedAtMostOnce' /\ OneWinner' /\ AnswersFit' /\ \A y \in Keys : RowIsSound(y)'
    <2>1. AppliedAtMostOnce' /\ \A y \in Keys : RowIsSound(y)'
      BY <1>3 DEF IInv, AppliedAtMostOnce, RowIsSound
    <2>2. OneWinner'
      BY <1>3, <1>4, <1>8 DEF IInv, OneWinner
    <2>3. ASSUME NEW s \in Requests, NEW a \in answers[s], a # Refused
          PROVE  Fits(asked'[s], a)
      BY <1>4, <1>8, <2>3 DEF IInv, AnswersFit, Accepted
    <2>4. AnswersFit'
      BY <1>3, <2>3 DEF AnswersFit, Accepted, Fits
    <2>5. QED
      BY <2>1, <2>2, <2>4
  <1>16. ASSUME NEW s \in Requests
         PROVE  AnswersAreSound(s)'
    <2>1. CASE s = r
      BY <1>3, <1>8, <2>1 DEF AnswersAreSound, Accepted
    <2>2. CASE s # r
      <3>1. AnswersAreSound(s) /\ asked'[s] = asked[s] /\ Accepted(s)' = Accepted(s)
        BY <1>3, <1>4, <2>2 DEF IInv, Accepted
      <3>2. QED
        BY <1>3, <1>9, <1>10, <2>2, <3>1 DEF AnswersAreSound, Answer, Store!Archived
    <2>3. QED
      BY <2>1, <2>2
  <1>17. ASSUME NEW e \in replays'
         PROVE  ReplayIsSound(e)'
    <2>1. ReplayIsSound(e)
      BY <1>3 DEF IInv
    <2>2. PICK t \in Requests : Asked(t) /\ asked[t].idem = e.idem
      BY <2>1 DEF ReplayIsSound
    <2>3. t # r /\ asked'[t] = asked[t]
      BY <1>3, <1>4, <2>2
    <2>4. asked'[r].idem = e.idem => ~OwnKey(r)'
      BY <2>2, <2>3 DEF OwnKey
    <2>5. QED
      BY <1>3, <1>4, <1>9, <1>10, <2>1, <2>2, <2>3, <2>4 DEF ReplayIsSound
  <1>18. QED
    BY <1>11, <1>12, <1>13, <1>14, <1>15, <1>16, <1>17 DEF IInv

-----------------------------------------------------------------------------
(* The theorems.                                                           *)

LEMMA InitSound == Init => IInv
  <1> SUFFICES ASSUME Init
               PROVE  IInv
    OBVIOUS
  <1>1. /\ \A k \in Keys : rows[k] = Store!AbsentRow
        /\ \A r \in Requests : /\ asked[r] = NoRequest /\ sends[r] = 0
                               /\ answers[r] = {} /\ applied[r] = 0
        /\ \A h \in Handlers : handlers[h] = IdleHandler
        /\ replays = {}
    BY DEF Init
  <1>2. Store!AbsentRow \in Store!Row /\ IdleHandler \in Handler
    BY DEF Store!AbsentRow, Store!Row, Store!Hashes, IdleHandler, Handler
  <1>3. TypeOK
    BY <1>1, <1>2, MessageRequestsAssumption DEF Init, TypeOK
  <1>4. \A r \in Requests : ~Asked(r) /\ asked[r].op = "none"
    BY <1>1 DEF Asked, NoRequest
  <1>5. \A h \in Handlers : At(h, "idle")
    BY <1>1 DEF At, IdleHandler
  <1>6. \A k \in Keys : RowIsSound(k)
    <2>1. Store!AbsentRow.state = "absent" /\ Store!AbsentRow.revision = 0
      BY DEF Store!AbsentRow
    <2>2. QED
      BY <1>1, <2>1 DEF RowIsSound
  <1>7. \A r \in Requests : RequestIsSound(r) /\ HistoryIsSound(r) /\ AnswersAreSound(r)
    <2> SUFFICES ASSUME NEW r \in Requests
                 PROVE  RequestIsSound(r) /\ HistoryIsSound(r) /\ AnswersAreSound(r)
      OBVIOUS
    <2>1. RequestIsSound(r) /\ AnswersAreSound(r)
      BY <1>4 DEF RequestIsSound, AnswersAreSound
    <2>2. HistoryIsSound(r)
      <3>1. \A h \in Handlers : ~Working(h, r)
        BY <1>5 DEF Working
      <3>2. applied[r] = 0 /\ sends[r] = 0 /\ answers[r] = {}
            /\ asked[r].op \notin CommandOps
        BY <1>1, <1>4 DEF CommandOps
      <3>3. QED
        BY <3>1, <3>2 DEF HistoryIsSound
    <2>3. QED
      BY <2>1, <2>2
  <1>8. AppliedAtMostOnce /\ OneWinner /\ AnswersFit
    BY <1>1 DEF AppliedAtMostOnce, OneWinner, AnswersFit, Accepted
  <1>9. QED
    BY <1>1, <1>3, <1>5, <1>6, <1>7, <1>8 DEF IInv, HandlerIsSound

LEMMA StepKeepsInvariant == IInv /\ [Next]_vars => IInv'
  <1> SUFFICES ASSUME IInv, [Next]_vars
               PROVE  IInv'
    OBVIOUS
  <1>1. CASE UNCHANGED vars
    BY <1>1 DEF vars, IInv, TypeOK, AppliedAtMostOnce, OneWinner, AnswersFit, Accepted,
                RowIsSound, HandlerIsSound, RequestIsSound, HistoryIsSound,
                AnswersAreSound, ReplayIsSound, OwnKey, Asked, Working, At
  <1>2. QED
    BY <1>1, AskKeeps, SendKeeps, CheckEditKeeps, GetMessageKeeps, ExecuteKeeps,
       AbandonKeeps, ExpireKeeps DEF Next

\* Rows, requests, copies under way, stored answers and histories stay sound.
THEOREM Invariance == Spec => []IInv
  BY InitSound, StepKeepsInvariant, PTL DEF Spec

\* A request sent any number of times, together, after a lost answer or after
\* its key has expired, changes its row at most once.
THEOREM AppliedOnce == Spec => []AppliedAtMostOnce
  <1>1. IInv => AppliedAtMostOnce
    BY DEF IInv
  <1>2. QED
    BY <1>1, Invariance, PTL

\* Two API requests that started from one revision never both change the row.
THEOREM OneRequestWins == Spec => []OneWinner
  <1>1. IInv => OneWinner
    BY DEF IInv
  <1>2. QED
    BY <1>1, Invariance, PTL

\* No request is answered with the result of another one that used its key.
THEOREM AnswersAlwaysFit == Spec => []AnswersFit
  <1>1. IInv => AnswersFit
    BY DEF IInv
  <1>2. QED
    BY <1>1, Invariance, PTL

\* All accepted copies of a request with a key of its own are answered alike.
THEOREM AnswersAlwaysAgree == Spec => []AnswersAgree
  <1>1. IInv => AnswersAgree
    <2> SUFFICES ASSUME IInv, NEW r \in Requests, Asked(r), OwnKey(r)
                 PROVE  Cardinality(Accepted(r)) <= 1
      BY DEF AnswersAgree
    <2>1. \A a, b \in Accepted(r) : a = b
      BY DEF IInv, AnswersAreSound
    <2>2. CASE Accepted(r) = {}
      BY <2>2, FS_EmptySet
    <2>3. CASE Accepted(r) # {}
      <3>1. PICK a : Accepted(r) = {a}
        BY <2>1, <2>3
      <3>2. Cardinality({a}) = 1
        BY FS_Singleton
      <3>3. QED
        BY <3>1, <3>2
    <2>4. QED
      BY <2>2, <2>3
  <1>2. QED
    BY <1>1, Invariance, PTL

\* An assignment that commits leaves the content of its message alone, though
\* it took the content from a read outside its transaction.
THEOREM AssignmentsKeepContent == Spec => AssignmentKeepsContent
  <1>1. ASSUME IInv, [Next]_vars, NEW r \in Requests,
               applied'[r] # applied[r] /\ asked[r].op = "assign"
        PROVE  rows'[asked[r].key].content = rows[asked[r].key].content
    <2>1. PICK h \in Handlers : Execute(h)
      BY <1>1 DEF Next, vars, Ask, Send, CheckEdit, GetMessage, Abandon, Expire
    <2>2. PICK new : Applies(h, new)
      BY <1>1, <2>1, ExecuteCases
    <2> DEFINE s == handlers[h].request
               req == asked[s]
    <2>3. /\ At(h, "put") /\ ~At(h, "idle") /\ s \in Requests /\ req \in Request
          /\ req.key \in Keys /\ HandlerIsSound(h)
      BY <1>1, <2>2, HandlerFacts DEF Applies, At
    <2>4. s = r
      <3>1. applied \in [Requests -> Nat]
        BY <1>1 DEF IInv, TypeOK
      <3>2. applied' = [applied EXCEPT ![s] = IF new = rows[req.key] THEN applied[s]
                                                                    ELSE applied[s] + 1]
        BY <2>2 DEF Applies
      <3>3. QED
        BY <1>1, <3>1, <3>2
    <2>5. rows[req.key].revision = req.revision /\ Answer(new).content = handlers[h].content
      BY <1>1, <2>2, <2>3, <2>4, AppliesFacts, VerbType DEF ApiOps
    <2>6. handlers[h].content = rows[req.key].content
      BY <1>1, <2>3, <2>4, <2>5 DEF HandlerIsSound, At
    <2>7. rows'[req.key] = new
      BY <1>1, <2>2, <2>3 DEF Applies, IInv, TypeOK
    <2>8. Answer(new).content = new.content
      BY DEF Answer
    <2>9. QED
      BY <2>4, <2>5, <2>6, <2>7, <2>8
  <1>2. IInv /\ [Next]_vars =>
            [\A r \in Requests :
                /\ applied'[r] # applied[r]
                /\ asked[r].op = "assign"
                => rows'[asked[r].key].content = rows[asked[r].key].content]_vars
    BY <1>1, Zenon
  <1>3. QED
    BY <1>2, Invariance, PTL DEF Spec, AssignmentKeepsContent
=============================================================================
