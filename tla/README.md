# corps-manager in TLA+

A verification development of corps-manager, a Discord bot in Go. The bot keeps
*managed messages*: rows of desired state in PostgreSQL, which a reconciler
makes true in Discord. Everything else it does is built on them: the listings
of business agreements, the warning of an anti-bot trap, and the button on a
verification message. The modules here model that core with its callers, TLC
checks it on small instances, and TLAPS proves its safety properties for every
instance. Source paths are relative to the repository.

## 1. Inventory

| Component | State | Operations | Who it interacts with |
| --- | --- | --- | --- |
| Message store (`internal/messages/postgres`) | `managed_messages`, `message_idempotency` | Create, Replace, Archive, MarkDue, ClaimDue, Complete, Release | service, reconciler |
| Message service (`internal/messages/module.go`) | none | the mutations, validated and hashed for idempotency; a wake-up after each | HTTP API, `/mensaje`, agreements, security |
| Payloads (`internal/messages/validation.go`, `model.go`, `classic`) | none | validation, normal form, conversion of classic messages | service, `/mensaje`, security |
| Reconciler (`internal/messages/reconciler.go`) | a run lock, a wake-up signal, a batch of copied rows on a few workers; leases in the store | ReconcileDue, by the job every minute and on a wake-up | store, Discord |
| Discord gateway (`platform/discord/messages.go`) | none; Discord holds the messages | Get, Create with a nonce, Replace, Delete | reconciler |
| HTTP API (`platform/httpapi`) | none | create, replace, assign, archive, reconcile, companies | services |
| Command `/mensaje` (`platform/messagesdiscord`) | confirmations waited for, in memory | create, edit, show, archive, preview | service |
| Agreements (`internal/agreements`, `platform/agreementdiscord`) | companies and agreements in the database, the effective configuration in memory | changes of both, Configure, Reload, Publish, a refresh job every six hours | store, settings, service |
| Security (`internal/security`, `platform/securitydiscord`) | the armed channel in memory; settings | Configure, Refresh (a job every minute, and commands), Verify, HandleMessage | settings, service, Discord |
| Runtime settings (`internal/settings`) | `bot_settings` | List, SetMany | agreements, security |
| Scheduler and life cycle (`internal/cronjob`, `platform/bootstrap`) | goroutines, one context, stop hooks | start, run jobs, fail, stop | all of the above |

The remaining parts (configuration, logging, the command router, HTTP plumbing,
migrations, retired modules) keep no state that changes over time;
`PROJECT.json` lists them with the reason they are left out.

What is hard about it, and what makes each part correct:

* **Reconciliation.** A job copies a row, talks to Discord for seconds, and
  writes its verdict back, while clients replace, move and archive the row,
  leases run out, a second process may claim it, answers get lost, moderators
  delete messages, and the process dies. Correct: no verdict of an older
  revision lands on a newer one; a row never names a message of another row or
  channel; an archived row is final; no copies are left behind and the cleanup
  never hits the stored message; once the disturbances stop, Discord shows the row.
* **Requests.** Clients retry, concurrently and after their key has expired, on
  stale reads. Correct: a request takes effect once, nobody overwrites what
  they have not seen, all copies get the same answer, and it fits the question.
* **Payloads.** A body may be classic or made of components, is normalised, gets
  a button, is exported, edited and sent back, and comes back from Discord with
  additions. Correct: nothing its author wrote is lost or doubled; there is one
  button; the job that puts it there does not answer its own work for ever.
* **Confirmations** wait in memory, within a limit and for a time. Correct: each
  is taken once or not at all, and what has expired takes nobody's room.
* **Agreements.** Publish is a long sequence of reads and transactions that
  others overtake and failures cut short. Correct: listings follow the tables,
  the configuration follows the settings, deleted companies lose their message.
* **Security.** Refresh repairs channels by listings that age while it runs, and
  arms a trap that bans; presses are judged by two reads and acted on after
  both; the warning is a message like others, which clients may edit, move and
  archive at any time. Correct: nobody is banned outside the assigned channel,
  but for a move no Refresh has followed yet, or once the trap is known to be
  disabled; the assigned channel a Refresh has read is never deleted, users' text
  is never undone, old messages verify nobody, and both controls come to stand.
* **Life cycle.** Workers report errors on a channel, callers share a lock, a
  context ends everything, but nothing waits for handlers of events. Correct: no
  goroutine waits for ever, the pool is closed after all jobs and under no call,
  lost wake-ups leave no row behind.

`PROJECT.json` lists the hazards one by one, at the line where each bites, with
the properties aimed at it.

## 2. Modules

```
MessageRows                       one row, and every statement on it
 ├─ ManagedMessages               EXTENDS it: reconcilers, clients, Discord, faults
 │   └─ ManagedMessagesProps      properties, inductive invariant, refinement mapping
 │       ├─ MCManagedMessages       for TLC (symmetry)
 │       └─ ManagedMessagesProofs   for TLAPS
 ├─ MessageRequests               INSTANCE: API, command, idempotent transactions
 │   ├─ MCMessageRequests           for TLC
 │   └─ MessageRequestsProofs       for TLAPS
 ├─ Agreements                    INSTANCE: agreements and their publication
 │   └─ AgreementsProofs            for TLAPS
 └─ Security                      INSTANCE: trap and verification
     └─ SecurityHandlers          EXTENDS it: presses and messages
         └─ SecurityProofs          for TLAPS: both
MessageContract                   abstract: what managed messages promise
Payloads                          bodies, as functions
 └─ MessageCommands               EXTENDS it: /mensaje, the button, confirmations
     ├─ MCMessageCommands           for TLC: the bodies
     └─ PayloadsProofs              for TLAPS: the functions of Payloads
         └─ MessageCommandsProofs   for TLAPS: the steps
SequenceFacts                     for TLAPS: concatenations, maps, induction
LifeCycle                         one process from start to exit
 └─ LifeCycleProofs                 for TLAPS
```

**MessageRows** is the store: each operator maps a row to the row an SQL
statement leaves (`ReplacedRow`, `ArchivedRow`, `CompletedRow`, ...), its guard
is the WHERE clause (`Claimable`, `Held`, `Markable`). Times are the two
comparisons the statements make: `due` and `lease`. A row's guild and channel
are one value, its payload and hash another.

**ManagedMessages** has a row per key, a job per process and key, and Discord's
messages by id. `ClaimDue` is `ReconcileDue` up to the goroutines; then each
call of `reconcile` and `ensure` is an action (`StartJob`, `FetchRemote`,
`CreateRemote`, `ReplaceRemote`, `Complete`, `ReleaseRow`,
`CleanupStaleCreate`), each with a failing twin. Clients' mutations, the passing
of time, crashes and moderators interleave with all of them. `Faults` picks the
kinds of faults of a run.

**MessageContract** is what a client may count on: a key has a definition with a
revision, an id attached to it only while that message is its own and stands in
the definition's channel, and a report "verified" that every change of the
definition takes back. It knows no workers, leases, retries or states of repair.
`Contract` in ManagedMessagesProps is the refinement mapping.

**MessageRequests** follows requests: a client decides (`Ask`), copies are sent
(`Send`), a handler reads what the code reads before its transaction
(`CheckEdit`, `GetMessage`), and `Execute` is that transaction, which first
reserves the idempotency key. `Abandon` is a failure before the commit, `Expire`
the end of a key's 24 hours, at any time. `applied` and `answers` are history.

**Payloads** has bodies as trees at most three deep and the functions on them:
`Valid` (validation.go), `Normal` (the normal form behind the hash), `Convert`
and `ConversionFails` (classic), `WithVerificationButton` (verification.go),
and `Preview`. Fields that may be written or not without a difference to a reader
(`Optional`: numbers, false flags, what Discord knows of a picture, a separator's
defaults) are a component's `extra`. `Observed` is what an audit reads back of a
message nobody has changed: each component, at every depth, is read into
discordgo's structs and written again on its way out (`Reread`: flags are always
written, a text has no number, a picture is its URL), completed by Discord
(`Answered`), and read and written once more. `NormalPart` takes away what
normalizeComponentValue does and no more: a separator's defaults stay, and a
gallery's metadata would. Texts are
sequences of paragraphs of one length, so that joining and counting are real and
characters are not. `Components` is the set of all trees over `Strings`, of any
width; `ComponentBodies` and `ClassicBodies` are what a user can send.

**MessageCommands** puts them into steps: bodies are created and edited, the
security job puts its button on what is stored, exports are sent back late, and
an archive waits for its confirmation. `AskArchive`, `Confirm`, `Cancel`,
`ItemExpires`, `PressExpired` and `Restart` are the pending store (`put`, `take`,
`discard` of pending.go); `fates` and `full` are history. A handler is one step
here, as MessageRequests has the interleavings.

**Agreements** has callers that run Publish, Reload, Configure and the changes
of companies and agreements statement by statement (`callers[p].step` names the
next call). A listing is the agreements it shows and their number. Enabled is
read together with the statement of an agreement's change, although the code
reads it twice around it; the second read is the one of Publish. The environment's
flag and control channel are independent constants, as LoadConfig reads them.

**Security** runs one Refresh (TryLock) call by call: EnsureTrap's listing,
creation, edit and deletions, publish, arming, Reconcile, PruneWarnings (the
check of the canonical warning, the listing, and one `DeleteWarning` for each
message), then the verification message. Rows, posts and reconciler's jobs are
kept for both messages, `Trap` and `Verification`: the settings reserve the
warning's key, but the API and `/mensaje` take any, so that `EditMessage`,
`AssignMessage` and `ArchiveMessage` work on both. Of the reconciler it has for
each a worker that claims a row, posts the message and stores its id, each in a
step of its own (`WorkerClaims`, `WorkerCreates`, `WorkerStores`), as
ManagedMessages does in full. `moved` is history: "yes" from a client's move of
the warning until a Refresh reads the row, "read" until one that has read it arms
the trap. The verification's role and message key are bound like its channel and
are left out, and so is the validation of Configure: any settings can be stored,
because two valid configurations at once can add up to any.

**SecurityHandlers** adds the readers: a press of the button (`VerifySettings`,
`VerifyRecord`, `GrantRole`) and a message in the trap (`KnowBot`,
`HandleMessage`, `Ban`), one call a step, between any steps of Security. Presses
are of any verification message that still stands in Discord, however old, and of
copies. `press.stale`, `press.configured`, `event.during` and `quiet` are history.

**LifeCycle** has the adapters that errgroup runs side by side, the scheduler's
goroutines, the wake-up signal, the run lock and the batch: rows are handed to
workers over a channel without room, errors collected on one that has some
(`RoomForErrors`). `due` is ordered as the claim's ORDER BY is: a mutation takes
its row to the back. A handler of a Discord event and one of a request call the
database now and then; "calling" is holding a connection, "between" is everything
else. Nothing waits for them but the server for its own, for five seconds: `Serve`
then ends with an error and the handler goes on. `StopRuntime`, `RuntimeStopped`,
`HooksDone` and `ClosePool` are main's stop hooks, `StopTimesOut` their deadline.
pgxpool's Close waits for connections that are acquired (`Returned`), so that the
pool closes under a handler between two calls, which gets no connection any more
(`MayCall`). What a worker does to its row is ManagedMessages' subject; here it
ends, well or with an error.

## 3. Runs

| Run | Question | Instance |
| --- | --- | --- |
| `mm_two_owners` | Is every verdict fenced by owner and revision, and the contract kept? | 2 processes, 1 row, 2 channels, 2 contents, 3 messages, 2 revisions, a lost answer |
| `mm_recovery` | Does the row come right after any two faults, of seven kinds? Without one, are there copies? | 1 process, 1 row, 2 channels, 2 contents, 4 messages, 2 revisions; fairness |
| `req_idempotency` | Are requests applied once and answered rightly? | 3 requests in 2 copies each, 2 at a time, 2 keys, 2 channels, 2 contents |
| `cmd_editing` | Does what users write survive; does the job settle; is Discord's answer recognised; has a confirmation one fate? | 26 bodies, texts of 2 paragraphs, 8 components, 4 revisions, 2 users, 2 archives, 1 waiting at once |
| `agr_converge` | Do configuration, listings, panel and old list come right? | a client, the job, 4 changes, 1 failure or restart, enabled by the environment without a channel, an old list; fairness |
| `sec_refresh` | Is the trap only ever the assigned channel; do both controls converge? | 1 channel at the start, 4 ever, 6 warnings, 2 texts, 2 operations of clients, failures or deeds of moderators, any settings at the start; fairness |
| `sec_handlers` | Whom can an old message still verify, and a disabled trap still ban? | 1 channel at the start, 2 ever, 2 verification messages, 2 operations, failures or deeds of moderators |
| `life_cycle` | Does the process end, the pool last; is every due row claimed? | 2 rows, batches of 1, 1 worker, 2 handlers, 1 failure; fairness |

| Run | Properties |
| --- | --- |
| `mm_two_owners` | `IInv`, `HealthyIsVerified`, `RowOwnsItsMessage`, `ImplementsContract` |
| `mm_recovery` | `CleanupSparesStored`, `OrphansNeedFaults`, `Converges`, `RepairEnds` |
| `req_idempotency` | `IInv`, `AppliedAtMostOnce`, `OneWinner`, `AnswersAgree`, `AnswersFit`, `AssignmentKeepsContent` |
| `cmd_editing` | `IInv`, `ContentSurvives`, `ButtonIsUnique`, `RoomIsEnough`, `EchoIsRecognised`, `PreviewIsInert`, `RefusedOnlyWhenFull`, `RefreshSettles`, `FateIsFinal` |
| `agr_converge` | `IInv`, `ConfigConverges`, `PanelsConverge` |
| `sec_refresh` | `ArmedIsAssigned`, `CanonicalIsKept`, `UserTextIsKept`, `TrapConverges`, `VerificationConverges` |
| `sec_handlers` | `HandlersInv`, `StaleNeverVerifies`, `GrantsAreConfigured`, `DisabledBansNobody` |
| `life_cycle` | `IInv`, `PoolClosesLast`, `StopsInTheEnd`, `DueIsClaimed` |

The bounds let the interesting cases happen:

* Two revisions are an older job and a newer definition, and the code compares
  revisions for equality only. A third message is the second copy that must not
  stay; `mm_recovery` has a fourth because each of its two faults can cost one.
* Two handlers and two copies are a race of a request with itself, a third
  request the competitor.
* The 26 bodies have the button in every place the code looks for it and not at
  all, optional fields at every depth, separators bare and written out, classic
  messages with and without texts beside their pictures, and one body
  for each refusal of the validation (`MCMessageCommands`). Four revisions are a body, the button, an edit by a stale
  export and the button again. With 8 components and 2 paragraphs bodies lie on
  both sides of every limit. One confirmation waiting at once makes the second
  find the store full, expired or emptied.
* Four changes are a company, an agreement, and two configurations that race, one
  of which binds the channel that the environment does not.
* In `sec_refresh` two events are any two of a client's move, edit or archive of
  either message, a configuration, a failed call, a restart, and a channel or
  message that a moderator adds, renames or deletes, each at any step of a Refresh;
  channels and posts are enough for every deletion to be made good, the posts
  twice, since a pruning can follow each. The verification message is not
  posted there (`MaxBoards = 0`): Refresh reads its row alone.
* In `sec_handlers` two messages are the old one and its successor; two
  operations move it there and back, or disable a trap and enable it again
  behind a Refresh. No warning is posted (`MaxWarnings = 0`), since nothing a
  handler reads depends on one.
* With two rows and batches of one a claim leaves a row behind, which other rows
  may overtake only by having been due for longer; one job fails while a row falls
  due behind it, and an expired lease puts one in front, once.

Actions beyond a bound are simply disabled; no liveness property depends on one,
as the operations bounded this way are those of clients, moderators and faults
(posts and messages are counted high enough). No run checks for deadlock: with
its budget spent and nothing due a system rests, and a process that has ended
stays so; that nothing is stuck before is what the liveness properties say.
Symmetry (of processes, keys, channels, contents, requests) is used in the runs
without liveness properties only.

Four runs find the code at odds with a document or a comment. `findings` in
`PROJECT.json` quotes both sides.

| Run | What it shows |
| --- | --- |
| `mm_blocked_retry` | A blocked row is never retried, though it is given a next check and the comment names a "delayed retry". |
| `agr_delete_disabled` | A company deleted while agreements are disabled keeps its message for good. |
| `agr_stale_listing` | Two publications at once can leave the older listing in place, until the refresh job. |
| `req_assign_retry` | The retry of an accepted assignment is refused when the content has changed meanwhile. |

More observations have no run, as nothing in the repository promises otherwise;
the properties name what they leave out for them:

* `CleanupSparesStored` fails with two processes: both create under one nonce,
  get the same message, and the one that conflicts deletes what the other has
  stored. README.md:76 asks for a single active instance, and the next check
  posts the message again.
* A message made in place of one a moderator has deleted is left behind when the
  definition changes meanwhile, since the claimed row still had an id
  (reconciler.go:187). `OrphansNeedFaults` is about runs without faults, and of
  rows that changed once: a row that moves away and back makes a new message.
* A company created under the id of a deleted one has an archived row for good,
  and every definition after it in Publish waits. README.md says the id cannot
  be used again; `PanelsConverge` leaves such ids out (`Reused`).
* An assignment and a replacement of one message share the operation name of
  their idempotency key: a client that uses one key for both may, after its
  expiry, see the two answered alike. `AnswersAgree` is for requests with a key
  of their own.
* A section whose accessory is the verification button and that holds more than
  one text's worth of paragraphs cannot get its button: its texts are joined,
  and the join is refused (verification.go:95). `RoomIsEnough` leaves it out
  (`Overflows`).
* Moving the warning, which nothing refuses, has two effects that no document
  speaks of beyond "conserva el canal canónico mediante su asignación persistida"
  (README.md:70). The channel it is moved to becomes the trap at the next Refresh,
  renamed and armed, and stays the trap until the warning is moved on; and a Refresh
  under way, which has read the old assignment, deletes that channel if it is called
  like the trap. `ArmedIsAssigned` and `CanonicalIsKept` say between which steps
  (`moved`). If both messages are assigned to one channel, each pruning removes the
  verification message and the reconciler posts it again; `TrapConverges` asks
  nothing of the messages there then.
* A separator stored without divider and spacing is answered with both, and neither
  Normalize nor Hash makes the two alike (model.go:116-182), so that every check
  edits the message again. `EchoIsRecognised` leaves such bodies out
  (`HasBareSeparator`).
* A handler that is between two calls when the process stops is cut off: the hooks
  cancel Discord's handlers and wait for none (securitydiscord/module.go:24-29).
* A command's description promises a preview ("con vista previa",
  messagesdiscord/command.go:56-57) where README.md:92 and the code apply an
  edit at once; only an archive asks first.

## 4. Fairness

* Jobs: the scheduler runs a registered job on every tick of its interval
  (`internal/cronjob/scheduler.go`), so the claim, the refresh job and Security's
  `StartRefresh` are weakly fair.
* Calls: every call carries a context with a deadline or returns on its own, so
  the steps of a job, a caller and a Refresh are weakly fair. A failing twin of
  a step is never fair.
* Clocks: a next check comes, and a lease runs out, eventually.
* In Security the reconciler's worker is weakly fair, which is what
  ManagedMessages says of it.
* In LifeCycle goroutines that can go on do (weak fairness of the batch, of each
  row's worker, of handlers, jobs and of what happens once at the end), and the
  ticker ticks. A `select` whose two cases are ready takes each some time: the
  end of the context gets its turn against the next tick or wake-up, which is
  strong fairness of `JobEnds` and `LoopEnds`. Nothing makes main stop: the
  property is about a stop that has begun, or an adapter that has failed.
* SecurityHandlers and MessageCommands state safety only and assume no fairness.
* Nothing is assumed of clients, moderators, faults, or of how long Discord
  remembers a nonce.

Most liveness properties say `<>[]`: the budgets of changes and faults make
"once they stop" a matter of course in every behaviour.

## 5. Proofs

All theorems hold for any value of the constants that satisfies the named
assumptions of the modules (`...Assumption`: bounds are naturals, reserved values
are not among the others); nothing else is assumed. Each proof of an invariant has
one case per action, most under a lemma of its own, and each temporal theorem ends
in one PTL step.

| Module | Theorems |
| --- | --- |
| `ManagedMessagesProofs` | `TypeCorrect`, `Invariance`, `HealthyVerified`, `RowOwnership`, `ArchivedFinal`, `RevisionsTrackDefinitions`, `CleanupSpares`, `NoOrphans`, `ContractImplemented` |
| `MessageRequestsProofs` | `Invariance`, `AppliedOnce`, `OneRequestWins`, `AnswersAlwaysFit`, `AnswersAlwaysAgree`, `AssignmentsKeepContent` |
| `SecurityProofs` | `Invariance`, `ArmedAssigned`, `CanonicalKept`, `UserTextKept`, `HandlersInvariance`, `NoStaleGrant`, `GrantsConfigured`, `DisabledIsQuiet` |
| `AgreementsProofs` | `Invariance`, `TypeCorrect`, `RowsRendered`, `ReplaysApplied` |
| `MessageCommandsProofs` | `Invariance`, `ContentKept`, `ButtonUnique`, `RoomEnough`, `EchoRecognised`, `PreviewInert`, `JobSettles`, `RefusedRightly`, `FateFinal` |
| `PayloadsProofs`, `SequenceFacts` | the lemmas these rest on |
| `LifeCycleProofs` | `Invariance`, `PoolIsLast` |

**Managed messages.** Neither `HealthyIsVerified` nor `RowOwnsItsMessage` is
inductive: a row could be completed by a job holding anything. `IInv` adds what
jobs know. `CopyIsPast`: a job's revision is one the row has had, and while it is
still the row's, the job's copy is the row's definition; this is where the fence
of Complete and Release turns "same owner, same revision" into "same content, same
channel". `JobIsSound`: the ids a job carries were created for its row in its
channel, and the steps that use an id have one. `RowIsSound`: an archived or absent
row has no owner, so that no job's statement matches it. `IdsAreFresh`: ids are used
in order, so that a new message belongs to nobody yet. The argument is one lemma per
group of actions: what clients do to a row (`RowFrame`), what a step does to one job
(`JobFrame`), and what Discord does to a message (`BelongsKept`, `CreatesKeeps`,
`EditsKeeps`); `StepKeepsInvariant` collects them.

`CleanupSpares` assumes one process (`Owners = {p}`). `StoresFirst` is what it adds
to `IInv`: with one process the only job that stores an id in a row is the row's
own, so a row that had no id when its job claimed it has none while the job runs,
and only such a job comes to the cleanup.

`NoOrphans` assumes one process, too. That a message is stored or in somebody's
hand is not inductive, since Discord answers a nonce it has seen with the message it
made then. `SingleInv` adds to `IInv` and `StoresFirst`: a message's nonce is of a
revision its row has had, and while that is the row's own the message stands in the
row's channel (`NonceIsPast`); and while no fault has happened, the messages that a
row and its job know of are there, so that a job that was claimed with an id creates
nothing (`NothingIsLost`), and a message in its row's channel is stored, or held by
the very job that made it (`IsAccountedFor`). TLC has checked `SingleInv` on the
instance of `mm_recovery`, whose run keeps the property itself.

**The contract.** `ContractImplemented` shows `Spec => Contract!Spec`: under `IInv`
every action maps to a step of MessageContract or a stutter. Replace and Archive
are the contract's own, Complete attaches and reports in one step, for which
`JobIsSound` gives the message's home and `CopyIsPast` the definition it was
verified against; a release only ever takes a report back.

**Requests.** `IInv` ties handlers to what was asked (`HandlerIsSound`, with the
content an assignment has read being the one of its revision unless that has
passed), history to revisions (`HistoryIsSound`: what an API request has applied
lies behind the row's revision, which is why a copy after its key expired is
refused), and stored answers to their change (`ReplayIsSound`, `AnswersAreSound`).

**Security.** `IInv` says what a Refresh may rely on at each step, with clients
moving the warning at any time. `TrapIsSound`: unless a client has moved the warning
since Refresh read it, the record still names the row's channel, that channel is the
chosen one if it exists, and it is not on the list to be deleted. A move in between
(`moved = "yes"`) suspends all three until the next read of the row. A publication
of what was read before the move is refused by the revision, or has nothing to
write; an arming after it is of the old channel, so that only one that follows a
read of the move ends the exception (`moved = "read"`). `VerificationIsSound`: while the revision
read is the row's, so is the content, so that a write that is accepted puts the
button on the present text. `PlacesAreKnown` lets a new channel be nobody's yet.

**Handlers.** `HandlersInv` adds `BoardIsKnown` (what the reconciler's job for the
verification message knows), `PressIsSound` (a message that was not the managed
one when it was pressed, and whose id no job was about to store, never becomes it:
ids are new and a row that moves forgets its id) and `QuietIsSound` (after a Refresh has read "disabled" no other is past
that point, by the lock, so that nothing arms the trap).

**Agreements.** A configuration in use that is enabled has a channel, since
`normalized` is applied on every way into `current` (`EnabledHasChannel`, a
conjunct of `IInv` only). What Publish leaves in the store needs all of `IInv`, since a caller
works on a copy of the configuration and of the companies that others change.
`CallerIsSound` says of the copy that it was enabled when it was taken, and so has
a channel; of what is rendered from it that it has each key once, in order, with
the panel last (`InOrder`); and of a revision read that it is of the past. From it
follow `RowsAreRendered` (a row of a company or of the panel has a channel and
content of its own kind, and the panel is never archived) and `ReplaysAreApplied`
(a definition that `Request` finds answered is the row's, or the row has moved on
since), which is why skipping the write masks no change. Both are kept because a
write moves the revision up (`RowMoves`). `SequenceFacts` gives what `Render` puts
together by `FlattenSeq`.

**Confirmations.** `IInv` of MessageCommands has two halves. `PendingInv` adds
`PendingIsSound` to the types: items have an id each, as many as the limit allows,
and an item's fate is "expired" or "waiting" as the item is; whatever is taken
therefore was waiting.

**Bodies.** The other half is `BodiesAreSound` and `ContentSurvives`: the row holds
trees of the right depth in normal form, valid unless there is no message, which
the job would not change if it wrote them; and their texts, buttons and pictures are
those of `source`, what a user wrote last, as it was sent: of a classic message its
content, its embeds' parts and pictures, and its components (`Written`,
`WrittenUrls`, `Controls`), none of them taken from the conversion. Each action keeps it for a reason of its
own: a body written is normalised, and that conversion loses nothing is a lemma of
its own (`WrittenIsShown`, on `ConvertShows`); an export is
what is stored; the job's `Clean` takes only the verification button and what is
empty without it. Bodies are of any width, over any strings and any bounds.

The functions concern sequences within sequences, and neither the library nor
TLAPS has induction over them that could be used here. `SequenceFacts` therefore
proves it for sets (a set of sequences that holds the empty one and is closed under
Append is all of them, from the fact that a set of numbers has a least one), and by
it what `FlattenSeq` does to concatenations, what mapping and gathering over a
sequence keep, and when a filter sees no difference. `PayloadsProofs` shows the
functions of Payloads to be of these forms level by level: a paint of every part
(`Normal`, `Observed`, `Preview`) keeps texts, shapes and validity; of a valid
component in normal form, normalizing what was observed of it leaves it as it was,
part by part (`EchoIsNormal`), which takes for each type what Discord and discordgo
add to it and what is not permitted to be stored; `Clean` keeps
what is not the verification button (`Controls`, `Urls`), is the identity on what
is clean, and leaves a valid body valid if texts fit; conversion yields trees whose
texts are those of its embeds. `MessageCommandsProofs` has a lemma per action.
`RoomIsEnough` is then a fact about counts: cleaning never adds a component, the
button's row adds two. `Filtered` says in Payloads what SelectSeq would, of which
the provers know nothing.

**Life cycle.** `IInv` adds that every row queued or worked on has room for its
error (`BatchIsSound`), so that no worker is ever stuck; that who is inside
ReconcileDue has the lock (`OneBatch`); and what ends before what (`EndsInOrder`),
from which the first half of `PoolClosesLast` follows by the hook before the pool's;
the second, that no handler is in a call, is what Close waits for. Of handlers
nothing else is claimed: they outlive the hooks.

The invariants of the proofs of ManagedMessages, MessageRequests, MessageCommands,
Agreements, SecurityHandlers (with that of Security as its first conjunct) and
LifeCycle are also checked by TLC.

Only model-checked: all liveness (`Converges`, `RepairEnds`, `ConfigConverges`,
`PanelsConverge`, `TrapConverges`, `VerificationConverges`, `StopsInTheEnd`,
`DueIsClaimed`), since neither fairness nor ENABLED is within the prover's reach.

## 6. What is not modelled

* Colours, emojis, spacings, mentions and unknown fields of payloads, and the
  characters of texts. In ManagedMessages a content is a value and `Mangled`
  stands for any answer that normalises to something else.
* Time: no durations. The application's clock and the database's are not told
  apart (`ClaimDue` compares with the former, mutations write the latter).
* Discord refusing nonces across channels, rate limits as such (a failing call).
* Expiry of the idempotency keys of Agreements: a key there names the revision
  and the definition, and what a lost key would let through the revision refuses.
* The category, position and permissions of the trap's channel: one edit that may
  be needed at any time and can fail (`EditChannel`).
* Parts of embeds that have no place in components and that classic.go drops or
  folds into texts: icons, `inline`, colours that are not valid. An embed's links
  are part of its header's text.
* Several presses or messages handled at once: a handler writes nothing that
  another reads, so that one at a time loses nothing.
* Routing of commands, autocompletion, pagination and views, HTTP routing and
  authentication, configuration, logging, health, the CLI and migrations: no
  state of their own that changes over time.
* Composition in full: ManagedMessages, MessageRequests, Agreements and Security
  share MessageRows, and each of the last three has of the reconciler what it
  depends on. One module with all of them would be out of TLC's reach.

## 7. Plan

Done: MessageRows, ManagedMessages, MessageContract, MessageRequests, Payloads,
MessageCommands, Agreements, Security, SecurityHandlers, LifeCycle, and proofs of
every safety property the passing runs check.

Left, in order of what it would add:

1. An abstract specification of one confirmed action and of one Refresh, as
   MessageContract is for rows.
2. The dashboards' pagination in Discord (`agreementdiscord/items.go`) against
   changes between two pages.
