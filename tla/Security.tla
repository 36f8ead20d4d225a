------------------------------ MODULE Security ------------------------------
(***************************************************************************)
(* Security controls (internal/security, platform/securitydiscord): the    *)
(* anti-bot trap, a channel whose authors are banned, and the button on    *)
(* the verification message.                                               *)
(*                                                                         *)
(* Refresh, started by a job and by commands, reads the settings, repairs  *)
(* the trap's channel in Discord, publishes its warning as a managed       *)
(* message, arms the trap, removes other messages of the bot from it, and  *)
(* then puts the button on the verification message.  Every call it makes  *)
(* is a step of its own.  Meanwhile administrators configure the controls, *)
(* clients of the API and commands edit, move and archive both messages    *)
(* (the warning's key is reserved in the settings only), moderators        *)
(* create, rename and delete channels and delete messages, and workers of  *)
(* the reconciler post both messages.  ManagedMessages has the rest of     *)
(* what the reconciler does.                                               *)
(***************************************************************************)
EXTENDS Naturals, FiniteSets

CONSTANTS
    Ordinary,        \* the guild's text channels at the start, by number
    Texts,           \* what users write in messages
    NoChannel,       \* no channel bound, or no trap armed
    NoContent,
    MaxChannels,     \* bound: text channels ever
    MaxWarnings,     \* bound: warnings ever posted
    MaxBoards,       \* bound: verification messages ever posted
    MaxEvents        \* bound: operations of people and failures, together

ASSUME SecurityAssumption ==
    /\ Ordinary \in Nat \ {0} /\ MaxChannels \in Nat /\ Ordinary <= MaxChannels
    /\ MaxWarnings \in Nat /\ MaxBoards \in Nat
    /\ MaxEvents \in Nat
    /\ Texts # {}
    /\ NoChannel \notin Nat

VARIABLES
    settings,  \* the effective settings: environment and bot_settings
    armed,     \* the channel whose authors are banned, in memory
    rows,      \* the managed messages of both controls
    channels,  \* Discord's text channels, by id
    named,     \* those called like the trap
    opened,    \* how many there have been
    posts,     \* the bot's messages in them
    posted,    \* how many there have been, of each control
    worker,    \* what the reconciler is doing for each row
    refresh,   \* what Refresh is doing
    moved,     \* history: what has not followed a client's move of the warning
    changes,   \* operations of administrators and clients so far
    faults     \* failures, and deeds of moderators, so far

vars == <<settings, armed, rows, channels, named, opened, posts, posted, worker,
          refresh, moved, changes, faults>>

discord == <<channels, named, opened, posts, posted>>

bounds == <<changes, faults>>

ChannelIds == 1..MaxChannels

\* Where the verification may be configured to be.
Places == 1..Ordinary

Trap == "trap"
Verification == "verification"

Keys == {Trap, Verification}

MaxPosts(k) == IF k = Trap THEN MaxWarnings ELSE MaxBoards

Store == INSTANCE MessageRows WITH
    Owners <- {}, MaxMessages <- MaxWarnings + MaxBoards, NoOwner <- NoContent,
    Channels <- ChannelIds, Contents <- {}

Usable(row) == Store!Markable(row)

-----------------------------------------------------------------------------

\* The channel is the one of a verification that is enabled and bound to a
\* channel, a message and a role, and none otherwise: Refresh tells no more apart.
Settings == [antibot : BOOLEAN, channel : Places \union {NoChannel}]

VerificationReady(config) == config.channel # NoChannel

Warning == [text |-> "warning", button |-> FALSE]

UserMessage(text) == [text |-> text, button |-> FALSE]

\* The user's text, with the button.
WithVerificationButton(content) == [content EXCEPT !.button = TRUE]

\* step    what is called next
\* config  the settings read;  record  the row read
\* seen    the channels listed, less those dealt with;  trap  the one chosen
\* extras  the messages listed, less those dealt with
IdleRefresh ==
    [step |-> "idle", config |-> [antibot |-> FALSE, channel |-> NoChannel],
     record |-> Store!AbsentRow, seen |-> {}, trap |-> NoChannel, extras |-> {}]

At(step) == refresh.step = step

Goes(step) == refresh' = [refresh EXCEPT !.step = step]

\* A job for a row: the revision, channel and message it claimed, and the message
\* it has created.
IdleWorker ==
    [revision |-> 0, channel |-> NoChannel, known |-> Store!NoMessage,
     message |-> Store!NoMessage]

\* The first start with the controls; settings and a message may be there.  What
\* the message says and where it stands are values like any other.
Init ==
    /\ settings \in Settings
    /\ armed = NoChannel
    /\ \E row \in {Store!AbsentRow,
                  Store!InsertedRow(1, UserMessage(CHOOSE text \in Texts : TRUE))} :
        rows = [k \in Keys |-> IF k = Trap THEN Store!AbsentRow ELSE row]
    /\ channels = 1..Ordinary /\ named = {} /\ opened = Ordinary
    /\ posts = {} /\ posted = [k \in Keys |-> 0]
    /\ worker = [k \in Keys |-> IdleWorker]
    /\ refresh = IdleRefresh
    /\ moved = "no"
    /\ changes = 0 /\ faults = 0

-----------------------------------------------------------------------------
(* Discord.                                                                *)

\* A channel called like the trap.  Ids grow, so that it is the last in a listing.
Opens ==
    /\ opened < MaxChannels
    /\ opened' = opened + 1
    /\ channels' = channels \union {opened + 1}
    /\ named' = named \union {opened + 1}

Closes(c) ==
    /\ channels' = channels \ {c}
    /\ named' = named \ {c}
    /\ posts' = {post \in posts : post.channel # c}

\* The messages of one of the controls in a channel.
PostsIn(c, k) == {post.id : post \in {p \in posts : p.channel = c /\ p.key = k}}

Standing(c, k, m) == m \in PostsIn(c, k)

-----------------------------------------------------------------------------
(* Refresh: the trap.  TryLock lets one run at a time; another caller that *)
(* finds it taken does nothing, and is not a step.                         *)

StartRefresh ==
    /\ At("idle")
    /\ refresh' = [IdleRefresh EXCEPT !.step = "settings"]
    /\ UNCHANGED <<settings, armed, rows, discord, worker, moved, bounds>>

\* What follows the trap, whether it failed or not.
AfterTrap(config) ==
    refresh' = IF VerificationReady(config)
               THEN [IdleRefresh EXCEPT !.step = "read", !.config = config]
               ELSE IdleRefresh

\* A trap that stays armed when it is disabled.
StaysArmed(config) == armed

\* Disabled, the trap bans nobody from here on.
Disarmed(config) == IF config.antibot THEN armed ELSE NoChannel

ReadSettings ==
    /\ At("settings")
    /\ \/ /\ settings.antibot
          /\ refresh' = [refresh EXCEPT !.step = "get", !.config = settings]
       \/ /\ ~settings.antibot
          /\ AfterTrap(settings)
    /\ armed' = Disarmed(settings)
    /\ UNCHANGED <<settings, rows, discord, worker, moved, bounds>>

GetWarning ==
    /\ At("get")
    /\ refresh' = [refresh EXCEPT !.step = "list", !.record = rows[Trap]]
    /\ moved' = IF moved = "yes" THEN "read" ELSE moved
    /\ UNCHANGED <<settings, armed, rows, discord, worker, bounds>>

First(seen) == CHOOSE c \in seen : \A d \in seen : c <= d

\* The first channel of that name, whichever the message is assigned to.
ChosenByName(preferred, listed, called) ==
    IF called = {} THEN NoChannel ELSE First(called)

\* The assigned channel if it is still there, whatever it is called, else the
\* first of the trap's name.
Chosen(preferred, listed, called) ==
    IF preferred \in listed THEN preferred
    ELSE IF called = {} THEN NoChannel ELSE First(called)

\* A channel that is called otherwise has to be edited, and so may one that
\* differs in its category, topic, place or permissions.
ListChannels ==
    LET trap == Chosen(refresh.record.channel, channels, named) IN
    /\ At("list")
    /\ \E next \in IF trap = NoChannel THEN {"open"}
                   ELSE IF trap \in named THEN {"edit", "clean"} ELSE {"edit"} :
        refresh' = [refresh EXCEPT !.step = next, !.trap = trap, !.seen = named \ {trap}]
    /\ UNCHANGED <<settings, armed, rows, discord, worker, moved, bounds>>

CreateChannel ==
    /\ At("open")
    /\ Opens
    /\ refresh' = [refresh EXCEPT !.step = "clean", !.trap = opened + 1]
    /\ UNCHANGED <<settings, armed, rows, posts, posted, worker, moved, bounds>>

\* Gives the chosen channel its name; one that has gone is an error.
EditChannel ==
    /\ At("edit")
    /\ \/ /\ refresh.trap \in channels
          /\ named' = named \union {refresh.trap}
          /\ Goes("clean")
       \/ /\ refresh.trap \notin channels
          /\ AfterTrap(refresh.config)
          /\ UNCHANGED named
    /\ UNCHANGED <<settings, armed, rows, channels, opened, posts, posted, worker, moved,
                   bounds>>

\* Deletes the other channels it has listed; one that has gone is an error.
DeleteDuplicate ==
    LET c == First(refresh.seen) IN
    /\ At("clean")
    /\ refresh.seen # {}
    /\ \/ /\ c \in channels
          /\ Closes(c)
          /\ refresh' = [refresh EXCEPT !.seen = @ \ {c}]
       \/ /\ c \notin channels
          /\ AfterTrap(refresh.config)
          /\ UNCHANGED <<channels, named, posts>>
    /\ UNCHANGED <<settings, armed, rows, opened, posted, worker, moved, bounds>>

\* The trap armed before its warning is published.
TrapRepairedArmed ==
    /\ At("clean")
    /\ refresh.seen = {}
    /\ armed' = refresh.trap
    /\ Goes("publish")
    /\ UNCHANGED <<settings, rows, discord, worker, moved, bounds>>

TrapRepaired ==
    /\ At("clean")
    /\ refresh.seen = {}
    /\ Goes("publish")
    /\ UNCHANGED <<settings, armed, rows, discord, worker, moved, bounds>>

\* publish: nothing to do by the record that was read.
UpToDate(record, channel, content) ==
    /\ Usable(record)
    /\ record.channel = channel
    /\ record.content = content

\* A replacement of whatever is there.
ConflictNever(record, row) == FALSE

\* Create finds a row, or Replace another revision or an archived row.
Conflict(record, row) ==
    \/ ~Store!Exists(record) /\ Store!Exists(row)
    \/ Store!Exists(record) /\ (row.revision # record.revision \/ Store!Archived(row))

\* The row publish leaves when there is no conflict.
Published(row, channel, content) ==
    IF Store!Exists(row) THEN Store!ReplacedRow(row, channel, content)
                         ELSE Store!InsertedRow(channel, content)

\* Its idempotency key holds the revision read, so a replay could only answer
\* for a change that has moved the row on since.
PublishWarning ==
    LET row == rows[Trap] IN
    /\ At("publish")
    /\ \/ /\ UpToDate(refresh.record, refresh.trap, Warning)
          /\ Goes("arm")
          /\ UNCHANGED rows
       \/ /\ ~UpToDate(refresh.record, refresh.trap, Warning)
          /\ ~Conflict(refresh.record, row)
          /\ rows' = [rows EXCEPT ![Trap] = Published(row, refresh.trap, Warning)]
          /\ Goes("arm")
       \/ /\ ~UpToDate(refresh.record, refresh.trap, Warning)
          /\ Conflict(refresh.record, row)
          /\ AfterTrap(refresh.config)
          /\ UNCHANGED rows
    /\ UNCHANGED <<settings, armed, discord, worker, moved, bounds>>

\* A move that was read has been followed now; one made since has not.
Arm ==
    /\ At("arm")
    /\ armed' = refresh.trap
    /\ moved' = IF moved = "read" THEN "no" ELSE moved
    /\ Goes("reconcile")
    /\ UNCHANGED <<settings, rows, discord, worker, bounds>>

\* Marks the warning due; the channel is only pruned for a warning that was
\* known before.
ReconcileWarning ==
    LET record == refresh.record IN
    /\ At("reconcile")
    /\ IF /\ ~Store!Archived(rows[Trap])
          /\ record.channel = refresh.trap
          /\ record.message # Store!NoMessage
       THEN Goes("confirm") ELSE AfterTrap(refresh.config)
    /\ UNCHANGED <<settings, armed, rows, discord, worker, moved, bounds>>

\* PruneWarnings first sees that the canonical warning is there ...
ConfirmWarning ==
    /\ At("confirm")
    /\ IF Standing(refresh.trap, Trap, refresh.record.message)
       THEN Goes("prune") ELSE AfterTrap(refresh.config)
    /\ UNCHANGED <<settings, armed, rows, discord, worker, moved, bounds>>

\* ... then lists the messages of the bot, whatever they are for ...
Extras(state) ==
    {post \in posts :
        /\ post.channel = state.trap
        /\ ~(post.key = Trap /\ post.id = state.record.message)}

ListWarnings ==
    /\ At("prune")
    /\ IF Extras(refresh) = {} THEN AfterTrap(refresh.config)
       ELSE refresh' = [refresh EXCEPT !.step = "delete", !.extras = Extras(refresh)]
    /\ UNCHANGED <<settings, armed, rows, discord, worker, moved, bounds>>

\* ... and deletes the others one by one; one that has gone is an error.
DeleteWarning ==
    /\ At("delete")
    /\ \E post \in refresh.extras :
        \/ /\ post \in posts
           /\ posts' = posts \ {post}
           /\ IF refresh.extras = {post} THEN AfterTrap(refresh.config)
              ELSE refresh' = [refresh EXCEPT !.extras = @ \ {post}]
        \/ /\ post \notin posts
           /\ AfterTrap(refresh.config)
           /\ UNCHANGED posts
    /\ UNCHANGED <<settings, armed, rows, channels, named, opened, posted, worker, moved,
                   bounds>>

-----------------------------------------------------------------------------
(* Refresh: the verification message.                                      *)

ReadVerification ==
    /\ At("read")
    /\ refresh' = IF Usable(rows[Verification])
                  THEN [refresh EXCEPT !.step = "write", !.record = rows[Verification]]
                  ELSE IdleRefresh
    /\ UNCHANGED <<settings, armed, rows, discord, worker, moved, bounds>>

\* A message left where it is.
PlaceOfRecord(config, record) == record.channel

Place(config, record) == config.channel

WriteVerification ==
    LET record == refresh.record
        channel == Place(refresh.config, record)
        content == WithVerificationButton(record.content)
    IN
    /\ At("write")
    /\ rows' = IF \/ UpToDate(record, channel, content)
                  \/ Conflict(record, rows[Verification])
               THEN rows
               ELSE [rows EXCEPT ![Verification] = Published(@, channel, content)]
    /\ refresh' = IdleRefresh
    /\ UNCHANGED <<settings, armed, discord, worker, moved, bounds>>

-----------------------------------------------------------------------------
(* The reconciler, as far as posting goes: a claim, calls and a statement. *)

WorkerClaims(k) ==
    LET row == rows[k] IN
    /\ worker[k] = IdleWorker
    /\ Usable(row)
    /\ posted[k] < MaxPosts(k)
    /\ worker' = [worker EXCEPT ![k] =
            [revision |-> row.revision, channel |-> row.channel, known |-> row.message,
             message |-> Store!NoMessage]]
    /\ UNCHANGED <<settings, armed, rows, discord, refresh, moved, bounds>>

\* Posts the message when the job knows none or the one it knows has gone; there
\* is nothing to do for one that stands, and nothing to be done without a channel.
WorkerCreates(k) ==
    LET job == worker[k] IN
    /\ job.revision # 0 /\ job.message = Store!NoMessage
    /\ \/ /\ job.channel \in channels /\ ~Standing(job.channel, k, job.known)
          /\ posted' = [posted EXCEPT ![k] = @ + 1]
          /\ posts' = posts \union
                {[key |-> k, id |-> posted[k] + 1, channel |-> job.channel]}
          /\ worker' = [worker EXCEPT ![k].message = posted[k] + 1]
       \/ /\ job.channel \notin channels \/ Standing(job.channel, k, job.known)
          /\ worker' = [worker EXCEPT ![k] = IdleWorker]
          /\ UNCHANGED <<posts, posted>>
    /\ UNCHANGED <<settings, armed, rows, channels, named, opened, refresh, moved, bounds>>

\* Stores its id, unless the row has moved on: then a first one is deleted.
WorkerStores(k) ==
    LET job == worker[k] IN
    /\ job.message # Store!NoMessage
    /\ worker' = [worker EXCEPT ![k] = IdleWorker]
    /\ \/ /\ rows[k].revision = job.revision
          /\ rows' = [rows EXCEPT ![k].message = job.message]
          /\ UNCHANGED posts
       \/ /\ rows[k].revision # job.revision
          /\ posts' = {post \in posts :
                ~(job.known = Store!NoMessage /\ post.key = k /\ post.id = job.message)}
          /\ UNCHANGED rows
    /\ UNCHANGED <<settings, armed, channels, named, opened, posted, refresh, moved, bounds>>

-----------------------------------------------------------------------------
(* Administrators, and clients of the API and of the commands.             *)

Change == changes + faults < MaxEvents /\ changes' = changes + 1

\* Configure checks the settings it has read and stores those it was given;
\* two at once can store what neither would have accepted, so that any
\* settings are let through here.  Its Refresh is any Refresh.
Configure ==
    /\ Change
    /\ \E new \in Settings :
        /\ new # settings
        /\ settings' = new
    /\ UNCHANGED <<armed, rows, discord, worker, refresh, moved, faults>>

\* Create, or Replace at the revision the row has.  Nothing keeps clients from the
\* warning: it can be rewritten and moved like any message.
WriteMessage(k, channel, content) ==
    /\ Change
    /\ ~Store!Archived(rows[k])
    /\ rows[k].channel # channel \/ rows[k].content # content
    /\ rows' = [rows EXCEPT ![k] = Published(@, channel, content)]
    /\ moved' = IF k = Trap /\ rows[k].channel # channel THEN "yes" ELSE moved
    /\ UNCHANGED <<settings, armed, discord, worker, refresh, faults>>

\* A user's text has no button, an assignment keeps what the message says.
EditMessage(k, channel) == \E text \in Texts : WriteMessage(k, channel, UserMessage(text))

AssignMessage(k, channel) ==
    Store!Exists(rows[k]) /\ WriteMessage(k, channel, rows[k].content)

ArchiveMessage(k) ==
    /\ Change
    /\ Usable(rows[k])
    /\ rows' = [rows EXCEPT ![k] = Store!ArchivedRow(@)]
    /\ UNCHANGED <<settings, armed, discord, worker, refresh, moved, faults>>

-----------------------------------------------------------------------------
(* Moderators and failures.                                                *)

Fault == changes + faults < MaxEvents /\ faults' = faults + 1

ChannelDeleted ==
    /\ Fault
    /\ \E c \in channels : Closes(c)
    /\ UNCHANGED <<settings, armed, rows, opened, posted, worker, refresh, moved, changes>>

ChannelAdded ==
    /\ Fault
    /\ Opens
    /\ UNCHANGED <<settings, armed, rows, posts, posted, worker, refresh, moved, changes>>

\* To the trap's name, or from it to another.
ChannelRenamed ==
    /\ Fault
    /\ \E c \in channels :
        named' = IF c \in named THEN named \ {c} ELSE named \union {c}
    /\ UNCHANGED <<settings, armed, rows, channels, opened, posts, posted, worker, refresh,
                   moved, changes>>

PostDeleted ==
    /\ Fault
    /\ \E post \in posts : posts' = posts \ {post}
    /\ UNCHANGED <<settings, armed, rows, channels, named, opened, posted, worker, refresh,
                   moved, changes>>

\* A call of Refresh fails; a failure of the trap's part is followed by the other.
CallFails ==
    /\ ~At("idle")
    /\ Fault
    /\ IF refresh.step \in {"settings", "read", "write"} THEN refresh' = IdleRefresh
                                                          ELSE AfterTrap(refresh.config)
    /\ UNCHANGED <<settings, armed, rows, discord, worker, moved, changes>>

\* The process dies, with its workers, and starts with the trap disarmed.
Crash ==
    /\ Fault
    /\ armed' = NoChannel
    /\ refresh' = IdleRefresh
    /\ worker' = [k \in Keys |-> IdleWorker]
    /\ UNCHANGED <<settings, rows, discord, moved, changes>>

-----------------------------------------------------------------------------

RefreshStep ==
    \/ ReadSettings
    \/ GetWarning
    \/ ListChannels
    \/ CreateChannel
    \/ EditChannel
    \/ DeleteDuplicate
    \/ TrapRepaired
    \/ PublishWarning
    \/ Arm
    \/ ReconcileWarning
    \/ ConfirmWarning
    \/ ListWarnings
    \/ DeleteWarning
    \/ ReadVerification
    \/ WriteVerification

Worker(k) == WorkerClaims(k) \/ WorkerCreates(k) \/ WorkerStores(k)

Client(k) ==
    \/ \E channel \in 1..opened : EditMessage(k, channel) \/ AssignMessage(k, channel)
    \/ ArchiveMessage(k)

Step ==
    \/ StartRefresh \/ RefreshStep
    \/ Configure
    \/ \E k \in Keys : Worker(k) \/ Client(k)
    \/ ChannelDeleted \/ ChannelAdded \/ ChannelRenamed \/ PostDeleted
    \/ CallFails

Next == Step \/ Crash

\* The job runs every minute, its calls return, and the reconciler gets to
\* every due row (ManagedMessages); nothing is assumed of people or failures.
Fairness ==
    /\ WF_vars(StartRefresh) /\ WF_vars(RefreshStep)
    /\ \A k \in Keys : WF_vars(Worker(k))

Spec == Init /\ [][Next]_vars /\ Fairness

-----------------------------------------------------------------------------
(* Properties.                                                             *)

Steps ==
    {"idle", "settings", "get", "list", "open", "edit", "clean", "publish", "arm",
     "reconcile", "confirm", "prune", "delete", "read", "write"}

Bodies == [text : Texts \union {Warning.text}, button : BOOLEAN]

Record ==
    [state : Store!States \union {"absent"}, revision : Nat,
     channel : ChannelIds \union {NoChannel},
     content : Bodies \union {NoContent}, message : Nat, observed : {NoContent},
     due : BOOLEAN, owner : {NoContent}, lease : {"none"}]

Posts == [key : Keys, id : Nat, channel : ChannelIds]

RefreshRecord ==
    [step : Steps, config : Settings, record : Record,
     seen : SUBSET ChannelIds, trap : ChannelIds \union {NoChannel},
     extras : SUBSET Posts]

Jobs ==
    [revision : Nat, channel : ChannelIds \union {NoChannel}, known : Nat, message : Nat]

Bounded == changes \in Nat /\ faults \in Nat /\ changes + faults <= MaxEvents

\* The type invariant.
TypeOK ==
    /\ settings \in Settings
    /\ opened \in Ordinary..MaxChannels /\ channels \subseteq 1..opened
    /\ named \subseteq channels
    /\ armed \in (1..opened) \union {NoChannel}
    /\ rows \in [Keys -> Record]
    /\ posted \in [Keys -> Nat] /\ posts \subseteq Posts
    /\ worker \in [Keys -> Jobs]
    /\ refresh \in RefreshRecord
    /\ moved \in {"no", "yes", "read"}
    /\ Bounded

\* Authors are only banned in the channel the warning is assigned to: while the
\* armed channel exists it is that one, whatever call of Refresh has failed, and
\* whatever has happened to channels and rows since it was read.  Only a client
\* that moves the warning gets ahead of it, and only until a Refresh that has read
\* the move arms the trap.
ArmedIsAssigned == moved = "no" /\ armed \in channels => armed = rows[Trap].channel

RowIsSound(k) ==
    /\ rows[k].state = "absent" <=> rows[k].revision = 0
    /\ Store!Exists(rows[k]) => rows[k].content \in Bodies

\* Messages are assigned to channels there have been.
PlacesAreKnown ==
    \A k \in Keys :
        /\ rows[k].channel \in (1..opened) \union {NoChannel}
        /\ Store!Exists(rows[k]) => rows[k].channel # NoChannel

\* What a Refresh has chosen: unless a client has moved the warning since it was
\* read, its channel, while it exists, is the one chosen, and not among those to
\* be deleted.
TrapIsSound ==
    /\ refresh.trap \in (1..opened) \union {NoChannel}
    /\ refresh.step = "open" => refresh.seen = {} /\ refresh.trap = NoChannel
    /\ refresh.step \in {"edit", "clean", "publish", "arm"} => refresh.trap # NoChannel
    /\ refresh.step \in {"edit", "clean"} => refresh.trap \notin refresh.seen
    /\ moved # "yes" =>
        /\ refresh.step \in {"list", "open", "edit", "clean", "publish"} =>
               refresh.record.channel = rows[Trap].channel
        /\ refresh.step \in {"open", "edit", "clean", "publish"} =>
               rows[Trap].channel \notin channels \ {refresh.trap}
        /\ refresh.step = "arm" => rows[Trap].channel = refresh.trap

\* What a Refresh has read of the verification: while the revision is the row's
\* own, so is the content.
VerificationIsSound ==
    LET row == rows[Verification] IN
    /\ refresh.step \in {"read", "write"} => VerificationReady(refresh.config)
    /\ refresh.step = "write" =>
           /\ Usable(refresh.record)
           /\ refresh.record.content \in Bodies
           /\ refresh.record.revision <= row.revision
           /\ refresh.record.revision = row.revision => refresh.record.content = row.content

\* The inductive invariant.
IInv ==
    /\ TypeOK
    /\ \A k \in Keys : RowIsSound(k)
    /\ PlacesAreKnown
    /\ ArmedIsAssigned
    /\ TrapIsSound
    /\ VerificationIsSound

\* Refresh deletes no channel that the warning has been assigned to since Refresh
\* read it (README.md: "Conserva el canal canónico mediante su asignación
\* persistida"), though it goes by a listing that may be stale, after failures
\* and after other clients' changes.  A client that moves the warning between the
\* read and the deletion can lose the channel it has chosen.
CanonicalIsKept ==
    [][refresh' # refresh /\ faults' = faults /\ moved # "yes" =>
          rows[Trap].channel \notin channels \ channels']_vars

\* Putting the button on a message never undoes an edit of its text: only a
\* client's operation changes what the message says (README.md: "conserva tu
\* contenido").
UserTextIsKept ==
    [][/\ Store!Exists(rows[Verification])
       /\ changes' = changes
       => rows'[Verification].content.text = rows[Verification].content.text]_vars

\* Once people and failures rest, a trap that is enabled and whose message is
\* not archived is the one channel of its name, armed and assigned, with one
\* message of the bot in it, unless a client has put the verification message
\* there too; a disabled trap is disarmed.
TrapConverges ==
    <>[](IF settings.antibot
         THEN \/ Store!Archived(rows[Trap])
              \/ /\ named = {armed}
                 /\ rows[Trap].channel = armed
                 /\ rows[Trap].content = Warning
                 /\ \/ rows[Verification].channel = armed
                    \/ /\ PostsIn(armed, Trap) = {rows[Trap].message}
                       /\ PostsIn(armed, Verification) = {}
         ELSE armed = NoChannel)

\* ... and a verification message that exists comes to stand in the configured
\* channel, with the button, however edits and refreshes overtake one another.
VerificationConverges ==
    <>[](VerificationReady(settings) /\ Usable(rows[Verification]) =>
            /\ rows[Verification].channel = settings.channel
            /\ rows[Verification].content.button)
=============================================================================
