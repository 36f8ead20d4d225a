---------------------------- MODULE Agreements ----------------------------
(***************************************************************************)
(* Business agreements (internal/agreements): companies and their          *)
(* agreements in PostgreSQL, the runtime settings that bind the control    *)
(* panel, and the publication of one managed message per company and one   *)
(* control panel.                                                          *)
(*                                                                         *)
(* Discord interactions, API requests and the refresh job are callers that *)
(* run at the same time.  Publish is not a transaction: a caller reads the *)
(* companies, then the agreements, renders them, and takes every rendered  *)
(* definition to the message store, one statement at a time.  The rows it  *)
(* writes are those of MessageRows; what Discord shows of them is          *)
(* ManagedMessages' matter.                                                *)
(***************************************************************************)
EXTENDS Naturals, FiniteSets, Sequences, SequencesExt

CONSTANTS
    Clients,       \* interactions and requests under way
    Refresher,     \* the refresh job
    NumCompanies,  \* company ids are 1..NumCompanies, in the order of a listing
    NumItems,      \* agreement ids are 1..NumItems in every company
    Texts,         \* descriptions and images of an agreement
    Channels,      \* Discord channels
    NoText,        \* no such agreement
    NoChannel,     \* no channel bound
    Gone,          \* no such company
    PublicLimit,   \* agreements a listing shows in full
    Attempts,      \* how often a conflict is retried
    BaseEnabled,   \* the environment's flag
    BaseControl,   \* the environment's control channel
    LegacyChannel, \* that of an old list message left to be archived, if any
    MaxChanges,    \* bound: operations asked for by clients
    MaxFaults      \* bound: operations cut short

ASSUME AgreementsAssumption ==
    /\ NumCompanies \in Nat /\ NumItems \in Nat /\ PublicLimit \in Nat
    /\ Attempts \in Nat \ {0} /\ MaxChanges \in Nat /\ MaxFaults \in Nat
    /\ Refresher \notin Clients
    /\ NoChannel \notin Channels /\ Gone \notin Channels /\ Gone # NoChannel
    /\ NoText \notin Texts /\ LegacyChannel \in Channels \union {NoChannel}
    /\ BaseEnabled \in BOOLEAN /\ BaseControl \in Channels \union {NoChannel}

VARIABLES
    companies,  \* agreement_companies: the channel of a company, if it exists
    items,      \* business_agreements
    settings,   \* bot_settings: overrides of the environment
    current,    \* the effective configuration the process goes by
    rows,       \* managed_messages
    replays,    \* message_idempotency: replacements already answered
    callers,    \* what every caller is doing
    errors,     \* some operation has ended with an error
    changes,    \* operations left
    faults      \* faults left

vars == <<companies, items, settings, current, rows, replays, callers, errors,
          changes, faults>>

data == <<companies, items, settings, current>>

Callers == Clients \union {Refresher}
Companies == 1..NumCompanies
Items == 1..NumItems

\* The keys of the managed messages, in the order Publish takes them.
LegacyKey == 0
ControlKey == NumCompanies + 1
Keys == 0..ControlKey

-----------------------------------------------------------------------------
(* The message store, as its rows are written by clients.                  *)

Store == INSTANCE MessageRows WITH
    Owners <- {}, MaxMessages <- 0, Contents <- {},
    NoOwner <- NoText, NoContent <- NoText

Active(k) == Store!Exists(rows[k]) /\ ~Store!Archived(rows[k])

-----------------------------------------------------------------------------
(* Settings.                                                               *)

Config == [enabled : BOOLEAN, control : Channels \union {NoChannel}]

\* "keep" stands for an override that is not stored, or not asked for; the option
\* of the command is a channel, so that a channel once stored is never cleared.
Overrides == [enabled : {"keep", "true", "false"}, control : Channels \union {"keep"}]

NoOverride == [enabled |-> "keep", control |-> "keep"]

\* The configuration before agreements without a control channel are disabled.
Unchecked(config, override) ==
    [enabled |-> IF override.enabled = "keep" THEN config.enabled
                 ELSE override.enabled = "true",
     control |-> IF override.control = "keep" THEN config.control
                 ELSE override.control]

\* Enabled only with a control channel.
Normalized(config) ==
    [config EXCEPT !.enabled = @ /\ config.control # NoChannel]

\* The two are read independently.
Base == [enabled |-> BaseEnabled, control |-> BaseControl]

Stored(override) ==
    [f \in {"enabled", "control"} |->
        IF override[f] = "keep" THEN settings[f] ELSE override[f]]

\* What Reload computes from the stored settings.
Effective(stored) == Normalized(Unchecked(Base, stored))

-----------------------------------------------------------------------------
(* Rendering.                                                              *)

Present(of) == {i \in Items : of[i] # NoText}

\* The first agreements in full, and the number of all.
Listing(of) ==
    LET shown == {i \in Present(of) :
                     Cardinality({j \in Present(of) : j < i}) < PublicLimit}
    IN  [shown |-> [i \in shown |-> of[i]], count |-> Cardinality(Present(of))]

ControlPanel == [shown |-> <<>>, count |-> 0]

Definition(key, channel, content) ==
    [key |-> key, channel |-> channel, content |-> content]

\* One listing per company with a channel, by id, and the control panel last.
Render(channels, of, config) ==
    LET List(c) == IF channels[c] \in Channels
                   THEN <<Definition(c, channels[c], Listing(of[c]))>> ELSE <<>>
    IN  Append(FlattenSeq([c \in Companies |-> List(c)]),
               Definition(ControlKey, config.control, ControlPanel))

-----------------------------------------------------------------------------
(* Callers.                                                                *)

\* step   what is called next
\* config, channels   what Publish has read so far
\* stored the settings Reload has read;  update   what Configure is to store
\* todo   the definitions still to publish, the first of them under way
\* target the key to archive
\* revision, attempt   of the row last read (0: none), and how often it was read
IdleCaller ==
    [step |-> "idle", config |-> Base, channels |-> <<>>, stored |-> NoOverride,
     update |-> NoOverride, todo |-> <<>>, target |-> LegacyKey, revision |-> 0,
     attempt |-> 0]

At(p, step) == callers[p].step = step

SetCaller(p, caller) == callers' = [callers EXCEPT ![p] = caller]

Succeeds(p) == SetCaller(p, IdleCaller) /\ UNCHANGED errors

Ends(p) == SetCaller(p, IdleCaller) /\ errors' = TRUE

Goes(p, step) ==
    SetCaller(p, [IdleCaller EXCEPT !.step = step]) /\ UNCHANGED errors

\* A client starts an operation.
Asked(p) ==
    /\ At(p, "idle")
    /\ changes > 0
    /\ changes' = changes - 1
    /\ UNCHANGED faults

Init ==
    /\ companies = [c \in Companies |-> Gone]
    /\ items = [c \in Companies |-> [i \in Items |-> NoText]]
    /\ settings = NoOverride
    /\ current = Normalized(Base)
    /\ rows = [k \in Keys |->
                  IF k = LegacyKey /\ LegacyChannel # NoChannel
                  THEN Store!InsertedRow(LegacyChannel, ControlPanel) ELSE Store!AbsentRow]
    /\ replays = {}
    /\ callers = [p \in Callers |-> IdleCaller]
    /\ errors = FALSE
    /\ changes = MaxChanges
    /\ faults = MaxFaults

-----------------------------------------------------------------------------
(* Companies: available whether or not agreements are enabled.  Requests   *)
(* the database refuses (a duplicate, a missing company, one in use) change *)
(* nothing and are not steps.                                              *)

CreateCompany(p, c, channel) ==
    /\ Asked(p)
    /\ companies[c] = Gone
    /\ companies' = [companies EXCEPT ![c] = channel]
    /\ Goes(p, "publish")
    /\ UNCHANGED <<items, settings, current, rows, replays>>

UpdateCompany(p, c, channel) ==
    /\ Asked(p)
    /\ companies[c] # Gone
    /\ companies' = [companies EXCEPT ![c] = channel]
    /\ Goes(p, "publish")
    /\ UNCHANGED <<items, settings, current, rows, replays>>

\* The foreign key spares a company with agreements.
DeleteCompany(p, c) ==
    /\ Asked(p)
    /\ companies[c] # Gone
    /\ Present(items[c]) = {}
    /\ companies' = [companies EXCEPT ![c] = Gone]
    /\ SetCaller(p, [IdleCaller EXCEPT !.step = "deleted", !.target = c])
    /\ UNCHANGED <<items, settings, current, rows, replays, errors>>

\* While agreements are disabled the message of a deleted company is left alone.
AfterDelete(p) ==
    /\ At(p, "deleted")
    /\ SetCaller(p, IF current.enabled THEN [callers[p] EXCEPT !.step = "find"]
                                       ELSE IdleCaller)
    /\ UNCHANGED <<data, rows, replays, errors, changes, faults>>

-----------------------------------------------------------------------------
(* Agreements of an existing company; text is NoText for a deletion.       *)
(* Enabled is read with the statement; Publish reads it again.             *)

ChangeAgreement(p, c, i, text) ==
    /\ Asked(p)
    /\ current.enabled
    /\ companies[c] # Gone
    /\ text # items[c][i]
    /\ items' = [items EXCEPT ![c][i] = text]
    /\ Goes(p, "publish")
    /\ UNCHANGED <<companies, settings, current, rows, replays>>

-----------------------------------------------------------------------------
(* Settings.                                                               *)

\* The command that configures agreements; it publishes afterwards.
Configure(p, update) ==
    /\ Asked(p)
    /\ update # NoOverride
    /\ SetCaller(p, [IdleCaller EXCEPT !.step = "reload", !.update = update])
    /\ UNCHANGED <<data, rows, replays, errors>>

\* A job that publishes without reading the settings.
RefreshWithoutReload ==
    /\ At(Refresher, "idle")
    /\ Goes(Refresher, "publish")
    /\ UNCHANGED <<data, rows, replays, changes, faults>>

\* The refresh job, on start and every six hours.
Refresh ==
    /\ At(Refresher, "idle")
    /\ Goes(Refresher, "reload")
    /\ UNCHANGED <<data, rows, replays, changes, faults>>

\* Reload reads the stored settings ...
ReadSettings(p) ==
    /\ At(p, "reload")
    /\ SetCaller(p, [callers[p] EXCEPT !.step = "store", !.stored = settings])
    /\ UNCHANGED <<data, rows, replays, errors, changes, faults>>

\* ... and makes what it has read the effective configuration.
StoreConfig(p) ==
    /\ At(p, "store")
    /\ current' = Effective(callers[p].stored)
    /\ SetCaller(p, [callers[p] EXCEPT
            !.stored = NoOverride,
            !.step = IF callers[p].update = NoOverride THEN "publish" ELSE "set"])
    /\ UNCHANGED <<companies, items, settings, rows, replays, errors, changes, faults>>

\* Configure validates against the effective configuration of this moment, and
\* only writes the settings it was asked to change.
SaveSettings(p) ==
    LET update == callers[p].update
        config == Unchecked(current, update)
    IN
    /\ At(p, "set")
    /\ \/ /\ config.enabled /\ config.control = NoChannel
          /\ Ends(p)
          /\ UNCHANGED settings
       \/ /\ ~(config.enabled /\ config.control = NoChannel)
          /\ settings' = Stored(update)
          /\ Goes(p, "reload")
    /\ UNCHANGED <<companies, items, current, rows, replays, changes, faults>>

-----------------------------------------------------------------------------
(* Publish.                                                                *)

\* Nothing is published while disabled; some callers are told so.
ReadCompanies(p) ==
    /\ At(p, "publish")
    /\ \/ /\ ~current.enabled
          /\ Succeeds(p)
       \/ /\ current.enabled
          /\ SetCaller(p, [IdleCaller EXCEPT !.step = "items", !.config = current,
                                             !.channels = companies])
          /\ UNCHANGED errors
    /\ UNCHANGED <<data, rows, replays, changes, faults>>

ReadItems(p) ==
    /\ At(p, "items")
    /\ SetCaller(p, [IdleCaller EXCEPT
            !.step = "get",
            !.todo = Render(callers[p].channels, items, callers[p].config)])
    /\ UNCHANGED <<data, rows, replays, errors, changes, faults>>

\* publishDefinition reads the row to learn whether to create or replace it.
GetRow(p) ==
    /\ At(p, "get")
    /\ SetCaller(p, [callers[p] EXCEPT
            !.step = "put", !.revision = rows[Head(callers[p].todo).key].revision])
    /\ UNCHANGED <<data, rows, replays, errors, changes, faults>>

\* The definition is out: on to the next, and after the last to the old list.
NextDefinition(p) ==
    /\ SetCaller(p, IF Tail(callers[p].todo) = <<>>
                    THEN [IdleCaller EXCEPT !.step = "find", !.target = LegacyKey]
                    ELSE [IdleCaller EXCEPT !.step = "get", !.todo = Tail(callers[p].todo)])
    /\ UNCHANGED errors

\* A conflict is retried with the same definition; the last one ends Publish.
RetryConflict(p, step) ==
    \/ /\ callers[p].attempt + 1 < Attempts
       /\ SetCaller(p, [callers[p] EXCEPT !.step = step, !.attempt = @ + 1])
       /\ UNCHANGED errors
    \/ /\ callers[p].attempt + 1 = Attempts
       /\ Ends(p)

\* A comparison that forgets the content.
ChangedChannel(row, d) == row.channel # d.channel

Changed(row, d) == row.channel # d.channel \/ row.content # d.content

\* Replace's and Archive's precondition on the revision the caller has read.
Conflict(row, revision) ==
    row.revision # revision \/ Store!Archived(row) \/ ~Store!Exists(row)

\* An idempotency key without the fingerprint of what is asked for.
RequestOfRow(d, revision) == <<d.key, revision>>

\* The idempotency key of a creation (no revision) or a replacement.
Request(d, revision) == <<d, revision>>

\* Create, or Replace of the row as it was read.
PutDefinition(p) ==
    LET d == Head(callers[p].todo)
        row == rows[d.key]
        revision == callers[p].revision
        request == Request(d, revision)
    IN
    /\ At(p, "put")
    /\ \/ /\ revision = 0 /\ ~Store!Exists(row)
          /\ rows' = [rows EXCEPT ![d.key] = Store!InsertedRow(d.channel, d.content)]
          /\ replays' = replays \union {request}
          /\ NextDefinition(p)
       \/ /\ request \in replays
          /\ NextDefinition(p)
          /\ UNCHANGED <<rows, replays>>
       \/ /\ revision # 0 /\ request \notin replays /\ ~Conflict(row, revision)
          /\ rows' = [rows EXCEPT ![d.key] =
                         IF Changed(row, d)
                         THEN Store!ReplacedRow(row, d.channel, d.content) ELSE row]
          /\ replays' = replays \union {request}
          /\ NextDefinition(p)
       \/ /\ request \notin replays
          /\ IF revision = 0 THEN Store!Exists(row) ELSE Conflict(row, revision)
          /\ RetryConflict(p, "get")
          /\ UNCHANGED <<rows, replays>>
    /\ UNCHANGED <<data, changes, faults>>

-----------------------------------------------------------------------------
(* archive: of a deleted company's message, or of the old list.            *)

FindRow(p) ==
    /\ At(p, "find")
    /\ \/ /\ ~Active(callers[p].target)
          /\ Succeeds(p)
       \/ /\ Active(callers[p].target)
          /\ SetCaller(p, [callers[p] EXCEPT
                  !.step = "archive", !.revision = rows[callers[p].target].revision])
          /\ UNCHANGED errors
    /\ UNCHANGED <<data, rows, replays, changes, faults>>

\* Its idempotency key names the row and the revision: a replay of it is the
\* answer to the archive of this very row, which is archived for good.
ArchiveRow(p) ==
    LET k == callers[p].target IN
    /\ At(p, "archive")
    /\ \/ /\ ~Conflict(rows[k], callers[p].revision)
          /\ rows' = [rows EXCEPT ![k] = Store!ArchivedRow(rows[k])]
          /\ Succeeds(p)
       \/ /\ Store!Archived(rows[k])
          /\ rows[k].revision = callers[p].revision + 1
          /\ Succeeds(p)
          /\ UNCHANGED rows
       \/ /\ Conflict(rows[k], callers[p].revision)
          /\ ~(Store!Archived(rows[k]) /\ rows[k].revision = callers[p].revision + 1)
          /\ RetryConflict(p, "find")
          /\ UNCHANGED rows
    /\ UNCHANGED <<data, replays, changes, faults>>

-----------------------------------------------------------------------------

\* A statement fails, or the interaction's time is up.
Interrupted(p) ==
    /\ ~At(p, "idle")
    /\ faults > 0
    /\ faults' = faults - 1
    /\ Ends(p)
    /\ UNCHANGED <<data, rows, replays, changes>>

\* The process dies; a new one starts from its environment.
Restart ==
    /\ faults > 0
    /\ faults' = faults - 1
    /\ callers' = [p \in Callers |-> IdleCaller]
    /\ current' = Normalized(Base)
    /\ errors' = TRUE
    /\ UNCHANGED <<companies, items, settings, rows, replays, changes>>

ClientAsks(p) ==
    \/ \E c \in Companies :
        \/ \E channel \in Channels :
            CreateCompany(p, c, channel) \/ UpdateCompany(p, c, channel)
        \/ DeleteCompany(p, c)
        \/ \E i \in Items, text \in Texts \union {NoText} : ChangeAgreement(p, c, i, text)
    \/ \E update \in Overrides : Configure(p, update)

CallerStep(p) ==
    \/ AfterDelete(p)
    \/ ReadSettings(p)
    \/ StoreConfig(p)
    \/ SaveSettings(p)
    \/ ReadCompanies(p)
    \/ ReadItems(p)
    \/ GetRow(p)
    \/ PutDefinition(p)
    \/ FindRow(p)
    \/ ArchiveRow(p)

Next ==
    \/ \E p \in Clients : ClientAsks(p)
    \/ Refresh \/ Restart
    \/ \E p \in Callers : CallerStep(p) \/ Interrupted(p)

\* Calls return, and the refresh job's timer fires.
Fairness ==
    /\ WF_vars(Refresh)
    /\ \A p \in Callers : WF_vars(CallerStep(p))

Spec == Init /\ [][Next]_vars

FairSpec == Spec /\ Fairness

-----------------------------------------------------------------------------
(* Properties.                                                             *)

Steps == {"idle", "deleted", "reload", "store", "set", "publish", "items",
          "get", "put", "find", "archive"}

Directory == [Companies -> Channels \union {Gone}]

Listings == {Listing(of) : of \in [Items -> Texts \union {NoText}]}

\* What Publish takes to the message store.
Definitions ==
    [key : Companies, channel : Channels, content : Listings]
    \union [key : {ControlKey}, channel : Channels, content : {ControlPanel}]

\* A row no reconciler has seen.
UnseenRow ==
    [state : {"absent", "pending", "archived"}, revision : Nat,
     channel : Channels \union {NoChannel}, content : Listings \union {ControlPanel, NoText},
     message : {Store!NoMessage}, observed : {NoText}, due : BOOLEAN,
     owner : {NoText}, lease : {"none"}]

Caller ==
    [step : Steps, config : Config, channels : {<<>>} \union Directory,
     stored : Overrides, update : Overrides, todo : Seq(Definitions),
     target : Keys, revision : Nat, attempt : 0..Attempts - 1]

TypeOK ==
    /\ companies \in Directory
    /\ items \in [Companies -> [Items -> Texts \union {NoText}]]
    /\ settings \in Overrides
    /\ current \in Config
    /\ rows \in [Keys -> UnseenRow]
    /\ replays \in SUBSET (Definitions \X Nat)
    /\ callers \in [Callers -> Caller]
    /\ errors \in BOOLEAN
    /\ changes \in 0..MaxChanges /\ faults \in 0..MaxFaults

\* The process only goes by a configuration that is enabled with a control channel.
EnabledHasChannel == current.enabled => current.control # NoChannel

\* Whoever changes the configuration while a caller publishes, no definition
\* reaches the store without a channel, and what is archived is never the panel.
RowsAreRendered ==
    /\ \A k \in Keys : Store!Exists(rows[k]) <=> rows[k].revision > 0
    /\ \A c \in Companies :
        Store!Exists(rows[c]) => rows[c].channel \in Channels /\ rows[c].content \in Listings
    /\ ~Store!Archived(rows[ControlKey])
    /\ Active(ControlKey) =>
        rows[ControlKey].channel \in Channels /\ rows[ControlKey].content = ControlPanel

\* A definition that is answered from a record of its key, and so is not written,
\* is the one of the row, or the row has changed since it was read.
ReplaysAreApplied ==
    \A request \in replays :
        LET d == request[1]
            row == rows[d.key]
        IN
        /\ request[2] <= row.revision /\ row.revision > 0
        /\ request[2] = row.revision =>
            /\ row.channel = d.channel /\ row.content = d.content
            /\ ~Store!Archived(row)

\* A publication has each message once, in the order of their keys, and the
\* panel last.
InOrder(todo) ==
    /\ \A i, j \in 1..Len(todo) : i < j => todo[i].key < todo[j].key
    /\ todo # <<>> => todo[Len(todo)].key = ControlKey

\* What caller p has read is of the past, it publishes where there is a channel,
\* and it archives a company's message or the old list.
CallerIsSound(p) ==
    LET caller == callers[p] IN
    /\ At(p, "items") => caller.channels \in Directory /\ caller.config.control \in Channels
    /\ At(p, "get") \/ At(p, "put") <=> caller.todo # <<>>
    /\ InOrder(caller.todo)
    /\ At(p, "put") => caller.revision <= rows[Head(caller.todo).key].revision
    /\ caller.target # ControlKey
    /\ At(p, "archive") =>
        caller.revision > 0 /\ caller.revision <= rows[caller.target].revision

\* The inductive invariant: whatever the callers read before one another's writes,
\* rows are as Publish renders them, records of keys are true of their rows, and
\* every caller holds revisions of the past and definitions with a channel.
IInv ==
    /\ TypeOK
    /\ EnabledHasChannel
    /\ RowsAreRendered
    /\ ReplaysAreApplied
    /\ \A p \in Callers : CallerIsSound(p)

\* The message of company c shows its agreements in its channel.
Listed(c) ==
    /\ Active(c)
    /\ rows[c].channel = companies[c]
    /\ rows[c].content = Listing(items[c])

Published(c) == companies[c] \in Channels => Listed(c)

\* A company that exists under the id of a deleted one: README.md says such an
\* id cannot be used again to publish.
Reused(c) == companies[c] \in Channels /\ Store!Archived(rows[c])

\* Whatever the order in which callers read and wrote, and whatever was cut
\* short, the effective configuration comes to be the stored one.
ConfigConverges == <>[](current = Effective(settings))

\* However publications overtake one another, once the changes stop the refresh
\* job brings out every company's listing, the control panel in the channel
\* bound to it, and puts the old list away, unless an id has been used again.
PanelsConverge ==
    <>[](\/ ~current.enabled
         \/ \E c \in Companies : Reused(c)
         \/ /\ \A c \in Companies : Published(c)
            /\ Active(ControlKey) /\ rows[ControlKey].channel = current.control
            /\ ~Active(LegacyKey))

AtRest == ~errors /\ \A p \in Callers : At(p, "idle")

\* README.md: "Eliminar una empresa archiva su mensaje administrado".
DeletedIsArchived ==
    AtRest => \A c \in Companies : companies[c] = Gone => ~Active(c)

\* README.md: "cada cambio republica el listado de la empresa en su canal".
ChangesArePublished ==
    AtRest /\ current.enabled => \A c \in Companies : Published(c)
=============================================================================
