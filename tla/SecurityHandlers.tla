-------------------------- MODULE SecurityHandlers --------------------------
(***************************************************************************)
(* What the security controls do to members (internal/security/service.go, *)
(* platform/securitydiscord/handler.go), while Security goes on: a press   *)
(* of the verification button grants a role, a message in the trap bans    *)
(* its author.  Each handler makes several calls, one a step, and people   *)
(* press buttons of messages that have been moved, archived, replaced or   *)
(* copied in the meantime.                                                 *)
(*                                                                         *)
(* One press or one message is handled at a time: a handler writes nothing *)
(* that another reads.                                                     *)
(***************************************************************************)
EXTENDS Security

CONSTANTS
    Members,     \* authors of messages, this bot aside
    Bot

ASSUME SecurityHandlersAssumption == Bot \notin Members

VARIABLES
    press,    \* a press that is handled
    event,    \* a message that is handled
    quiet     \* history: a Refresh has read that the trap is disabled, and it still is

allVars == <<vars, press, event, quiet>>

\* A copy of the message by somebody else has an id the bot does not know.
Copy == MaxBoards + 1

\* stale       the message pressed was no longer the managed one at the start
\* configured  the channel has been the configured one since the start
IdlePress ==
    [step |-> "idle", channel |-> NoChannel, message |-> 0,
     stale |-> FALSE, configured |-> FALSE]

\* during  the trap has been seen disabled since before the start
IdleEvent == [step |-> "idle", author |-> Bot, channel |-> NoChannel, during |-> FALSE]

NoHandler == press = IdlePress /\ event = IdleEvent

HandlersInit ==
    /\ Init
    /\ press = IdlePress
    /\ event = IdleEvent
    /\ quiet = FALSE

-----------------------------------------------------------------------------
(* Presses: interaction, which calls Verify.                               *)

\* Bound to this message, here and now.
Current(channel, message) ==
    LET row == rows[Verification]
    IN  Usable(row) /\ row.channel = channel /\ row.message = message

\* The id of a message that has been created is about to be stored.
Pending(channel, message) ==
    LET job == worker[Verification] row == rows[Verification]
    IN  /\ job.message = message /\ job.channel = channel
        /\ Usable(row) /\ row.revision = job.revision

\* Of a message that stands, or of a copy of it anywhere.
PressButton(channel, message) ==
    /\ NoHandler
    /\ message = Copy \/ Standing(channel, Verification, message)
    /\ press' = [step |-> "settings", channel |-> channel, message |-> message,
                 stale |-> ~Current(channel, message) /\ ~Pending(channel, message),
                 configured |-> settings.channel = channel]
    /\ UNCHANGED <<vars, event>>

\* A check that lets any channel through.
ConfiguredAnywhere(config, channel) == VerificationReady(config)

ConfiguredHere(config, channel) ==
    VerificationReady(config) /\ channel = config.channel

VerifySettings ==
    /\ press.step = "settings"
    /\ press' = IF ConfiguredHere(settings, press.channel)
                THEN [press EXCEPT !.step = "record"]
                ELSE IdlePress
    /\ UNCHANGED <<vars, event>>

\* A check that trusts the channel and lets an archived row pass.
BoundByChannel(row, channel, message) == Store!Exists(row) /\ row.channel = channel

\* Not archived, and this very message.
Bound(row, channel, message) ==
    Usable(row) /\ row.channel = channel /\ row.message = message

VerifyRecord ==
    /\ press.step = "record"
    /\ press' = IF Bound(rows[Verification], press.channel, press.message)
                THEN [press EXCEPT !.step = "grant"]
                ELSE IdlePress
    /\ UNCHANGED <<vars, event>>

GrantRole ==
    /\ press.step = "grant"
    /\ press' = [press EXCEPT !.step = "granted"]
    /\ UNCHANGED <<vars, event>>

\* The member is told, of the role or of a failure: a call may fail at any step,
\* or the time be up.
EndPress ==
    /\ press.step # "idle"
    /\ press' = IdlePress
    /\ UNCHANGED <<vars, event>>

-----------------------------------------------------------------------------
(* Messages: message, which calls HandleMessage.                           *)

IsTrap(channel) == armed # NoChannel /\ channel = armed

\* A message anywhere: only those in the trap get past the first check.
MessagePosted(author, channel) ==
    /\ NoHandler
    /\ IsTrap(channel)
    /\ event' = [step |-> "bot", author |-> author, channel |-> channel, during |-> quiet]
    /\ UNCHANGED <<vars, press>>

\* BotUserID, whose answer the next step compares with.
KnowBot ==
    /\ event.step = "bot"
    /\ event' = [event EXCEPT !.step = "check"]
    /\ UNCHANGED <<vars, press>>

Bannable(author, channel) == IsTrap(channel) /\ author # Bot

HandleMessage ==
    /\ event.step = "check"
    /\ event' = IF Bannable(event.author, event.channel)
                THEN [event EXCEPT !.step = "ban"]
                ELSE IdleEvent
    /\ UNCHANGED <<vars, press>>

Ban ==
    /\ event.step = "ban"
    /\ event' = [event EXCEPT !.step = "banned"]
    /\ UNCHANGED <<vars, press>>

\* Done, or failed.
EndEvent ==
    /\ event.step # "idle"
    /\ event' = IdleEvent
    /\ UNCHANGED <<vars, press>>

-----------------------------------------------------------------------------

SecurityStep ==
    /\ Step
    /\ event' = [event EXCEPT !.during = @ /\ ~settings'.antibot]
    /\ press' = [press EXCEPT !.configured =
                    @ \/ (press.step # "idle" /\ settings'.channel = press.channel)]

\* A crash takes the handlers along.
CrashWithHandlers ==
    /\ Crash
    /\ press' = IdlePress
    /\ event' = IdleEvent

\* Refresh has got its settings, not an error.
SettingsRead == At("settings") /\ refresh' # refresh /\ faults' = faults

HandlersNext ==
    /\ \/ SecurityStep \/ CrashWithHandlers
       \/ \E channel \in channels, message \in 1..Copy : PressButton(channel, message)
       \/ VerifySettings \/ VerifyRecord \/ GrantRole \/ EndPress
       \/ \E author \in Members \union {Bot}, channel \in channels :
            MessagePosted(author, channel)
       \/ KnowBot \/ HandleMessage \/ Ban \/ EndEvent
    /\ quiet' = (~settings'.antibot /\ (quiet \/ SettingsRead))

HandlersSpec == HandlersInit /\ [][HandlersNext]_allVars

-----------------------------------------------------------------------------
(* Properties.                                                             *)

PressRecord ==
    [step : {"idle", "settings", "record", "grant", "granted"},
     channel : ChannelIds \union {NoChannel}, message : 0..Copy,
     stale : BOOLEAN, configured : BOOLEAN]

EventRecord ==
    [step : {"idle", "bot", "check", "ban", "banned"}, author : Members \union {Bot},
     channel : ChannelIds \union {NoChannel}, during : BOOLEAN]

\* The type invariant.
HandlersTypeOK == press \in PressRecord /\ event \in EventRecord /\ quiet \in BOOLEAN

\* A job for the verification message works for a revision the row has had, and its
\* ids are within the bound.
BoardIsKnown ==
    LET row == rows[Verification] job == worker[Verification] IN
    /\ posted[Verification] <= MaxBoards
    /\ job.revision # 0 /\ job.message = Store!NoMessage => posted[Verification] < MaxBoards
    /\ \A post \in posts : post.key = Verification => post.id <= posted[Verification]
    /\ job.revision <= row.revision
    /\ job.revision # 0 /\ job.revision = row.revision => job.channel = row.channel

\* A message that was not the managed one when it was pressed, nor about to be, never
\* is again: ids are new, and a row that moves forgets its id.
PressIsSound ==
    /\ press.step # "idle" =>
           /\ press.message = Copy \/ press.message \in 1..posted[Verification]
           /\ press.stale =>
                  /\ ~Current(press.channel, press.message)
                  /\ ~Pending(press.channel, press.message)
           /\ settings.channel = press.channel => press.configured
    /\ press.step \in {"grant", "granted"} => ~press.stale
    /\ press.step \in {"record", "grant", "granted"} => press.configured

\* After a Refresh that has read the trap disabled nothing arms it.
QuietIsSound ==
    /\ quiet =>
           /\ ~settings.antibot /\ armed = NoChannel
           /\ refresh.step \notin {"get", "list", "open", "edit", "clean", "publish", "arm"}
    /\ event.step # "idle" => ~event.during

\* The inductive invariant.
HandlersInv == IInv /\ HandlersTypeOK /\ BoardIsKnown /\ PressIsSound /\ QuietIsSound

\* Copied, old or archived messages do not verify (README.md:51: "los mensajes
\* copiados, antiguos o archivados no verifican"): no press that began after its
\* message was moved, replaced or archived is granted, although settings and row
\* are read at different times and the row may change once more meanwhile.
StaleNeverVerifies == press.step = "granted" => ~press.stale

\* Nor is one granted in a channel that was not the configured one at any time
\* of the press (README.md:51: "en el canal y la guild configurados"), also
\* while the message still stands where it was configured before.
GrantsAreConfigured == press.step = "granted" => press.configured

\* Once a Refresh has read that the trap is disabled, nobody who posts in what
\* was the trap is banned until it is enabled again, whatever other refreshes,
\* crashes and failed calls do meanwhile.
DisabledBansNobody == ~(event.step = "banned" /\ event.during)
=============================================================================
