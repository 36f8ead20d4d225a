---------------------------- MODULE MessageRows ----------------------------
(***************************************************************************)
(* One row of the table managed_messages and the statements the store      *)
(* runs on it (internal/messages/postgres).  Every operator maps a row to  *)
(* the row its UPDATE or INSERT leaves; its guard is the WHERE clause.     *)
(*                                                                         *)
(* Times are kept as the two comparisons the statements make: `due' is     *)
(* next_check_at <= now, and `lease' tells a lease that still protects the *)
(* row ("live") from one that has run out ("expired").  The guild and the  *)
(* channel of a row are one value, its channel: they are always written    *)
(* together.  The desired hash and the payload are one value, its content; *)
(* allowed mentions are not hashed, so two definitions may differ and      *)
(* still have the same content.  Failure counts, timestamps and the last   *)
(* error only set delays and reports and are left out.                     *)
(***************************************************************************)
EXTENDS Naturals

CONSTANTS
    Owners,       \* reconciling processes, named hostname:pid
    Channels,     \* assignable guild channels
    Contents,     \* payload hashes a client can ask for
    MaxMessages,  \* bound: messages Discord ever creates
    NoOwner,      \* lease_owner IS NULL
    NoChannel,    \* the row does not exist yet
    NoContent     \* observed_hash IS NULL

ASSUME MessageRowsAssumption ==
    /\ MaxMessages \in Nat
    /\ NoOwner \notin Owners
    /\ NoChannel \notin Channels
    /\ NoContent \notin Contents

\* A Discord message id; ids grow, as Discord's snowflakes do.
MessageIds == 1..MaxMessages

\* discord_message_id IS NULL.
NoMessage == 0

\* The content Discord shows when its answer differs from what was sent.
Mangled == "mangled"

Hashes == Contents \union {NoContent, Mangled}

States == {"pending", "healthy", "drifted", "repairing", "blocked", "archived"}

Row == [state    : States \union {"absent"},
        revision : Nat,
        channel  : Channels \union {NoChannel},
        content  : Contents \union {NoContent},
        message  : MessageIds \union {NoMessage},
        observed : Hashes,
        due      : BOOLEAN,
        owner    : Owners \union {NoOwner},
        lease    : {"none", "live", "expired"}]

AbsentRow ==
    [state |-> "absent", revision |-> 0, channel |-> NoChannel,
     content |-> NoContent, message |-> NoMessage, observed |-> NoContent,
     due |-> FALSE, owner |-> NoOwner, lease |-> "none"]

Exists(row) == row.state # "absent"

Archived(row) == row.state = "archived"

-----------------------------------------------------------------------------
(* Mutations by clients.                                                   *)

\* INSERT: the column defaults make the row pending, at revision 1 and due.
InsertedRow(channel, content) ==
    [AbsentRow EXCEPT !.state = "pending", !.revision = 1, !.due = TRUE,
                      !.channel = channel, !.content = content]

\* Replace with its CASE on the channel dropped, or its revision left alone.
ReplacedKeepingMessage(row, channel, content) ==
    [AbsentRow EXCEPT
        !.state = "pending", !.revision = row.revision + 1, !.due = TRUE,
        !.channel = channel, !.content = content, !.message = row.message]

\* Replace of a changed definition: the remote id only survives in its channel.
ReplacedRow(row, channel, content) ==
    [state    |-> "pending",
     revision |-> row.revision + 1,
     channel  |-> channel,
     content  |-> content,
     message  |-> IF channel = row.channel THEN row.message ELSE NoMessage,
     observed |-> NoContent,
     due      |-> TRUE,
     owner    |-> NoOwner,
     lease    |-> "none"]

\* An archive that leaves the lease with its owner.
ArchivedKeepingLease(row) == [row EXCEPT !.state = "archived", !.revision = @ + 1]

\* Archive: the revision moves on, so that no claimed job can write the row.
ArchivedRow(row) ==
    [row EXCEPT !.state = "archived", !.revision = @ + 1,
                !.owner = NoOwner, !.lease = "none"]

\* MarkDue's WHERE: any row that is not archived, leased or not.
Markable(row) == Exists(row) /\ ~Archived(row)

\* MarkDue leaves the lease and the revision alone.
MarkedRow(row) == [row EXCEPT !.state = "pending", !.due = TRUE]

-----------------------------------------------------------------------------
(* Statements of the reconciler.                                           *)

\* A claim that would also wait for the owner to give its lease back.
ClaimableWhenUnleased(row) ==
    /\ row.state \notin {"absent", "archived", "blocked"}
    /\ row.due
    /\ row.lease = "none"

\* ClaimDue's WHERE.
Claimable(row) ==
    /\ row.state \notin {"absent", "archived", "blocked"}
    /\ row.due
    /\ row.lease # "live"

\* next_check_at is left alone: a row whose lease runs out is due again.
ClaimedRow(row, owner) ==
    [row EXCEPT !.state = "repairing", !.owner = owner, !.lease = "live"]

\* A WHERE that only names the row.
Unfenced(row, owner, revision) == TRUE

\* The WHERE of Complete and Release.  The lease's end is not looked at.
Held(row, owner, revision) ==
    /\ row.owner = owner
    /\ row.revision = revision

\* Complete: healthy, to be checked again in five minutes.
CompletedRow(row, message, hash) ==
    [row EXCEPT !.state = "healthy", !.due = FALSE,
                !.message = message, !.observed = hash,
                !.owner = NoOwner, !.lease = "none"]

\* Release: COALESCE keeps the known id and hash when the attempt saw none.
ReleasedRow(row, state, message, hash) ==
    [row EXCEPT
        !.state = state, !.due = FALSE,
        !.message = IF message = NoMessage THEN @ ELSE message,
        !.observed = IF hash = NoContent THEN @ ELSE hash,
        !.owner = NoOwner, !.lease = "none"]
=============================================================================
