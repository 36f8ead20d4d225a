-------------------------- MODULE ManagedMessages --------------------------
(***************************************************************************)
(* Managed messages: rows of desired state in PostgreSQL, the Discord      *)
(* messages that show them, the clients that change the rows and the       *)
(* reconciling processes that repair Discord (internal/messages).          *)
(*                                                                         *)
(* A reconciling process claims a batch of due rows, copies each into a    *)
(* job and takes every job through separate calls to Discord and to the    *)
(* database; between two calls anything else may happen.  Discord is       *)
(* external: it stores messages, deduplicates a creation by its nonce for  *)
(* a while, and may lose a message to a moderator.                         *)
(***************************************************************************)
EXTENDS MessageRows, FiniteSets

CONSTANTS
    Keys,         \* message keys
    BatchLimit,   \* rows one claim may lease
    Workers,      \* jobs of one batch that run at once
    Faults,       \* kinds of faults this environment produces
    MaxFaults,    \* bound: how many of them
    MaxRevision   \* bound: revisions of a row

FaultKinds ==
    { "call",     \* a Discord call fails and has no effect
      "lost",     \* a Discord call takes effect and its answer is lost
      "mangle",   \* Discord stores something else than was sent
      "cleanup",  \* the deletion of a stale message fails
      "external", \* a moderator deletes a message
      "db",       \* the final statement of a job fails
      "crash" }   \* a process dies, or is cancelled, with jobs under way

ASSUME ManagedMessagesAssumption ==
    /\ BatchLimit \in Nat /\ Workers \in Nat
    /\ MaxFaults \in Nat /\ MaxRevision \in Nat \ {0}
    /\ Faults \subseteq FaultKinds

VARIABLES
    rows,     \* the table managed_messages
    jobs,     \* jobs[p][k]: what process p is doing with its copy of row k
    discord,  \* the messages Discord holds, by id
    created,  \* how many messages Discord has created
    faults    \* faults left

vars == <<rows, jobs, discord, created, faults>>

Steps == {"idle", "queued", "fetch", "create", "replace",
          "complete", "release", "cleanup"}

\* A claimed record, and what its worker has observed so far.
Job == [step     : Steps,
        revision : Nat,
        channel  : Channels \union {NoChannel},
        content  : Contents \union {NoContent},
        message  : MessageIds \union {NoMessage},  \* the id when claimed
        found    : MessageIds \union {NoMessage},  \* the id observed
        hash     : Hashes,                         \* its content
        verdict  : {"drifted", "blocked"}]         \* the state of a release

IdleJob == [step |-> "idle", revision |-> 0, channel |-> NoChannel,
            content |-> NoContent, message |-> NoMessage,
            found |-> NoMessage, hash |-> NoContent, verdict |-> "drifted"]

\* key and revision stand for the nonce, a digest of row, revision and channel.
Remote == [status   : {"unused", "live", "deleted"},
           channel  : Channels \union {NoChannel},
           content  : Hashes,
           key      : Keys \union {NoOwner},
           revision : Nat,
           fresh    : BOOLEAN]  \* Discord still remembers the nonce

UnusedRemote == [status |-> "unused", channel |-> NoChannel,
                 content |-> NoContent, key |-> NoOwner,
                 revision |-> 0, fresh |-> FALSE]

TypeOK ==
    /\ rows \in [Keys -> Row]
    /\ jobs \in [Owners -> [Keys -> Job]]
    /\ discord \in [MessageIds -> Remote]
    /\ created \in 0..MaxMessages
    /\ faults \in 0..MaxFaults

Init ==
    /\ rows = [k \in Keys |-> AbsentRow]
    /\ jobs = [p \in Owners |-> [k \in Keys |-> IdleJob]]
    /\ discord = [m \in MessageIds |-> UnusedRemote]
    /\ created = 0
    /\ faults = MaxFaults

-----------------------------------------------------------------------------
(* Helpers.                                                                *)

SetRow(k, row) == rows' = [rows EXCEPT ![k] = row]

SetJob(p, k, job) == jobs' = [jobs EXCEPT ![p][k] = job]

At(p, k, step) == jobs[p][k].step = step

Fault(kind) ==
    /\ kind \in Faults
    /\ faults > 0
    /\ faults' = faults - 1

Live(m) == m # NoMessage /\ discord[m].status = "live"

\* The call failed: the job is released with the state its error stands for.
Failed(p, k, verdict) ==
    SetJob(p, k, [jobs[p][k] EXCEPT !.step = "release", !.verdict = verdict])

\* Any answer taken for the content asked for.
ObservedUnverified(p, k, m, hash) ==
    SetJob(p, k, [jobs[p][k] EXCEPT
        !.found = m, !.hash = hash, !.verdict = "drifted", !.step = "complete"])

\* The job has seen message m: complete it if m shows what is desired, else
\* release it as drifted, keeping the id.
Observed(p, k, m, hash) ==
    SetJob(p, k, [jobs[p][k] EXCEPT
        !.found = m, !.hash = hash, !.verdict = "drifted",
        !.step = IF hash = jobs[p][k].content THEN "complete" ELSE "release"])

-----------------------------------------------------------------------------
(* Clients.  A mutation whose revision is stale, or whose definition does  *)
(* not change, leaves the row as it is and is not a step.                  *)

CreateMessage(k, channel, content) ==
    /\ ~Exists(rows[k])
    /\ SetRow(k, InsertedRow(channel, content))
    /\ UNCHANGED <<jobs, discord, created, faults>>

ReplaceMessage(k, channel, content) ==
    /\ Markable(rows[k])
    /\ rows[k].revision < MaxRevision
    /\ SetRow(k, ReplacedRow(rows[k], channel, content))
    /\ UNCHANGED <<jobs, discord, created, faults>>

ArchiveMessage(k) ==
    /\ Markable(rows[k])
    /\ rows[k].revision < MaxRevision
    /\ SetRow(k, ArchivedRow(rows[k]))
    /\ UNCHANGED <<jobs, discord, created, faults>>

ReconcileMessage(k) ==
    /\ Markable(rows[k])
    /\ SetRow(k, MarkedRow(rows[k]))
    /\ UNCHANGED <<jobs, discord, created, faults>>

-----------------------------------------------------------------------------
(* Time.                                                                   *)

NextCheckElapses(k) ==
    /\ Markable(rows[k])
    /\ ~rows[k].due
    /\ SetRow(k, [rows[k] EXCEPT !.due = TRUE])
    /\ UNCHANGED <<jobs, discord, created, faults>>

LeaseExpires(k) ==
    /\ rows[k].lease = "live"
    /\ SetRow(k, [rows[k] EXCEPT !.lease = "expired"])
    /\ UNCHANGED <<jobs, discord, created, faults>>

NonceForgotten(m) ==
    /\ discord[m].fresh
    /\ discord' = [discord EXCEPT ![m].fresh = FALSE]
    /\ UNCHANGED <<rows, jobs, created, faults>>

-----------------------------------------------------------------------------
(* A reconciling process.                                                  *)

IdleProcess(p) == \A k \in Keys : At(p, k, "idle")

Due == {k \in Keys : Claimable(rows[k])}

Batches ==
    {batch \in SUBSET Due :
        Cardinality(batch) = IF Cardinality(Due) < BatchLimit
                             THEN Cardinality(Due) ELSE BatchLimit}

ClaimedJob(row) ==
    [IdleJob EXCEPT !.step = "queued", !.revision = row.revision,
                    !.channel = row.channel, !.content = row.content,
                    !.message = row.message]

\* ReconcileDue while the run lock is free: a batch holds it until its last
\* job has ended.  The cron job and the signal both come here.
ClaimDue(p) ==
    /\ IdleProcess(p)
    /\ \E batch \in Batches :
        /\ batch # {}
        /\ rows' = [k \in Keys |-> IF k \in batch THEN ClaimedRow(rows[k], p)
                                                  ELSE rows[k]]
        /\ jobs' = [jobs EXCEPT ![p] =
                        [k \in Keys |-> IF k \in batch THEN ClaimedJob(rows[k])
                                                       ELSE @[k]]]
    /\ UNCHANGED <<discord, created, faults>>

Busy(p) == {k \in Keys : jobs[p][k].step \notin {"idle", "queued"}}

\* A free worker takes the job and ValidateAssignment finds the channel.
StartJob(p, k) ==
    /\ At(p, k, "queued")
    /\ Cardinality(Busy(p)) < Workers
    /\ SetJob(p, k, [jobs[p][k] EXCEPT
            !.step = IF jobs[p][k].message = NoMessage THEN "create" ELSE "fetch"])
    /\ UNCHANGED <<rows, discord, created, faults>>

\* ValidateAssignment fails: unknown channel or forbidden, or a passing error.
AssignmentRefused(p, k) ==
    /\ At(p, k, "queued")
    /\ Cardinality(Busy(p)) < Workers
    /\ Fault("call")
    /\ \E verdict \in {"drifted", "blocked"} : Failed(p, k, verdict)
    /\ UNCHANGED <<rows, discord, created>>

\* A remote message that exists taken for the right one.
FetchTrusting(p, k) ==
    LET job == jobs[p][k] IN
    /\ At(p, k, "fetch")
    /\ IF Live(job.message) THEN Observed(p, k, job.message, job.content)
                            ELSE SetJob(p, k, [job EXCEPT !.step = "create"])
    /\ UNCHANGED <<rows, discord, created, faults>>

\* ensure: read the remote message; a missing one is created again.
FetchRemote(p, k) ==
    LET job == jobs[p][k] IN
    /\ At(p, k, "fetch")
    /\ \/ /\ ~Live(job.message)
          /\ SetJob(p, k, [job EXCEPT !.step = "create"])
       \/ /\ Live(job.message)
          /\ discord[job.message].content # job.content
          /\ SetJob(p, k, [job EXCEPT !.step = "replace"])
       \/ /\ Live(job.message)
          /\ discord[job.message].content = job.content
          /\ Observed(p, k, job.message, job.content)
    /\ UNCHANGED <<rows, discord, created, faults>>

FetchFails(p, k) ==
    /\ At(p, k, "fetch")
    /\ Fault("call")
    /\ \E verdict \in {"drifted", "blocked"} : Failed(p, k, verdict)
    /\ UNCHANGED <<rows, discord, created>>

\* The message Discord returns instead of a new one: same nonce, not forgotten.
Duplicate(job, k, m) ==
    /\ Live(m)
    /\ discord[m].fresh
    /\ discord[m].key = k
    /\ discord[m].revision = job.revision
    /\ discord[m].channel = job.channel

\* Discord creates the next message.
Creates(job, k, content) ==
    /\ ~ \E m \in MessageIds : Duplicate(job, k, m)
    /\ created < MaxMessages
    /\ created' = created + 1
    /\ discord' = [discord EXCEPT ![created + 1] =
           [status |-> "live", channel |-> job.channel, content |-> content,
            key |-> k, revision |-> job.revision, fresh |-> TRUE]]

CreateRemote(p, k) ==
    LET job == jobs[p][k] IN
    /\ At(p, k, "create")
    /\ \/ /\ \E m \in MessageIds :
               /\ Duplicate(job, k, m)
               /\ Observed(p, k, m, discord[m].content)
          /\ UNCHANGED <<discord, created, faults>>
       \/ /\ Creates(job, k, job.content)
          /\ Observed(p, k, created + 1, job.content)
          /\ UNCHANGED faults
       \/ /\ Fault("mangle")
          /\ Creates(job, k, Mangled)
          /\ Observed(p, k, created + 1, Mangled)
    /\ UNCHANGED rows

\* Refused outright, or failed with no telling what Discord did (ambiguous:
\* blocked; an answer that cannot be decoded: drifted).  The id is not kept.
CreateFails(p, k) ==
    /\ At(p, k, "create")
    /\ \/ Fault("call") /\ UNCHANGED <<discord, created>>
       \/ Fault("lost") /\ Creates(jobs[p][k], k, jobs[p][k].content)
    /\ \E verdict \in {"drifted", "blocked"} : Failed(p, k, verdict)
    /\ UNCHANGED rows

Edits(m, content) ==
    /\ Live(m)
    /\ discord' = [discord EXCEPT ![m].content = content]

\* The message may have gone since it was read: not found is then an error.
ReplaceRemote(p, k) ==
    LET job == jobs[p][k] IN
    /\ At(p, k, "replace")
    /\ \/ /\ Edits(job.message, job.content)
          /\ Observed(p, k, job.message, job.content)
          /\ UNCHANGED faults
       \/ /\ Fault("mangle")
          /\ Edits(job.message, Mangled)
          /\ Observed(p, k, job.message, Mangled)
       \/ /\ ~Live(job.message)
          /\ Failed(p, k, "drifted")
          /\ UNCHANGED <<discord, faults>>
    /\ UNCHANGED <<rows, created>>

ReplaceFails(p, k) ==
    /\ At(p, k, "replace")
    /\ \/ Fault("call") /\ UNCHANGED discord
       \/ Fault("lost") /\ Edits(jobs[p][k].message, jobs[p][k].content)
    /\ \E verdict \in {"drifted", "blocked"} : Failed(p, k, verdict)
    /\ UNCHANGED <<rows, created>>

\* A cleanup of any message found, and no cleanup at all.
StaleCleanupAlways(job) == job.found # NoMessage

StaleCleanupNever(job) == FALSE

\* cleanupStaleCreate's conditions, after a conflict: the record was claimed
\* without an id and the job has found one.
StaleCreate(job) == job.message = NoMessage /\ job.found # NoMessage

\* A job whose final statement matched no row (ErrConflict).
Conflicted(p, k) ==
    /\ SetJob(p, k, IF StaleCreate(jobs[p][k])
                    THEN [jobs[p][k] EXCEPT !.step = "cleanup"] ELSE IdleJob)
    /\ UNCHANGED rows

Complete(p, k) ==
    LET job == jobs[p][k] IN
    /\ At(p, k, "complete")
    /\ \/ /\ Held(rows[k], p, job.revision)
          /\ SetRow(k, CompletedRow(rows[k], job.found, job.hash))
          /\ SetJob(p, k, IdleJob)
       \/ /\ ~Held(rows[k], p, job.revision)
          /\ Conflicted(p, k)
    /\ UNCHANGED <<discord, created, faults>>

ReleaseRow(p, k) ==
    LET job == jobs[p][k] IN
    /\ At(p, k, "release")
    /\ \/ /\ Held(rows[k], p, job.revision)
          /\ SetRow(k, ReleasedRow(rows[k], job.verdict, job.found, job.hash))
          /\ SetJob(p, k, IdleJob)
       \/ /\ ~Held(rows[k], p, job.revision)
          /\ Conflicted(p, k)
    /\ UNCHANGED <<discord, created, faults>>

\* The final statement fails for another reason: the lease stays.
StatementFails(p, k) ==
    /\ jobs[p][k].step \in {"complete", "release"}
    /\ Fault("db")
    /\ SetJob(p, k, IdleJob)
    /\ UNCHANGED <<rows, discord, created>>

\* Delete the message of a stale creation; not found counts as deleted.
CleanupStaleCreate(p, k) ==
    /\ At(p, k, "cleanup")
    /\ discord' = [discord EXCEPT ![jobs[p][k].found].status = "deleted"]
    /\ SetJob(p, k, IdleJob)
    /\ UNCHANGED <<rows, created, faults>>

CleanupFails(p, k) ==
    /\ At(p, k, "cleanup")
    /\ Fault("cleanup")
    /\ SetJob(p, k, IdleJob)
    /\ UNCHANGED <<rows, discord, created>>

-----------------------------------------------------------------------------
(* The environment.                                                        *)

\* The process dies, or its context is cancelled: every call of its jobs fails
\* from here on and the leases stay.
Crash(p) ==
    /\ ~IdleProcess(p)
    /\ Fault("crash")
    /\ jobs' = [jobs EXCEPT ![p] = [k \in Keys |-> IdleJob]]
    /\ UNCHANGED <<rows, discord, created>>

MessageDeleted(m) ==
    /\ Live(m)
    /\ Fault("external")
    /\ discord' = [discord EXCEPT ![m].status = "deleted"]
    /\ UNCHANGED <<rows, jobs, created>>

-----------------------------------------------------------------------------

Client(k) ==
    \/ \E channel \in Channels, content \in Contents :
        \/ CreateMessage(k, channel, content)
        \/ ReplaceMessage(k, channel, content)
    \/ ArchiveMessage(k)
    \/ ReconcileMessage(k)

JobStep(p, k) ==
    \/ StartJob(p, k)
    \/ FetchRemote(p, k)
    \/ CreateRemote(p, k)
    \/ ReplaceRemote(p, k)
    \/ Complete(p, k)
    \/ ReleaseRow(p, k)
    \/ CleanupStaleCreate(p, k)

JobFault(p, k) ==
    \/ AssignmentRefused(p, k)
    \/ FetchFails(p, k)
    \/ CreateFails(p, k)
    \/ ReplaceFails(p, k)
    \/ StatementFails(p, k)
    \/ CleanupFails(p, k)

Next ==
    \/ \E k \in Keys : Client(k) \/ NextCheckElapses(k) \/ LeaseExpires(k)
    \/ \E p \in Owners : ClaimDue(p) \/ Crash(p)
    \/ \E p \in Owners, k \in Keys : JobStep(p, k) \/ JobFault(p, k)
    \/ \E m \in MessageIds : NonceForgotten(m) \/ MessageDeleted(m)

\* The cron job claims every minute, goroutines run and their calls return, and
\* clocks move on.  Nothing is assumed of clients, faults or Discord's memory.
Fairness ==
    /\ \A p \in Owners : WF_vars(ClaimDue(p))
    /\ \A p \in Owners, k \in Keys : WF_vars(JobStep(p, k))
    /\ \A k \in Keys : WF_vars(NextCheckElapses(k)) /\ WF_vars(LeaseExpires(k))

Spec == Init /\ [][Next]_vars

FairSpec == Spec /\ Fairness
=============================================================================
