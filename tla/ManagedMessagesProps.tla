----------------------- MODULE ManagedMessagesProps -----------------------
(***************************************************************************)
(* What managed messages promise, stated over the model of the code.       *)
(***************************************************************************)
EXTENDS ManagedMessages

\* A healthy row names a message, has observed exactly the content it desires,
\* and is leased to nobody: no interleaving of a client's mutation with a job
\* under way, of any owner, leaves the verdict of an older revision on a newer
\* definition (Complete and Release, claims.go).
HealthyIsVerified ==
    \A k \in Keys :
        rows[k].state = "healthy" =>
            /\ rows[k].message # NoMessage
            /\ rows[k].observed = rows[k].content
            /\ rows[k].lease = "none"

\* Message m, if any, was created for row k in the given channel.
Belongs(m, k, channel) ==
    m # NoMessage =>
        /\ discord[m].status # "unused"
        /\ discord[m].key = k
        /\ discord[m].channel = channel

\* The id a row stores is a message that was created for that very row and
\* stands in the channel the row is assigned to now: a job that started before
\* a move never brings back an id of the old channel, and no two rows share one.
RowOwnsItsMessage ==
    \A k \in Keys : Belongs(rows[k].message, k, rows[k].channel)

\* cleanupStaleCreate never deletes the message some row points to: the id it
\* remembers from before the conflict is still nobody's when Delete is called.
CleanupSparesStored ==
    \A p \in Owners, k \in Keys :
        jobs[p][k].step = "cleanup" =>
            \A other \in Keys : rows[other].message # jobs[p][k].found

\* Job j of row k has message m in its hands and will store or delete it.
InHand(k, m) ==
    \E p \in Owners :
        /\ jobs[p][k].step \in {"complete", "release", "cleanup"}
        /\ jobs[p][k].found = m

\* While no fault has happened, every message standing in the channel of a row
\* that has changed once at most is stored in the row or is about to be stored or
\* deleted: neither a revision conflict nor a lease that ran out leaves a second
\* copy there.  (A move leaves the old channel's message where it is, and a row
\* that moves back does not find it again: ReplacedRow.)
OrphansNeedFaults ==
    faults = MaxFaults =>
        \A m \in MessageIds :
            LET row == rows[discord[m].key] IN
            Live(m) /\ discord[m].channel = row.channel /\ row.revision <= 2 =>
                row.message = m \/ InHand(discord[m].key, m)

\* An archived row never changes again, whatever job was under way on it.
ArchivedIsFinal ==
    [][\A k \in Keys : Archived(rows[k]) => rows'[k] = rows[k]]_vars

\* The definition of a row changes exactly when its revision goes up by one, and
\* a client that holds the current revision therefore holds the definition.
RevisionTracksDefinition ==
    [][\A k \in Keys :
        \/ rows'[k].revision = rows[k].revision + 1
        \/ /\ rows'[k].revision = rows[k].revision
           /\ rows'[k].channel = rows[k].channel
           /\ rows'[k].content = rows[k].content]_vars

\* Discord shows in the assigned channel what the row desires, under its id.
Shown(k) ==
    /\ Live(rows[k].message)
    /\ discord[rows[k].message].channel = rows[k].channel
    /\ discord[rows[k].message].content = rows[k].content

\* However calls fail, processes die and clients interfere, once they stop
\* Discord comes to show every row that is neither archived nor blocked, and
\* keeps showing it: no lease, no lost answer and no lost message is final.
Converges ==
    \A k \in Keys :
        <>[](\/ rows[k].state \in {"absent", "archived", "blocked"}
             \/ Shown(k))

\* A row under repair does not stay so: the lease of a dead or cancelled job is
\* claimed again (ports.go: LeaseDuration controls crash recovery).
RepairEnds ==
    \A k \in Keys : rows[k].state = "repairing" ~> rows[k].state # "repairing"

\* model.go: "StateBlocked requires intervention or delayed retry".  Release
\* gives a blocked row a next check in thirty minutes; is it ever retried?
BlockedIsRetried ==
    \A k \in Keys : rows[k].state = "blocked" ~> rows[k].state # "blocked"

-----------------------------------------------------------------------------
(* The contract, and how its state is read off the rows.                   *)

PhaseOf(row) ==
    CASE row.state = "absent"   -> "undefined"
      [] row.state = "archived" -> "archived"
      [] OTHER                  -> "active"

PromiseOf(row) ==
    [phase |-> PhaseOf(row), revision |-> row.revision, channel |-> row.channel,
     content |-> row.content, message |-> row.message,
     verified |-> row.state = "healthy"]

NoHome == [key |-> NoOwner, channel |-> NoChannel]

HomeOf(remote) == IF remote.status = "unused" THEN NoHome
                  ELSE [key |-> remote.key, channel |-> remote.channel]

Contract == INSTANCE MessageContract WITH
    promise <- [k \in Keys |-> PromiseOf(rows[k])],
    home    <- [m \in MessageIds |-> HomeOf(discord[m])]

\* Processes, leases and faults implement the contract of MessageContract: in
\* particular a row is reported healthy, or given an id, only for a message that
\* was created for it in the channel of its present definition, by one step
\* that changes nothing else.
ImplementsContract == Contract!Spec

-----------------------------------------------------------------------------
(* The inductive invariant behind the safety properties.                   *)

\* A job's copy of its row is of a revision the row has had; while the revision
\* is the row's own, the copy is the row's definition.
CopyIsPast(p, k) ==
    LET job == jobs[p][k] IN
    job.step # "idle" =>
        /\ job.revision > 0
        /\ job.revision <= rows[k].revision
        /\ job.revision = rows[k].revision =>
               job.channel = rows[k].channel /\ job.content = rows[k].content

\* The ids a job carries are of its row and its own channel, and the steps that
\* use an id or a verified content have one.
JobIsSound(p, k) ==
    LET job == jobs[p][k] IN
    /\ Belongs(job.message, k, job.channel)
    /\ Belongs(job.found, k, job.channel)
    /\ job.step \in {"fetch", "replace"} => job.message # NoMessage
    /\ job.step \in {"complete", "cleanup"} => job.found # NoMessage
    /\ job.step = "complete" => job.hash = job.content

\* Who holds a row, by its state.
RowIsSound(k) ==
    /\ rows[k].state = "absent" <=> rows[k].revision = 0
    /\ rows[k].state = "absent" => rows[k] = AbsentRow
    /\ rows[k].state \in {"archived", "absent"} => rows[k].owner = NoOwner
    /\ rows[k].owner = NoOwner => rows[k].lease = "none"

\* Ids are handed out in order.
IdsAreFresh ==
    \A m \in MessageIds : m > created <=> discord[m].status = "unused"

IInv ==
    /\ TypeOK
    /\ HealthyIsVerified
    /\ RowOwnsItsMessage
    /\ IdsAreFresh
    /\ \A k \in Keys : RowIsSound(k)
    /\ \A p \in Owners, k \in Keys : CopyIsPast(p, k) /\ JobIsSound(p, k)

\* While a job works for a row that had no id when it was claimed the row has
\* none, as nobody else stores one; and only such a job comes to a cleanup.
StoresFirst(p, k) ==
    /\ ~At(p, k, "idle") /\ jobs[p][k].message = NoMessage =>
           rows[k].message = NoMessage
    /\ At(p, k, "cleanup") => jobs[p][k].message = NoMessage

\* The nonce of a message is of a revision its row has had; while the revision is
\* the row's own, the message stands in the row's channel.
NonceIsPast(m) ==
    LET remote == discord[m] IN
    remote.status # "unused" =>
        /\ remote.key \in Keys
        /\ remote.revision > 0
        /\ remote.revision <= rows[remote.key].revision
        /\ remote.revision = rows[remote.key].revision =>
               remote.channel = rows[remote.key].channel

\* Until a fault happens what the row and its job know of is there, so that a job
\* that was claimed with an id creates nothing.
NothingIsLost(p, k) ==
    LET job == jobs[p][k] IN
    /\ rows[k].message # NoMessage => Live(rows[k].message)
    /\ job.step # "idle" /\ job.message # NoMessage =>
           Live(job.message) /\ job.step # "create"
    /\ job.step \in {"complete", "release", "cleanup"} /\ job.found # NoMessage =>
           Live(job.found)

\* What stands in the channel of row k is stored in the row, or the job that made
\* it has yet to store or delete it.
IsAccountedFor(p, m) ==
    LET k == discord[m].key
        job == jobs[p][k]
    IN
    Live(m) /\ discord[m].channel = rows[k].channel /\ rows[k].revision <= 2 =>
        \/ rows[k].message = m
        \/ /\ job.step \in {"complete", "release", "cleanup"}
           /\ job.found = m /\ job.message = NoMessage

Faultless(p) ==
    /\ \A k \in Keys : NothingIsLost(p, k)
    /\ \A m \in MessageIds : IsAccountedFor(p, m)

\* The inductive invariant of a single process.
SingleInv(p) ==
    /\ \A k \in Keys : StoresFirst(p, k)
    /\ \A m \in MessageIds : NonceIsPast(m)
    /\ faults = MaxFaults => Faultless(p)
=============================================================================
