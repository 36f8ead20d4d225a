----------------------- MODULE ManagedMessagesProofs -----------------------
(***************************************************************************)
(* Proofs about ManagedMessages, for every set of owners, keys, channels   *)
(* and contents, every fault and every bound: its invariants, and that it  *)
(* implements MessageContract.                                             *)
(***************************************************************************)
EXTENDS ManagedMessagesProps, TLAPS

-----------------------------------------------------------------------------
(* What the statements of the store return.                                *)

LEMMA AbsentRowType == AbsentRow \in Row
  BY DEF AbsentRow, Row, Hashes

LEMMA InsertedRowType ==
    ASSUME NEW channel \in Channels, NEW content \in Contents
    PROVE  InsertedRow(channel, content) \in Row
  BY AbsentRowType DEF InsertedRow, Row, States

LEMMA ReplacedRowType ==
    ASSUME NEW row \in Row, NEW channel \in Channels, NEW content \in Contents
    PROVE  ReplacedRow(row, channel, content) \in Row
  <1>1. (IF channel = row.channel THEN row.message ELSE NoMessage)
           \in MessageIds \union {NoMessage}
    BY DEF Row
  <1>2. row.revision + 1 \in Nat
    BY DEF Row
  <1>3. QED
    BY <1>1, <1>2 DEF ReplacedRow, Row, Hashes, States

LEMMA ArchivedRowType ==
    ASSUME NEW row \in Row
    PROVE  ArchivedRow(row) \in Row
  <1>1. row.revision + 1 \in Nat
    BY DEF Row
  <1>2. QED
    BY <1>1 DEF ArchivedRow, Row, States

LEMMA MarkedRowType ==
    ASSUME NEW row \in Row
    PROVE  /\ MarkedRow(row) \in Row
           /\ [row EXCEPT !.due = TRUE] \in Row
           /\ [row EXCEPT !.lease = "expired"] \in Row
  BY DEF MarkedRow, Row, States

LEMMA ClaimedRowType ==
    ASSUME NEW row \in Row, NEW p \in Owners
    PROVE  ClaimedRow(row, p) \in Row
  BY DEF ClaimedRow, Row, States

LEMMA CompletedRowType ==
    ASSUME NEW row \in Row, NEW m \in MessageIds \union {NoMessage}, NEW hash \in Hashes
    PROVE  CompletedRow(row, m, hash) \in Row
  BY DEF CompletedRow, Row, States

LEMMA ReleasedRowType ==
    ASSUME NEW row \in Row, NEW state \in {"drifted", "blocked"},
           NEW m \in MessageIds \union {NoMessage}, NEW hash \in Hashes
    PROVE  ReleasedRow(row, state, m, hash) \in Row
  <1> DEFINE id == IF m = NoMessage THEN row.message ELSE m
             seen == IF hash = NoContent THEN row.observed ELSE hash
  <1>1. id \in MessageIds \union {NoMessage} /\ seen \in Hashes
    BY DEF Row
  <1>2. state \in States
    BY DEF States
  <1> HIDE DEF id, seen
  <1>3. [row EXCEPT !.state = state, !.due = FALSE,
                    !.message = id, !.observed = seen,
                    !.owner = NoOwner, !.lease = "none"] \in Row
    BY <1>1, <1>2 DEF Row
  <1>4. QED
    BY <1>3 DEF ReleasedRow, id, seen

LEMMA SetRowType ==
    ASSUME TypeOK, NEW k \in Keys, NEW row \in Row, SetRow(k, row)
    PROVE  rows' \in [Keys -> Row]
  BY DEF TypeOK, SetRow

LEMMA SetJobType ==
    ASSUME TypeOK, NEW p \in Owners, NEW k \in Keys, NEW job \in Job,
           SetJob(p, k, job)
    PROVE  jobs' \in [Owners -> [Keys -> Job]]
  BY DEF TypeOK, SetJob

LEMMA IdleJobType == IdleJob \in Job
  BY DEF IdleJob, Job, Steps, Hashes

LEMMA JobType ==
    ASSUME TypeOK, NEW p \in Owners, NEW k \in Keys
    PROVE  jobs[p][k] \in Job
  BY DEF TypeOK

LEMMA JobRowType ==
    ASSUME TypeOK, NEW k \in Keys
    PROVE  rows[k] \in Row
  BY DEF TypeOK

LEMMA StepType ==
    ASSUME NEW job \in Job, NEW step \in Steps
    PROVE  [job EXCEPT !.step = step] \in Job
  BY DEF Job

LEMMA FailedType ==
    ASSUME TypeOK, NEW p \in Owners, NEW k \in Keys,
           NEW verdict \in {"drifted", "blocked"}, Failed(p, k, verdict)
    PROVE  jobs' \in [Owners -> [Keys -> Job]]
  <1>1. \A job \in Job : [job EXCEPT !.step = "release", !.verdict = verdict] \in Job
    BY DEF Job, Steps
  <1>2. QED
    BY <1>1, JobType, SetJobType DEF Failed

LEMMA ObservedType ==
    ASSUME TypeOK, NEW p \in Owners, NEW k \in Keys, NEW m \in MessageIds,
           NEW hash \in Hashes, Observed(p, k, m, hash)
    PROVE  jobs' \in [Owners -> [Keys -> Job]]
  <1> DEFINE step == IF hash = jobs[p][k].content THEN "complete" ELSE "release"
  <1>1. step \in Steps
    BY DEF Steps
  <1> HIDE DEF step
  <1>2. \A job \in Job :
            [job EXCEPT !.found = m, !.hash = hash, !.verdict = "drifted",
                        !.step = step] \in Job
    BY <1>1 DEF Job
  <1>3. QED
    BY <1>2, JobType, SetJobType DEF Observed, step

LEMMA ConflictedType ==
    ASSUME TypeOK, NEW p \in Owners, NEW k \in Keys, Conflicted(p, k)
    PROVE  jobs' \in [Owners -> [Keys -> Job]]
  <1>1. CASE StaleCreate(jobs[p][k])
    <2>1. SetJob(p, k, [jobs[p][k] EXCEPT !.step = "cleanup"])
      BY <1>1 DEF Conflicted
    <2>2. "cleanup" \in Steps
      BY DEF Steps
    <2>3. QED
      BY <2>1, <2>2, JobType, StepType, SetJobType
  <1>2. CASE ~StaleCreate(jobs[p][k])
    BY <1>2, IdleJobType, SetJobType DEF Conflicted
  <1>3. QED
    BY <1>1, <1>2

LEMMA RemoteType ==
    ASSUME TypeOK, NEW m \in MessageIds \union {NoMessage}, Live(m)
    PROVE  m \in MessageIds /\ discord[m] \in Remote /\ discord[m].content \in Hashes
  BY DEF TypeOK, Live, Remote

LEMMA JobHash ==
    ASSUME TypeOK, NEW p \in Owners, NEW k \in Keys
    PROVE  jobs[p][k].content \in Hashes /\ Mangled \in Hashes
  BY JobType DEF Job, Hashes

LEMMA CreatesType ==
    ASSUME TypeOK, NEW p \in Owners, NEW k \in Keys, NEW content \in Hashes,
           Creates(jobs[p][k], k, content)
    PROVE  /\ discord' \in [MessageIds -> Remote]
           /\ created' \in 0..MaxMessages
           /\ created + 1 \in MessageIds
  <1>1. created + 1 \in MessageIds /\ created' \in 0..MaxMessages
    BY MessageRowsAssumption DEF TypeOK, Creates, MessageIds
  <1>2. jobs[p][k].channel \in Channels \union {NoChannel} /\ jobs[p][k].revision \in Nat
    BY JobType DEF Job
  <1>3. [status |-> "live", channel |-> jobs[p][k].channel, content |-> content,
         key |-> k, revision |-> jobs[p][k].revision, fresh |-> TRUE] \in Remote
    BY <1>2 DEF Remote
  <1>4. discord' \in [MessageIds -> Remote]
    BY <1>3 DEF TypeOK, Creates
  <1>5. QED
    BY <1>1, <1>4

LEMMA EditsType ==
    ASSUME TypeOK, NEW m, NEW content \in Hashes, Edits(m, content)
    PROVE  discord' \in [MessageIds -> Remote]
  <1>1. \A remote \in Remote : [remote EXCEPT !.content = content] \in Remote
    BY DEF Remote
  <1>2. QED
    BY <1>1 DEF TypeOK, Edits

LEMMA FaultType ==
    ASSUME TypeOK, NEW kind, Fault(kind)
    PROVE  faults' \in 0..MaxFaults
  BY ManagedMessagesAssumption DEF TypeOK, Fault

-----------------------------------------------------------------------------
(* Every action keeps the types.                                           *)

LEMMA ClientKeepsTypes ==
    ASSUME TypeOK, NEW k \in Keys,
           Client(k) \/ NextCheckElapses(k) \/ LeaseExpires(k)
    PROVE  TypeOK'
  <1>1. UNCHANGED <<jobs, discord, created, faults>>
    BY DEF Client, CreateMessage, ReplaceMessage, ArchiveMessage,
           ReconcileMessage, NextCheckElapses, LeaseExpires
  <1>2. rows' \in [Keys -> Row]
    <2>1. ASSUME NEW channel \in Channels, NEW content \in Contents,
                 \/ CreateMessage(k, channel, content)
                 \/ ReplaceMessage(k, channel, content)
          PROVE  rows' \in [Keys -> Row]
      <3>1. /\ InsertedRow(channel, content) \in Row
            /\ ReplacedRow(rows[k], channel, content) \in Row
        BY InsertedRowType, JobRowType, ReplacedRowType
      <3>2. QED
        BY <2>1, <3>1, SetRowType DEF CreateMessage, ReplaceMessage
    <2>2. CASE ArchiveMessage(k)
      BY <2>2, JobRowType, ArchivedRowType, SetRowType DEF ArchiveMessage
    <2>3. CASE ReconcileMessage(k)
      BY <2>3, JobRowType, MarkedRowType, SetRowType DEF ReconcileMessage
    <2>4. CASE NextCheckElapses(k)
      BY <2>4, JobRowType, MarkedRowType, SetRowType DEF NextCheckElapses
    <2>5. CASE LeaseExpires(k)
      BY <2>5, JobRowType, MarkedRowType, SetRowType DEF LeaseExpires
    <2>6. QED
      BY <2>1, <2>2, <2>3, <2>4, <2>5 DEF Client
  <1>3. QED
    BY <1>1, <1>2 DEF TypeOK

LEMMA ClaimKeepsTypes ==
    ASSUME TypeOK, NEW p \in Owners, ClaimDue(p) \/ Crash(p)
    PROVE  TypeOK'
  <1>1. CASE ClaimDue(p)
    <2>1. PICK batch \in Batches :
            /\ rows' = [k \in Keys |-> IF k \in batch THEN ClaimedRow(rows[k], p)
                                                      ELSE rows[k]]
            /\ jobs' = [jobs EXCEPT ![p] =
                            [k \in Keys |-> IF k \in batch THEN ClaimedJob(rows[k])
                                                           ELSE @[k]]]
      BY <1>1 DEF ClaimDue
    <2>2. \A k \in Keys : ClaimedRow(rows[k], p) \in Row /\ rows[k] \in Row
      BY JobRowType, ClaimedRowType
    <2>3. rows' \in [Keys -> Row]
      BY <2>1, <2>2
    <2>4. \A row \in Row : ClaimedJob(row) \in Job
      BY DEF ClaimedJob, IdleJob, Job, Row, Steps, Hashes
    <2>5. [k \in Keys |-> IF k \in batch THEN ClaimedJob(rows[k]) ELSE jobs[p][k]]
             \in [Keys -> Job]
      BY <2>2, <2>4, JobType
    <2>6. jobs' \in [Owners -> [Keys -> Job]]
      BY <2>1, <2>5 DEF TypeOK
    <2>7. QED
      BY <1>1, <2>3, <2>6 DEF ClaimDue, TypeOK
  <1>2. CASE Crash(p)
    BY <1>2, IdleJobType, FaultType DEF Crash, TypeOK
  <1>3. QED
    BY <1>1, <1>2

LEMMA DiscordKeepsTypes ==
    ASSUME TypeOK, NEW m \in MessageIds, NonceForgotten(m) \/ MessageDeleted(m)
    PROVE  TypeOK'
  <1>1. \A remote \in Remote : /\ [remote EXCEPT !.fresh = FALSE] \in Remote
                               /\ [remote EXCEPT !.status = "deleted"] \in Remote
    BY DEF Remote
  <1>2. CASE NonceForgotten(m)
    BY <1>1, <1>2 DEF NonceForgotten, TypeOK
  <1>3. CASE MessageDeleted(m)
    BY <1>1, <1>3, FaultType DEF MessageDeleted, TypeOK
  <1>4. QED
    BY <1>2, <1>3

LEMMA JobStepKeepsTypes ==
    ASSUME TypeOK, NEW p \in Owners, NEW k \in Keys, JobStep(p, k)
    PROVE  TypeOK'
  <1> DEFINE job == jobs[p][k]
  <1>a. /\ job \in Job /\ rows[k] \in Row
        /\ job.content \in Hashes /\ job.hash \in Hashes /\ Mangled \in Hashes
        /\ job.message \in MessageIds \union {NoMessage}
        /\ job.found \in MessageIds \union {NoMessage}
        /\ job.verdict \in {"drifted", "blocked"}
    BY JobType, JobRowType, JobHash DEF Job
  <1> HIDE DEF job
  <1>1. CASE StartJob(p, k)
    <2>1. (IF job.message = NoMessage THEN "create" ELSE "fetch") \in Steps
      BY DEF Steps
    <2>2. jobs' \in [Owners -> [Keys -> Job]]
      BY <1>1, <1>a, <2>1, StepType, SetJobType DEF StartJob, job
    <2>3. QED
      BY <1>1, <2>2 DEF StartJob, TypeOK
  <1>2. CASE FetchRemote(p, k)
    <2>1. "create" \in Steps /\ "replace" \in Steps
      BY DEF Steps
    <2>2. jobs' \in [Owners -> [Keys -> Job]]
      BY <1>2, <1>a, <2>1, StepType, SetJobType, ObservedType, RemoteType
         DEF FetchRemote, job
    <2>3. QED
      BY <1>2, <2>2 DEF FetchRemote, TypeOK
  <1>3. CASE CreateRemote(p, k)
    <2>1. CASE UNCHANGED <<discord, created, faults>>
      <3>1. PICK m \in MessageIds : Live(m) /\ Observed(p, k, m, discord[m].content)
        BY <1>3, <2>1 DEF CreateRemote, Duplicate, Creates, Fault, TypeOK
      <3>2. QED
        BY <1>3, <2>1, <3>1, RemoteType, ObservedType DEF CreateRemote, TypeOK
    <2>2. ASSUME NEW content \in Hashes, Creates(job, k, content),
                 Observed(p, k, created + 1, content),
                 UNCHANGED faults \/ Fault("mangle")
          PROVE  TypeOK'
      BY <1>3, <2>2, CreatesType, ObservedType, FaultType DEF CreateRemote, TypeOK, job
    <2>3. QED
      BY <1>3, <1>a, <2>1, <2>2 DEF CreateRemote, job
  <1>4. CASE ReplaceRemote(p, k)
    <2>1. ASSUME NEW content \in Hashes, Edits(job.message, content),
                 Observed(p, k, job.message, content),
                 UNCHANGED faults \/ Fault("mangle")
          PROVE  TypeOK'
      <3>1. job.message \in MessageIds
        BY <1>a, <2>1 DEF Edits, Live
      <3>2. QED
        BY <1>4, <2>1, <3>1, EditsType, ObservedType, FaultType
           DEF ReplaceRemote, TypeOK
    <2>2. CASE Failed(p, k, "drifted") /\ UNCHANGED <<discord, faults>>
      BY <1>4, <2>2, FailedType DEF ReplaceRemote, TypeOK
    <2>3. QED
      BY <1>4, <1>a, <2>1, <2>2 DEF ReplaceRemote, job
  <1>5. CASE Complete(p, k)
    BY <1>5, <1>a, CompletedRowType, SetRowType, SetJobType, IdleJobType,
       ConflictedType DEF Complete, Conflicted, TypeOK, job
  <1>6. CASE ReleaseRow(p, k)
    BY <1>6, <1>a, ReleasedRowType, SetRowType, SetJobType, IdleJobType,
       ConflictedType DEF ReleaseRow, Conflicted, TypeOK, job
  <1>7. CASE CleanupStaleCreate(p, k)
    <2>1. \A remote \in Remote : [remote EXCEPT !.status = "deleted"] \in Remote
      BY DEF Remote
    <2>2. discord' \in [MessageIds -> Remote]
      BY <1>7, <2>1 DEF CleanupStaleCreate, TypeOK
    <2>3. QED
      BY <1>7, <2>2, SetJobType, IdleJobType DEF CleanupStaleCreate, TypeOK
  <1>8. QED
    BY <1>1, <1>2, <1>3, <1>4, <1>5, <1>6, <1>7 DEF JobStep

LEMMA JobFaultKeepsTypes ==
    ASSUME TypeOK, NEW p \in Owners, NEW k \in Keys, JobFault(p, k)
    PROVE  TypeOK'
  <1>1. CASE AssignmentRefused(p, k) \/ FetchFails(p, k)
    BY <1>1, FailedType, FaultType DEF AssignmentRefused, FetchFails, TypeOK
  <1>2. CASE CreateFails(p, k)
    BY <1>2, FailedType, FaultType, CreatesType, JobHash DEF CreateFails, TypeOK
  <1>3. CASE ReplaceFails(p, k)
    BY <1>3, FailedType, FaultType, EditsType, JobHash DEF ReplaceFails, TypeOK
  <1>4. CASE StatementFails(p, k) \/ CleanupFails(p, k)
    BY <1>4, SetJobType, IdleJobType, FaultType DEF StatementFails, CleanupFails, TypeOK
  <1>5. QED
    BY <1>1, <1>2, <1>3, <1>4 DEF JobFault

LEMMA InitTypes == Init => TypeOK
  <1>1. UnusedRemote \in Remote
    BY DEF UnusedRemote, Remote, Hashes
  <1>2. QED
    BY <1>1, AbsentRowType, IdleJobType, MessageRowsAssumption,
       ManagedMessagesAssumption DEF Init, TypeOK

\* Every variable of the model keeps its type.
THEOREM TypeCorrect == Spec => []TypeOK
  <1>1. Init => TypeOK
    BY InitTypes
  <1>2. TypeOK /\ [Next]_vars => TypeOK'
    <2> SUFFICES ASSUME TypeOK, [Next]_vars
                 PROVE  TypeOK'
      OBVIOUS
    <2>1. CASE UNCHANGED vars
      BY <2>1 DEF vars, TypeOK
    <2>2. QED
      BY <2>1, ClientKeepsTypes, ClaimKeepsTypes, JobStepKeepsTypes,
         JobFaultKeepsTypes, DiscordKeepsTypes DEF Next
  <1>3. QED
    BY <1>1, <1>2, PTL DEF Spec

-----------------------------------------------------------------------------
(* The inductive invariant: frames.                                        *)

\* Discord never takes back that it created a message for a row in a channel.
RemotesKeep ==
    \A m \in MessageIds :
        discord[m].status # "unused" =>
            /\ discord'[m].status # "unused"
            /\ discord'[m].key = discord[m].key
            /\ discord'[m].channel = discord[m].channel

LEMMA BelongsKept ==
    ASSUME TypeOK, RemotesKeep, NEW m \in MessageIds \union {NoMessage}, NEW k,
           NEW channel, Belongs(m, k, channel)
    PROVE  Belongs(m, k, channel)'
  BY DEF Belongs, RemotesKeep

\* A step that leaves the rows alone and touches one job keeps the invariant if
\* the job stays sound.
LEMMA JobFrame ==
    ASSUME IInv, TypeOK', rows' = rows, RemotesKeep, IdsAreFresh',
           NEW p \in Owners, NEW k \in Keys, NEW job, SetJob(p, k, job),
           CopyIsPast(p, k)', JobIsSound(p, k)'
    PROVE  IInv'
  <1>1. HealthyIsVerified'
    BY DEF IInv, HealthyIsVerified
  <1>2. RowOwnsItsMessage'
    <2> SUFFICES ASSUME NEW l \in Keys
                 PROVE  Belongs(rows[l].message, l, rows[l].channel)'
      BY DEF RowOwnsItsMessage
    <2>1. rows[l].message \in MessageIds \union {NoMessage}
      BY JobRowType DEF IInv, Row
    <2>2. Belongs(rows[l].message, l, rows[l].channel)
      BY DEF IInv, RowOwnsItsMessage
    <2>3. QED
      BY <2>1, <2>2 DEF Belongs, RemotesKeep
  <1>3. \A l \in Keys : RowIsSound(l)'
    BY DEF IInv, RowIsSound
  <1>4. ASSUME NEW q \in Owners, NEW l \in Keys
        PROVE  CopyIsPast(q, l)' /\ JobIsSound(q, l)'
    <2>1. CASE q = p /\ l = k
      BY <2>1
    <2>2. CASE ~(q = p /\ l = k)
      <3>1. jobs'[q][l] = jobs[q][l]
        BY <2>2 DEF SetJob, IInv, TypeOK
      <3>2. CopyIsPast(q, l)'
        BY <3>1 DEF IInv, CopyIsPast
      <3>3. JobIsSound(q, l) /\ jobs[q][l] \in Job
        BY JobType DEF IInv
      <3>4. JobIsSound(q, l)'
        BY <3>1, <3>3 DEF JobIsSound, Belongs, RemotesKeep, Job
      <3>5. QED
        BY <3>2, <3>4
    <2>3. QED
      BY <2>1, <2>2
  <1>5. QED
    BY <1>1, <1>2, <1>3, <1>4 DEF IInv

\* A step that leaves Discord alone, changes one row and may drop jobs keeps it
\* if the row stays sound and its definition only changes with its revision.
LEMMA RowFrame ==
    ASSUME IInv, TypeOK', UNCHANGED <<discord, created>>,
           NEW k \in Keys, NEW row \in Row, SetRow(k, row),
           \A q \in Owners, l \in Keys : jobs'[q][l] \in {jobs[q][l], IdleJob},
           \/ row.revision > rows[k].revision
           \/ /\ row.revision = rows[k].revision
              /\ row.channel = rows[k].channel /\ row.content = rows[k].content,
           row.state # "absent", row.revision > 0,
           row.state = "archived" => row.owner = NoOwner,
           row.owner = NoOwner => row.lease = "none",
           row.state = "healthy" => /\ row.message # NoMessage
                                    /\ row.observed = row.content
                                    /\ row.lease = "none",
           Belongs(row.message, k, row.channel)
    PROVE  IInv'
  <1>1. \A l \in Keys : rows'[l] = IF l = k THEN row ELSE rows[l]
    BY DEF SetRow, IInv, TypeOK
  <1>2. HealthyIsVerified'
    BY <1>1 DEF IInv, HealthyIsVerified
  <1>3. RowOwnsItsMessage'
    BY <1>1 DEF IInv, RowOwnsItsMessage, Belongs
  <1>4. IdsAreFresh'
    BY DEF IInv, IdsAreFresh
  <1>5. ASSUME NEW l \in Keys
        PROVE  RowIsSound(l)'
    BY <1>1 DEF IInv, RowIsSound
  <1>6. ASSUME NEW q \in Owners, NEW l \in Keys
        PROVE  CopyIsPast(q, l)' /\ JobIsSound(q, l)'
    <2>1. CASE jobs'[q][l] = IdleJob
      BY <2>1 DEF CopyIsPast, JobIsSound, IdleJob, Belongs
    <2>2. CASE jobs'[q][l] = jobs[q][l]
      <3>1. /\ CopyIsPast(q, l) /\ JobIsSound(q, l)
            /\ jobs[q][l].revision \in Nat /\ rows[l].revision \in Nat
            /\ row.revision \in Nat
        BY JobType, JobRowType DEF IInv, Job, Row
      <3>2. CopyIsPast(q, l)'
        BY <1>1, <2>2, <3>1 DEF CopyIsPast
      <3>3. JobIsSound(q, l)'
        BY <2>2, <3>1 DEF JobIsSound, Belongs
      <3>4. QED
        BY <3>2, <3>3
    <2>3. QED
      BY <2>1, <2>2
  <1>7. QED
    BY <1>2, <1>3, <1>4, <1>5, <1>6 DEF IInv

LEMMA IdleSound ==
    ASSUME IInv, NEW p \in Owners, NEW k \in Keys, SetJob(p, k, IdleJob)
    PROVE  CopyIsPast(p, k)' /\ JobIsSound(p, k)'
  <1>1. jobs'[p][k] = IdleJob
    BY DEF SetJob, IInv, TypeOK
  <1>2. QED
    BY <1>1 DEF CopyIsPast, JobIsSound, IdleJob, Belongs

\* A job that only moves to another step, or is failed.
LEMMA MovedSound ==
    ASSUME IInv, rows' = rows, RemotesKeep, NEW p \in Owners, NEW k \in Keys,
           ~At(p, k, "idle"), NEW job,
           SetJob(p, k, job),
           job = [jobs[p][k] EXCEPT !.step = job.step, !.verdict = job.verdict],
           job.step \in {"fetch", "replace"} => job.message # NoMessage,
           job.step = "cleanup" => job.found # NoMessage,
           job.step # "complete"
    PROVE  CopyIsPast(p, k)' /\ JobIsSound(p, k)'
  <1>1. jobs'[p][k] = job /\ jobs[p][k] \in Job
    BY JobType DEF SetJob, IInv, TypeOK
  <1>2. /\ job.revision = jobs[p][k].revision /\ job.channel = jobs[p][k].channel
        /\ job.content = jobs[p][k].content /\ job.message = jobs[p][k].message
        /\ job.found = jobs[p][k].found
    BY <1>1 DEF Job
  <1>3. CopyIsPast(p, k) /\ JobIsSound(p, k)
    BY DEF IInv
  <1>4. CopyIsPast(p, k)'
    BY <1>1, <1>2, <1>3 DEF CopyIsPast, At
  <1>5. /\ job.message \in MessageIds \union {NoMessage}
        /\ job.found \in MessageIds \union {NoMessage}
    BY <1>1, <1>2 DEF Job
  <1>6. JobIsSound(p, k)'
    BY <1>1, <1>2, <1>3, <1>5 DEF JobIsSound, Belongs, RemotesKeep
  <1>7. QED
    BY <1>4, <1>6

LEMMA FailedSound ==
    ASSUME IInv, rows' = rows, RemotesKeep, NEW p \in Owners, NEW k \in Keys,
           ~At(p, k, "idle"), NEW verdict, Failed(p, k, verdict)
    PROVE  CopyIsPast(p, k)' /\ JobIsSound(p, k)'
  <1> DEFINE job == [jobs[p][k] EXCEPT !.step = "release", !.verdict = verdict]
  <1>1. jobs[p][k] \in Job
    BY JobType DEF IInv
  <1>2. job.step = "release" /\ job.verdict = verdict
    BY <1>1 DEF Job
  <1>3. SetJob(p, k, job)
    BY DEF Failed
  <1>4. QED
    BY <1>2, <1>3, MovedSound

LEMMA ObservedSound ==
    ASSUME IInv, rows' = rows, RemotesKeep, NEW p \in Owners, NEW k \in Keys,
           ~At(p, k, "idle"), NEW m \in MessageIds, NEW hash,
           discord'[m].status # "unused", discord'[m].key = k,
           discord'[m].channel = jobs[p][k].channel,
           Observed(p, k, m, hash)
    PROVE  CopyIsPast(p, k)' /\ JobIsSound(p, k)'
  <1> DEFINE step == IF hash = jobs[p][k].content THEN "complete" ELSE "release"
             job == [jobs[p][k] EXCEPT !.found = m, !.hash = hash,
                                       !.verdict = "drifted", !.step = step]
  <1>1. jobs[p][k] \in Job
    BY JobType DEF IInv
  <1>2. jobs'[p][k] = job
    BY DEF Observed, SetJob, IInv, TypeOK
  <1>3. /\ job.revision = jobs[p][k].revision /\ job.channel = jobs[p][k].channel
        /\ job.content = jobs[p][k].content /\ job.message = jobs[p][k].message
        /\ job.found = m /\ job.hash = hash /\ job.step = step
    BY <1>1 DEF Job
  <1> HIDE DEF job
  <1>4. CopyIsPast(p, k) /\ JobIsSound(p, k)
    BY DEF IInv
  <1>5. CopyIsPast(p, k)'
    BY <1>2, <1>3, <1>4 DEF CopyIsPast, At
  <1>6. m # NoMessage /\ job.message \in MessageIds \union {NoMessage}
    BY <1>1, <1>3 DEF Job, MessageIds, NoMessage
  <1>7. JobIsSound(p, k)'
    BY <1>2, <1>3, <1>4, <1>6 DEF JobIsSound, Belongs, RemotesKeep
  <1>8. QED
    BY <1>5, <1>7

LEMMA ConflictedSound ==
    ASSUME IInv, UNCHANGED <<rows, discord, created>>, TypeOK',
           NEW p \in Owners, NEW k \in Keys, ~At(p, k, "idle"), Conflicted(p, k)
    PROVE  IInv'
  <1>1. RemotesKeep /\ IdsAreFresh'
    BY DEF RemotesKeep, IInv, IdsAreFresh
  <1>2. CASE StaleCreate(jobs[p][k])
    <2> DEFINE job == [jobs[p][k] EXCEPT !.step = "cleanup"]
    <2>1. jobs[p][k] \in Job
      BY JobType DEF IInv
    <2>2. /\ job.step = "cleanup" /\ job.found # NoMessage
          /\ job = [jobs[p][k] EXCEPT !.step = job.step, !.verdict = job.verdict]
      BY <1>2, <2>1 DEF Job, StaleCreate
    <2>3. SetJob(p, k, job)
      BY <1>2 DEF Conflicted
    <2> HIDE DEF job
    <2>4. QED
      BY <1>1, <2>2, <2>3, MovedSound, JobFrame
  <1>3. CASE ~StaleCreate(jobs[p][k])
    <2>1. SetJob(p, k, IdleJob)
      BY <1>3 DEF Conflicted
    <2>2. QED
      BY <1>1, <2>1, IdleSound, JobFrame
  <1>4. QED
    BY <1>2, <1>3

\* A creation keeps every other message and hands out a new id.
LEMMA CreatesKeeps ==
    ASSUME IInv, NEW p \in Owners, NEW k \in Keys, NEW content \in Hashes,
           Creates(jobs[p][k], k, content)
    PROVE  /\ RemotesKeep /\ IdsAreFresh'
           /\ created + 1 \in MessageIds
           /\ discord'[created + 1].status # "unused"
           /\ discord'[created + 1].key = k
           /\ discord'[created + 1].channel = jobs[p][k].channel
  <1>1. created + 1 \in MessageIds /\ created \in Nat /\ created' = created + 1
    <2>1. TypeOK
      BY DEF IInv
    <2>2. created \in Nat /\ created' = created + 1
      BY <2>1, MessageRowsAssumption DEF TypeOK, Creates
    <2>3. QED
      BY <2>1, <2>2, CreatesType
  <1>2. discord[created + 1].status = "unused"
    BY <1>1 DEF IInv, IdsAreFresh
  <1>3. \A m \in MessageIds :
            discord'[m] = IF m = created + 1
                          THEN [status |-> "live", channel |-> jobs[p][k].channel,
                                content |-> content, key |-> k,
                                revision |-> jobs[p][k].revision, fresh |-> TRUE]
                          ELSE discord[m]
    BY DEF Creates, IInv, TypeOK
  <1>4. RemotesKeep
    BY <1>2, <1>3 DEF RemotesKeep
  <1>5. \A m \in MessageIds : m \in Nat
    BY DEF MessageIds
  <1>6. IdsAreFresh'
    BY <1>1, <1>3, <1>5 DEF IInv, IdsAreFresh
  <1>7. QED
    BY <1>1, <1>3, <1>4, <1>6

LEMMA EditsKeeps ==
    ASSUME IInv, NEW m \in MessageIds, NEW content, Edits(m, content),
           UNCHANGED created
    PROVE  RemotesKeep /\ IdsAreFresh'
  <1>1. \A n \in MessageIds : discord[n] \in Remote
    BY DEF IInv, TypeOK
  <1>2. \A n \in MessageIds : /\ discord'[n].status = discord[n].status
                              /\ discord'[n].key = discord[n].key
                              /\ discord'[n].channel = discord[n].channel
    BY <1>1 DEF Edits, Remote, IInv, TypeOK
  <1>3. QED
    BY <1>2 DEF RemotesKeep, IInv, IdsAreFresh

-----------------------------------------------------------------------------
(* The inductive invariant: actions.                                       *)

LEMMA ClientKeepsInvariant ==
    ASSUME IInv, TypeOK', NEW k \in Keys,
           Client(k) \/ NextCheckElapses(k) \/ LeaseExpires(k)
    PROVE  IInv'
  <1>1. /\ UNCHANGED <<discord, created>>
        /\ \A q \in Owners, l \in Keys : jobs'[q][l] \in {jobs[q][l], IdleJob}
    BY DEF Client, CreateMessage, ReplaceMessage, ArchiveMessage,
           ReconcileMessage, NextCheckElapses, LeaseExpires
  <1>2. /\ rows[k] \in Row /\ RowIsSound(k)
        /\ Belongs(rows[k].message, k, rows[k].channel)
        /\ rows[k].state = "healthy" => /\ rows[k].message # NoMessage
                                        /\ rows[k].observed = rows[k].content
                                        /\ rows[k].lease = "none"
    BY JobRowType DEF IInv, RowOwnsItsMessage, HealthyIsVerified
  <1>3. ASSUME NEW channel \in Channels, NEW content \in Contents,
               CreateMessage(k, channel, content)
        PROVE  IInv'
    <2> DEFINE row == InsertedRow(channel, content)
    <2>1. row \in Row
      BY InsertedRowType
    <2>2. /\ row.revision = 1 /\ row.state = "pending" /\ row.lease = "none"
          /\ row.message = NoMessage
      BY DEF InsertedRow, AbsentRow
    <2>3. rows[k].revision = 0
      BY <1>2, <1>3 DEF CreateMessage, Exists, RowIsSound
    <2>4. SetRow(k, row) /\ Belongs(row.message, k, row.channel)
      BY <1>3, <2>2 DEF CreateMessage, Belongs
    <2> HIDE DEF row
    <2>5. QED
      BY <1>1, <2>1, <2>2, <2>3, <2>4, RowFrame
  <1>4. ASSUME NEW channel \in Channels, NEW content \in Contents,
               ReplaceMessage(k, channel, content)
        PROVE  IInv'
    <2> DEFINE row == ReplacedRow(rows[k], channel, content)
    <2>1. row \in Row
      BY <1>2, ReplacedRowType
    <2>2. /\ row.revision = rows[k].revision + 1 /\ row.state = "pending"
          /\ row.lease = "none" /\ row.channel = channel
          /\ row.message = IF channel = rows[k].channel THEN rows[k].message
                                                        ELSE NoMessage
      BY DEF ReplacedRow
    <2>3. rows[k].revision \in Nat
      BY <1>2 DEF Row
    <2>4. SetRow(k, row) /\ Belongs(row.message, k, row.channel)
      BY <1>2, <1>4, <2>2 DEF ReplaceMessage, Belongs
    <2> HIDE DEF row
    <2>5. row.revision > rows[k].revision /\ row.revision > 0
      BY <2>2, <2>3
    <2>6. QED
      BY <1>1, <2>1, <2>2, <2>4, <2>5, RowFrame
  <1>5. CASE ArchiveMessage(k)
    <2> DEFINE row == ArchivedRow(rows[k])
    <2>1. row \in Row
      BY <1>2, ArchivedRowType
    <2>2. /\ row.revision = rows[k].revision + 1 /\ row.state = "archived"
          /\ row.lease = "none" /\ row.owner = NoOwner
          /\ row.channel = rows[k].channel /\ row.message = rows[k].message
      BY <1>2 DEF ArchivedRow, Row
    <2>3. rows[k].revision \in Nat
      BY <1>2 DEF Row
    <2>4. SetRow(k, row) /\ Belongs(row.message, k, row.channel)
      BY <1>2, <1>5, <2>2 DEF ArchiveMessage
    <2> HIDE DEF row
    <2>5. row.revision > rows[k].revision /\ row.revision > 0
      BY <2>2, <2>3
    <2>6. QED
      BY <1>1, <2>1, <2>2, <2>4, <2>5, RowFrame
  <1>6. ASSUME NEW row, SetRow(k, row), Markable(rows[k]),
               row \in {MarkedRow(rows[k]), [rows[k] EXCEPT !.due = TRUE]}
        PROVE  IInv'
    <2>1. row \in Row
      BY <1>2, <1>6, MarkedRowType
    <2>2. /\ row.revision = rows[k].revision /\ row.channel = rows[k].channel
          /\ row.content = rows[k].content /\ row.message = rows[k].message
          /\ row.observed = rows[k].observed
          /\ row.owner = rows[k].owner /\ row.lease = rows[k].lease
          /\ row.state \in {rows[k].state, "pending"}
      BY <1>2, <1>6 DEF MarkedRow, Row
    <2>3. rows[k].state \notin {"absent", "archived"} /\ rows[k].revision > 0
      BY <1>2, <1>6 DEF Markable, Exists, Archived, RowIsSound, Row
    <2>4. row.owner = NoOwner => row.lease = "none"
      BY <1>2, <2>2 DEF RowIsSound
    <2>5. QED
      BY <1>1, <1>2, <1>6, <2>1, <2>2, <2>3, <2>4, RowFrame
  <1>7. CASE LeaseExpires(k)
    <2> DEFINE row == [rows[k] EXCEPT !.lease = "expired"]
    <2>1. row \in Row
      BY <1>2, MarkedRowType
    <2>2. /\ row.revision = rows[k].revision /\ row.channel = rows[k].channel
          /\ row.content = rows[k].content /\ row.message = rows[k].message
          /\ row.owner = rows[k].owner /\ row.state = rows[k].state
      BY <1>2 DEF Row
    <2>3. SetRow(k, row) /\ rows[k].lease = "live"
      BY <1>7 DEF LeaseExpires
    <2>4. rows[k].owner # NoOwner /\ rows[k].state \notin {"healthy", "absent", "archived"}
      BY <1>2, <2>3 DEF RowIsSound
    <2>5. rows[k].revision > 0
      BY <1>2, <2>4 DEF RowIsSound, Row
    <2> HIDE DEF row
    <2>6. QED
      BY <1>1, <1>2, <2>1, <2>2, <2>3, <2>4, <2>5, RowFrame
  <1>8. QED
    BY <1>3, <1>4, <1>5, <1>6, <1>7 DEF Client, ReconcileMessage, NextCheckElapses

LEMMA ClaimKeepsInvariant ==
    ASSUME IInv, TypeOK', NEW p \in Owners, ClaimDue(p) \/ Crash(p)
    PROVE  IInv'
  <1>1. CASE ClaimDue(p)
    <2>1. PICK batch \in Batches :
            /\ rows' = [k \in Keys |-> IF k \in batch THEN ClaimedRow(rows[k], p)
                                                      ELSE rows[k]]
            /\ jobs' = [jobs EXCEPT ![p] =
                            [k \in Keys |-> IF k \in batch THEN ClaimedJob(rows[k])
                                                           ELSE @[k]]]
      BY <1>1 DEF ClaimDue
    <2>2. UNCHANGED <<discord, created>>
      BY <1>1 DEF ClaimDue
    <2>3. ASSUME NEW k \in Keys
          PROVE  \/ rows'[k] = rows[k]
                 \/ /\ rows'[k] = ClaimedRow(rows[k], p)
                    /\ rows[k].state \notin {"absent", "archived"}
      BY <2>1 DEF Batches, Due, Claimable
    <2>4. ASSUME NEW k \in Keys
          PROVE  /\ rows'[k].revision = rows[k].revision
                 /\ rows'[k].channel = rows[k].channel
                 /\ rows'[k].content = rows[k].content
                 /\ rows'[k].message = rows[k].message
                 /\ \/ rows'[k] = rows[k]
                    \/ /\ rows'[k].state = "repairing" /\ rows'[k].owner = p
                       /\ rows[k].state \notin {"absent", "archived"}
      <3>1. rows[k] \in Row
        BY JobRowType DEF IInv
      <3>2. CASE rows'[k] = rows[k]
        BY <3>2
      <3>3. CASE rows'[k] = ClaimedRow(rows[k], p) /\ rows[k].state \notin {"absent", "archived"}
        BY <3>1, <3>3 DEF ClaimedRow, Row
      <3>4. QED
        BY <2>3, <3>2, <3>3
    <2>5. HealthyIsVerified'
      BY <2>4 DEF IInv, HealthyIsVerified
    <2>6. RowOwnsItsMessage'
      BY <2>2, <2>4 DEF IInv, RowOwnsItsMessage, Belongs
    <2>7. IdsAreFresh'
      BY <2>2 DEF IInv, IdsAreFresh
    <2>8. ASSUME NEW k \in Keys
          PROVE  RowIsSound(k)'
      BY <2>4, MessageRowsAssumption DEF IInv, RowIsSound
    <2>9. ASSUME NEW q \in Owners, NEW k \in Keys
          PROVE  CopyIsPast(q, k)' /\ JobIsSound(q, k)'
      <3>1. \/ jobs'[q][k] = jobs[q][k]
            \/ /\ jobs'[q][k] = ClaimedJob(rows[k])
               /\ rows[k].state # "absent"
        BY <2>1 DEF IInv, TypeOK, Batches, Due, Claimable
      <3>2. CASE jobs'[q][k] = jobs[q][k]
        BY <2>2, <2>4, <3>2 DEF IInv, CopyIsPast, JobIsSound, Belongs
      <3>3. CASE jobs'[q][k] = ClaimedJob(rows[k]) /\ rows[k].state # "absent"
        <4>1. rows[k].revision \in Nat /\ rows[k].revision > 0
          BY <3>3, JobRowType DEF IInv, RowIsSound, Row
        <4>2. /\ jobs'[q][k].step = "queued"
              /\ jobs'[q][k].revision = rows[k].revision
              /\ jobs'[q][k].channel = rows[k].channel
              /\ jobs'[q][k].content = rows[k].content
              /\ jobs'[q][k].message = rows[k].message
              /\ jobs'[q][k].found = NoMessage
          BY <3>3 DEF ClaimedJob, IdleJob
        <4>3. Belongs(rows[k].message, k, rows[k].channel)
          BY DEF IInv, RowOwnsItsMessage
        <4>4. QED
          BY <2>2, <2>4, <4>1, <4>2, <4>3 DEF CopyIsPast, JobIsSound, Belongs
      <3>4. QED
        BY <3>1, <3>2, <3>3
    <2>10. QED
      BY <2>5, <2>6, <2>7, <2>8, <2>9 DEF IInv
  <1>2. CASE Crash(p)
    <2>1. /\ UNCHANGED <<rows, discord, created>>
          /\ \A q \in Owners, k \in Keys : jobs'[q][k] \in {jobs[q][k], IdleJob}
      BY <1>2 DEF Crash, IInv, TypeOK
    <2>2. HealthyIsVerified' /\ RowOwnsItsMessage' /\ IdsAreFresh'
      BY <2>1 DEF IInv, HealthyIsVerified, RowOwnsItsMessage, IdsAreFresh, Belongs
    <2>3. \A k \in Keys : RowIsSound(k)'
      BY <2>1 DEF IInv, RowIsSound
    <2>4. ASSUME NEW q \in Owners, NEW k \in Keys
          PROVE  CopyIsPast(q, k)' /\ JobIsSound(q, k)'
      <3>1. CASE jobs'[q][k] = IdleJob
        BY <3>1 DEF CopyIsPast, JobIsSound, IdleJob, Belongs
      <3>2. CASE jobs'[q][k] = jobs[q][k]
        BY <2>1, <3>2 DEF IInv, CopyIsPast, JobIsSound, Belongs
      <3>3. QED
        BY <2>1, <3>1, <3>2
    <2>5. QED
      BY <2>2, <2>3, <2>4 DEF IInv
  <1>3. QED
    BY <1>1, <1>2

LEMMA DiscordKeepsInvariant ==
    ASSUME IInv, TypeOK', NEW m \in MessageIds, NonceForgotten(m) \/ MessageDeleted(m)
    PROVE  IInv'
  <1>1. UNCHANGED <<rows, jobs, created>>
    BY DEF NonceForgotten, MessageDeleted
  <1>2. ASSUME NEW n \in MessageIds
        PROVE  /\ discord'[n].status = "unused" <=> discord[n].status = "unused"
               /\ discord'[n].key = discord[n].key
               /\ discord'[n].channel = discord[n].channel
    BY DEF NonceForgotten, MessageDeleted, Live, IInv, TypeOK, Remote
  <1>3. RemotesKeep /\ IdsAreFresh'
    BY <1>1, <1>2 DEF RemotesKeep, IInv, IdsAreFresh
  <1>4. HealthyIsVerified'
    BY <1>1 DEF IInv, HealthyIsVerified
  <1>5. RowOwnsItsMessage'
    <2>1. \A k \in Keys : rows[k].message \in MessageIds \union {NoMessage}
      BY JobRowType DEF IInv, Row
    <2>2. QED
      BY <1>1, <1>3, <2>1 DEF IInv, RowOwnsItsMessage, Belongs, RemotesKeep
  <1>6. \A k \in Keys : RowIsSound(k)'
    BY <1>1 DEF IInv, RowIsSound
  <1>7. ASSUME NEW p \in Owners, NEW k \in Keys
        PROVE  CopyIsPast(p, k)' /\ JobIsSound(p, k)'
    <2>1. jobs[p][k] \in Job
      BY JobType DEF IInv
    <2>2. QED
      BY <1>1, <1>3, <2>1 DEF IInv, CopyIsPast, JobIsSound, Belongs, RemotesKeep, Job
  <1>8. QED
    BY <1>3, <1>4, <1>5, <1>6, <1>7 DEF IInv

\* What the invariant says of one job and its row.
LEMMA JobFacts ==
    ASSUME IInv, NEW p \in Owners, NEW k \in Keys
    PROVE  /\ TypeOK
           /\ jobs[p][k] \in Job /\ rows[k] \in Row
           /\ jobs[p][k].content \in Hashes /\ Mangled \in Hashes
           /\ CopyIsPast(p, k) /\ JobIsSound(p, k) /\ RowIsSound(k)
           /\ jobs[p][k].message \in MessageIds \union {NoMessage}
           /\ jobs[p][k].found \in MessageIds \union {NoMessage}
  <1>1. TypeOK
    BY DEF IInv
  <1>2. QED
    BY <1>1, JobType, JobRowType, JobHash DEF IInv, Job

\* Lemma JobFrame for the three ways in which a job goes on.
LEMMA MovedFrame ==
    ASSUME IInv, TypeOK', rows' = rows, RemotesKeep, IdsAreFresh',
           NEW p \in Owners, NEW k \in Keys, ~At(p, k, "idle"),
           NEW step \in {"create", "fetch", "replace"},
           step # "create" => jobs[p][k].message # NoMessage,
           SetJob(p, k, [jobs[p][k] EXCEPT !.step = step])
    PROVE  IInv'
  <1> DEFINE job == [jobs[p][k] EXCEPT !.step = step]
  <1>1. /\ job.step = step /\ job.message = jobs[p][k].message
        /\ job = [jobs[p][k] EXCEPT !.step = job.step, !.verdict = job.verdict]
    BY JobFacts DEF Job
  <1>2. SetJob(p, k, job)
    OBVIOUS
  <1> HIDE DEF job
  <1>3. QED
    BY <1>1, <1>2, MovedSound, JobFrame

LEMMA FailedFrame ==
    ASSUME IInv, TypeOK', rows' = rows, RemotesKeep, IdsAreFresh',
           NEW p \in Owners, NEW k \in Keys, ~At(p, k, "idle"),
           NEW verdict, Failed(p, k, verdict)
    PROVE  IInv'
  BY FailedSound, JobFrame DEF Failed

LEMMA ObservedFrame ==
    ASSUME IInv, TypeOK', rows' = rows, RemotesKeep, IdsAreFresh',
           NEW p \in Owners, NEW k \in Keys, ~At(p, k, "idle"),
           NEW m \in MessageIds, NEW hash,
           discord'[m].status # "unused", discord'[m].key = k,
           discord'[m].channel = jobs[p][k].channel,
           Observed(p, k, m, hash)
    PROVE  IInv'
  BY ObservedSound, JobFrame DEF Observed

LEMMA QuietDiscord ==
    ASSUME IInv, UNCHANGED <<discord, created>>
    PROVE  RemotesKeep /\ IdsAreFresh'
  BY DEF RemotesKeep, IInv, IdsAreFresh

\* A job that holds its row still has the row's definition.
LEMMA HeldIsCurrent ==
    ASSUME IInv, NEW p \in Owners, NEW k \in Keys, ~At(p, k, "idle"),
           Held(rows[k], p, jobs[p][k].revision)
    PROVE  /\ jobs[p][k].channel = rows[k].channel
           /\ jobs[p][k].content = rows[k].content
           /\ rows[k].revision > 0
           /\ rows[k].state \notin {"absent", "archived"}
  BY JobFacts, MessageRowsAssumption DEF Held, CopyIsPast, RowIsSound, At

LEMMA FinalStatementKeepsInvariant ==
    ASSUME IInv, TypeOK', NEW p \in Owners, NEW k \in Keys,
           Complete(p, k) \/ ReleaseRow(p, k)
    PROVE  IInv'
  <1> DEFINE job == jobs[p][k]
  <1>1. UNCHANGED <<discord, created>> /\ ~At(p, k, "idle")
    BY DEF Complete, ReleaseRow, At
  <1>2. CASE ~Held(rows[k], p, job.revision)
    BY <1>1, <1>2, ConflictedSound DEF Complete, ReleaseRow, Conflicted
  <1>3. ASSUME Held(rows[k], p, job.revision), SetJob(p, k, IdleJob)
        PROVE  \A q \in Owners, l \in Keys : jobs'[q][l] \in {jobs[q][l], IdleJob}
    BY <1>3 DEF SetJob, IInv, TypeOK
  <1>4. CASE Complete(p, k) /\ Held(rows[k], p, job.revision)
    <2> DEFINE row == CompletedRow(rows[k], job.found, job.hash)
    <2>1. SetRow(k, row) /\ SetJob(p, k, IdleJob) /\ job.step = "complete"
      BY <1>4 DEF Complete, At
    <2>2. /\ job.found # NoMessage /\ job.hash = job.content
          /\ Belongs(job.found, k, job.channel)
      BY <2>1, JobFacts DEF JobIsSound
    <2>3. row \in Row
      BY <2>2, JobFacts, CompletedRowType
    <2>4. /\ row.revision = rows[k].revision /\ row.channel = rows[k].channel
          /\ row.content = rows[k].content /\ row.message = job.found
          /\ row.observed = job.hash /\ row.state = "healthy" /\ row.lease = "none"
      BY JobFacts DEF CompletedRow, Row
    <2> HIDE DEF row
    <2>5. QED
      BY <1>1, <1>3, <1>4, <2>1, <2>2, <2>3, <2>4, HeldIsCurrent, RowFrame
  <1>5. CASE ReleaseRow(p, k) /\ Held(rows[k], p, job.revision)
    <2> DEFINE row == ReleasedRow(rows[k], job.verdict, job.found, job.hash)
    <2>1. SetRow(k, row) /\ SetJob(p, k, IdleJob)
      BY <1>5 DEF ReleaseRow
    <2>2. /\ Belongs(job.found, k, job.channel)
          /\ Belongs(rows[k].message, k, rows[k].channel)
      BY JobFacts DEF JobIsSound, IInv, RowOwnsItsMessage
    <2>3. job.verdict \in {"drifted", "blocked"} /\ job.hash \in Hashes
      BY JobFacts DEF Job
    <2>4. row \in Row
      BY <2>3, JobFacts, ReleasedRowType
    <2>5. /\ row.revision = rows[k].revision /\ row.channel = rows[k].channel
          /\ row.content = rows[k].content /\ row.lease = "none"
          /\ row.state = job.verdict
          /\ row.message = IF job.found = NoMessage THEN rows[k].message
                                                    ELSE job.found
      BY JobFacts DEF ReleasedRow, Row
    <2> HIDE DEF row
    <2>6. QED
      BY <1>1, <1>3, <1>5, <2>1, <2>2, <2>3, <2>4, <2>5, HeldIsCurrent, RowFrame
  <1>6. QED
    BY <1>2, <1>4, <1>5

LEMMA JobStepKeepsInvariant ==
    ASSUME IInv, TypeOK', NEW p \in Owners, NEW k \in Keys, JobStep(p, k)
    PROVE  IInv'
  <1> DEFINE job == jobs[p][k]
  <1>1. CASE StartJob(p, k)
    <2>1. rows' = rows /\ RemotesKeep /\ IdsAreFresh' /\ ~At(p, k, "idle")
      BY <1>1, QuietDiscord DEF StartJob, At
    <2>2. QED
      BY <1>1, <2>1, MovedFrame DEF StartJob
  <1>2. CASE FetchRemote(p, k)
    <2>1. rows' = rows /\ RemotesKeep /\ IdsAreFresh' /\ ~At(p, k, "idle")
      BY <1>2, QuietDiscord DEF FetchRemote, At
    <2>2. /\ job.message \in MessageIds
          /\ discord'[job.message].status # "unused"
          /\ discord'[job.message].key = k
          /\ discord'[job.message].channel = job.channel
      BY <1>2, JobFacts DEF FetchRemote, At, JobIsSound, Belongs
    <2>3. job.message # NoMessage
      BY <1>2, JobFacts DEF FetchRemote, At, JobIsSound
    <2>4. QED
      BY <1>2, <2>1, <2>2, <2>3, MovedFrame, ObservedFrame DEF FetchRemote
  <1>3. CASE CreateRemote(p, k)
    <2>1. rows' = rows /\ ~At(p, k, "idle")
      BY <1>3 DEF CreateRemote, At
    <2>2. ASSUME NEW content \in Hashes, Creates(job, k, content),
                 Observed(p, k, created + 1, content)
          PROVE  IInv'
      BY <2>1, <2>2, CreatesKeeps, ObservedFrame
    <2>3. ASSUME NEW m \in MessageIds, Duplicate(job, k, m),
                 Observed(p, k, m, discord[m].content),
                 UNCHANGED <<discord, created>>
          PROVE  IInv'
      <3>1. RemotesKeep /\ IdsAreFresh'
        BY <2>3, QuietDiscord
      <3>2. /\ discord'[m].status # "unused" /\ discord'[m].key = k
            /\ discord'[m].channel = job.channel
        BY <2>3 DEF Duplicate, Live
      <3>3. QED
        BY <2>1, <2>3, <3>1, <3>2, ObservedFrame
    <2>4. QED
      BY <1>3, <2>2, <2>3, JobFacts DEF CreateRemote
  <1>4. CASE ReplaceRemote(p, k)
    <2>1. rows' = rows /\ UNCHANGED created /\ ~At(p, k, "idle")
      BY <1>4 DEF ReplaceRemote, At
    <2>2. /\ job.message \in MessageIds
          /\ Belongs(job.message, k, job.channel) /\ job.message # NoMessage
      BY <1>4, JobFacts DEF ReplaceRemote, At, JobIsSound
    <2>3. ASSUME NEW content, Edits(job.message, content),
                 Observed(p, k, job.message, content)
          PROVE  IInv'
      <3>1. RemotesKeep /\ IdsAreFresh'
        BY <2>1, <2>2, <2>3, EditsKeeps
      <3>2. /\ discord'[job.message].status # "unused"
            /\ discord'[job.message].key = k
            /\ discord'[job.message].channel = job.channel
        BY <2>2, <3>1 DEF RemotesKeep, Belongs
      <3>3. QED
        BY <2>1, <2>2, <2>3, <3>1, <3>2, ObservedFrame
    <2>4. CASE Failed(p, k, "drifted") /\ UNCHANGED discord
      BY <2>1, <2>4, QuietDiscord, FailedFrame
    <2>5. QED
      BY <1>4, <2>3, <2>4 DEF ReplaceRemote
  <1>5. CASE CleanupStaleCreate(p, k)
    <2>1. rows' = rows /\ UNCHANGED created /\ SetJob(p, k, IdleJob)
      BY <1>5 DEF CleanupStaleCreate
    <2>2. job.found \in MessageIds /\ discord[job.found].status # "unused"
      BY <1>5, JobFacts DEF CleanupStaleCreate, At, JobIsSound, Belongs
    <2>3. ASSUME NEW n \in MessageIds
          PROVE  /\ discord'[n].status = "unused" <=> discord[n].status = "unused"
                 /\ discord'[n].key = discord[n].key
                 /\ discord'[n].channel = discord[n].channel
      BY <1>5, <2>2 DEF CleanupStaleCreate, IInv, TypeOK, Remote
    <2>4. RemotesKeep /\ IdsAreFresh'
      BY <2>1, <2>3 DEF RemotesKeep, IInv, IdsAreFresh
    <2>5. QED
      BY <2>1, <2>4, IdleSound, JobFrame
  <1>6. QED
    BY <1>1, <1>2, <1>3, <1>4, <1>5, FinalStatementKeepsInvariant DEF JobStep

LEMMA JobFaultKeepsInvariant ==
    ASSUME IInv, TypeOK', NEW p \in Owners, NEW k \in Keys, JobFault(p, k)
    PROVE  IInv'
  <1>1. rows' = rows /\ ~At(p, k, "idle")
    BY DEF JobFault, AssignmentRefused, FetchFails, CreateFails, ReplaceFails,
           StatementFails, CleanupFails, At
  <1>2. ASSUME NEW verdict, Failed(p, k, verdict), UNCHANGED <<discord, created>>
        PROVE  IInv'
    BY <1>1, <1>2, QuietDiscord, FailedFrame
  <1>3. CASE AssignmentRefused(p, k) \/ FetchFails(p, k)
    BY <1>2, <1>3 DEF AssignmentRefused, FetchFails
  <1>4. CASE CreateFails(p, k)
    BY <1>1, <1>2, <1>4, JobFacts, CreatesKeeps, FailedFrame DEF CreateFails
  <1>5. CASE ReplaceFails(p, k)
    <2>1. jobs[p][k].message \in MessageIds
      BY <1>5, JobFacts DEF ReplaceFails, At, JobIsSound
    <2>2. UNCHANGED created
      BY <1>5 DEF ReplaceFails
    <2>3. QED
      BY <1>1, <1>2, <1>5, <2>1, <2>2, EditsKeeps, FailedFrame DEF ReplaceFails
  <1>6. CASE StatementFails(p, k) \/ CleanupFails(p, k)
    BY <1>1, <1>6, QuietDiscord, IdleSound, JobFrame DEF StatementFails, CleanupFails
  <1>7. QED
    BY <1>3, <1>4, <1>5, <1>6 DEF JobFault

LEMMA StepKeepsInvariant == IInv /\ TypeOK' /\ [Next]_vars => IInv'
  <1> SUFFICES ASSUME IInv, TypeOK', [Next]_vars
               PROVE  IInv'
    OBVIOUS
  <1>1. CASE UNCHANGED vars
    BY <1>1 DEF vars, IInv, HealthyIsVerified, RowOwnsItsMessage, IdsAreFresh,
                RowIsSound, CopyIsPast, JobIsSound, Belongs
  <1>2. QED
    BY <1>1, ClientKeepsInvariant, ClaimKeepsInvariant, JobStepKeepsInvariant,
       JobFaultKeepsInvariant, DiscordKeepsInvariant DEF Next

\* The inductive invariant holds of every behaviour.
THEOREM Invariance == Spec => []IInv
  <1>1. Init => IInv
    <2> SUFFICES ASSUME Init
                 PROVE  IInv
      OBVIOUS
    <2>1. TypeOK
      BY InitTypes
    <2>2. /\ \A k \in Keys : rows[k] = AbsentRow
          /\ \A p \in Owners, k \in Keys : jobs[p][k] = IdleJob
          /\ \A m \in MessageIds : discord[m].status = "unused"
          /\ created = 0
      BY DEF Init, UnusedRemote
    <2>3. HealthyIsVerified /\ RowOwnsItsMessage /\ \A k \in Keys : RowIsSound(k)
      <3>1. /\ AbsentRow.state = "absent"   /\ AbsentRow.revision = 0
            /\ AbsentRow.message = NoMessage /\ AbsentRow.owner = NoOwner
            /\ AbsentRow.lease = "none"
        BY DEF AbsentRow
      <3>2. HealthyIsVerified
        BY <2>2, <3>1 DEF HealthyIsVerified
      <3>3. RowOwnsItsMessage
        BY <2>2, <3>1 DEF RowOwnsItsMessage, Belongs
      <3>4. \A k \in Keys : RowIsSound(k)
        BY <2>2, <3>1 DEF RowIsSound
      <3>5. QED
        BY <3>2, <3>3, <3>4
    <2>4. IdsAreFresh
      BY <2>2 DEF IdsAreFresh, MessageIds
    <2>5. \A p \in Owners, k \in Keys : CopyIsPast(p, k) /\ JobIsSound(p, k)
      BY <2>2 DEF CopyIsPast, JobIsSound, Belongs, IdleJob
    <2>6. QED
      BY <2>1, <2>3, <2>4, <2>5 DEF IInv
  <1>2. QED
    BY <1>1, StepKeepsInvariant, TypeCorrect, PTL DEF Spec

\* However many processes share the table, however their leases run out and
\* whatever fails: a healthy row was verified against the definition it has.
THEOREM HealthyVerified == Spec => []HealthyIsVerified
  <1>1. IInv => HealthyIsVerified
    BY DEF IInv
  <1>2. QED
    BY <1>1, Invariance, PTL

\* The id a row stores never names a message of another row or channel.
THEOREM RowOwnership == Spec => []RowOwnsItsMessage
  <1>1. IInv => RowOwnsItsMessage
    BY DEF IInv
  <1>2. QED
    BY <1>1, Invariance, PTL

-----------------------------------------------------------------------------
(* What a step may do to a row.                                            *)

\* A row a step changes is not archived, and keeps its definition or moves on
\* by one revision.
ChangedOnce(k) ==
    /\ ~Archived(rows[k])
    /\ \/ rows'[k].revision = rows[k].revision + 1
       \/ /\ rows'[k].revision = rows[k].revision
          /\ rows'[k].channel = rows[k].channel
          /\ rows'[k].content = rows[k].content

LEMMA ClientChangesOnce ==
    ASSUME IInv, NEW k \in Keys, Client(k) \/ NextCheckElapses(k) \/ LeaseExpires(k),
           NEW l \in Keys
    PROVE  rows'[l] = rows[l] \/ ChangedOnce(l)
  <1>1. rows[k] \in Row /\ RowIsSound(k) /\ rows \in [Keys -> Row]
    BY JobRowType DEF IInv, TypeOK
  <1>2. ASSUME NEW row, SetRow(k, row), ~Archived(rows[k]),
               \/ row.revision = rows[k].revision + 1
               \/ /\ row.revision = rows[k].revision
                  /\ row.channel = rows[k].channel /\ row.content = rows[k].content
        PROVE  rows'[l] = rows[l] \/ ChangedOnce(l)
    BY <1>1, <1>2 DEF SetRow, ChangedOnce
  <1>3. ASSUME NEW channel \in Channels, NEW content \in Contents,
               CreateMessage(k, channel, content)
        PROVE  rows'[l] = rows[l] \/ ChangedOnce(l)
    <2>1. rows[k].revision = 0 /\ InsertedRow(channel, content).revision = 1
      BY <1>1, <1>3 DEF CreateMessage, Exists, RowIsSound, InsertedRow, AbsentRow
    <2>2. ~Archived(rows[k]) /\ SetRow(k, InsertedRow(channel, content))
      BY <1>3 DEF CreateMessage, Exists, Archived
    <2>3. QED
      BY <1>2, <2>1, <2>2
  <1>4. ASSUME NEW channel \in Channels, NEW content \in Contents,
               ReplaceMessage(k, channel, content)
        PROVE  rows'[l] = rows[l] \/ ChangedOnce(l)
    <2>1. ReplacedRow(rows[k], channel, content).revision = rows[k].revision + 1
      BY DEF ReplacedRow
    <2>2. QED
      BY <1>2, <1>4, <2>1 DEF ReplaceMessage, Markable
  <1>5. CASE ArchiveMessage(k)
    <2>1. ArchivedRow(rows[k]).revision = rows[k].revision + 1
      BY <1>1 DEF ArchivedRow, Row
    <2>2. QED
      BY <1>2, <1>5, <2>1 DEF ArchiveMessage, Markable
  <1>6. CASE ReconcileMessage(k) \/ NextCheckElapses(k)
    <2>1. \A row \in {MarkedRow(rows[k]), [rows[k] EXCEPT !.due = TRUE]} :
              /\ row.revision = rows[k].revision
              /\ row.channel = rows[k].channel /\ row.content = rows[k].content
      BY <1>1 DEF MarkedRow, Row
    <2>2. QED
      BY <1>2, <1>6, <2>1 DEF ReconcileMessage, NextCheckElapses, Markable
  <1>7. CASE LeaseExpires(k)
    <2> DEFINE row == [rows[k] EXCEPT !.lease = "expired"]
    <2>1. /\ row.revision = rows[k].revision
          /\ row.channel = rows[k].channel /\ row.content = rows[k].content
      BY <1>1 DEF Row
    <2>2. SetRow(k, row) /\ rows[k].lease = "live"
      BY <1>7 DEF LeaseExpires
    <2>3. ~Archived(rows[k])
      BY <1>1, <2>2 DEF RowIsSound, Archived
    <2> HIDE DEF row
    <2>4. QED
      BY <1>2, <2>1, <2>2, <2>3
  <1>8. QED
    BY <1>3, <1>4, <1>5, <1>6, <1>7 DEF Client

\* A worker's statement needs its owner's lease, which no archived row carries.
LEMMA StatementChangesOnce ==
    ASSUME IInv, NEW p \in Owners, NEW k \in Keys, Complete(p, k) \/ ReleaseRow(p, k),
           NEW l \in Keys
    PROVE  rows'[l] = rows[l] \/ ChangedOnce(l)
  <1> DEFINE job == jobs[p][k]
             completed == CompletedRow(rows[k], job.found, job.hash)
             released == ReleasedRow(rows[k], job.verdict, job.found, job.hash)
  <1>1. rows[k] \in Row /\ RowIsSound(k) /\ rows \in [Keys -> Row]
    BY JobRowType DEF IInv, TypeOK
  <1>2. CASE ~Held(rows[k], p, job.revision)
    BY <1>2 DEF Complete, ReleaseRow, Conflicted
  <1>3. CASE Held(rows[k], p, job.revision)
    <2>1. ~Archived(rows[k])
      BY <1>1, <1>3, MessageRowsAssumption DEF Held, RowIsSound, Archived
    <2>2. /\ completed.revision = rows[k].revision
          /\ completed.channel = rows[k].channel
          /\ completed.content = rows[k].content
      BY <1>1 DEF CompletedRow, Row
    <2>3. /\ released.revision = rows[k].revision
          /\ released.channel = rows[k].channel
          /\ released.content = rows[k].content
      BY <1>1 DEF ReleasedRow, Row
    <2>4. \E row \in {completed, released} : SetRow(k, row)
      BY <1>3 DEF Complete, ReleaseRow
    <2> HIDE DEF completed, released
    <2>5. QED
      BY <1>1, <2>1, <2>2, <2>3, <2>4 DEF SetRow, ChangedOnce
  <1>4. QED
    BY <1>2, <1>3

LEMMA StepChangesOnce ==
    ASSUME IInv, [Next]_vars, NEW l \in Keys
    PROVE  rows'[l] = rows[l] \/ ChangedOnce(l)
  <1>1. ASSUME NEW p \in Owners, ClaimDue(p)
        PROVE  rows'[l] = rows[l] \/ ChangedOnce(l)
    <2>1. rows[l] \in Row
      BY JobRowType DEF IInv
    <2>2. PICK batch \in Batches :
            rows' = [k \in Keys |-> IF k \in batch THEN ClaimedRow(rows[k], p)
                                                   ELSE rows[k]]
      BY <1>1 DEF ClaimDue
    <2>3. l \in batch => ~Archived(rows[l])
      BY DEF Batches, Due, Claimable, Archived
    <2>4. /\ ClaimedRow(rows[l], p).revision = rows[l].revision
          /\ ClaimedRow(rows[l], p).channel = rows[l].channel
          /\ ClaimedRow(rows[l], p).content = rows[l].content
      BY <2>1 DEF ClaimedRow, Row
    <2>5. QED
      BY <2>2, <2>3, <2>4 DEF ChangedOnce
  <1>2. ASSUME NEW p \in Owners, NEW k \in Keys, JobStep(p, k) \/ JobFault(p, k),
               ~Complete(p, k), ~ReleaseRow(p, k)
        PROVE  rows' = rows
    <2>1. CASE JobStep(p, k)
      BY <1>2, <2>1 DEF JobStep, StartJob, FetchRemote, CreateRemote, ReplaceRemote,
                        CleanupStaleCreate
    <2>2. CASE JobFault(p, k)
      BY <2>2 DEF JobFault, AssignmentRefused, FetchFails, CreateFails, ReplaceFails,
                  StatementFails, CleanupFails
    <2>3. QED
      BY <1>2, <2>1, <2>2
  <1>3. ASSUME \/ UNCHANGED vars
               \/ \E p \in Owners : Crash(p)
               \/ \E m \in MessageIds : NonceForgotten(m) \/ MessageDeleted(m)
        PROVE  rows' = rows
    BY <1>3 DEF vars, Crash, NonceForgotten, MessageDeleted
  <1>4. QED
    BY <1>1, <1>2, <1>3, ClientChangesOnce, StatementChangesOnce DEF Next

\* No job that was under way when its row was archived ever writes the row.
THEOREM ArchivedFinal == Spec => ArchivedIsFinal
  <1>1. IInv /\ [Next]_vars =>
            [\A k \in Keys : Archived(rows[k]) => rows'[k] = rows[k]]_vars
    BY StepChangesOnce DEF ChangedOnce
  <1>2. QED
    BY <1>1, Invariance, PTL DEF Spec, ArchivedIsFinal

\* A revision names one definition: clients that replace or archive with the
\* revision they read never overwrite a definition they have not seen.
THEOREM RevisionsTrackDefinitions == Spec => RevisionTracksDefinition
  <1>1. IInv /\ [Next]_vars =>
            [\A k \in Keys :
                \/ rows'[k].revision = rows[k].revision + 1
                \/ /\ rows'[k].revision = rows[k].revision
                   /\ rows'[k].channel = rows[k].channel
                   /\ rows'[k].content = rows[k].content]_vars
    BY StepChangesOnce DEF ChangedOnce
  <1>2. QED
    BY <1>1, Invariance, PTL DEF Spec, RevisionTracksDefinition

-----------------------------------------------------------------------------
(* The cleanup of stale creations, by a single process.                    *)

\* What a step of a job that is not its last statement does to the job.
LEMMA JobKeepsId ==
    ASSUME TypeOK, NEW p \in Owners, NEW k \in Keys, JobStep(p, k) \/ JobFault(p, k),
           ~Complete(p, k), ~ReleaseRow(p, k)
    PROVE  /\ rows' = rows /\ ~At(p, k, "idle")
           /\ \A q \in Owners, l \in Keys :
                  <<q, l>> # <<p, k>> => jobs'[q][l] = jobs[q][l]
           /\ \/ jobs'[p][k].step = "idle"
              \/ /\ jobs'[p][k].message = jobs[p][k].message
                 /\ jobs'[p][k].step # "cleanup"
  <1>1. /\ jobs \in [Owners -> [Keys -> Job]] /\ jobs[p][k] \in Job
        /\ IdleJob.step = "idle"
    BY JobType DEF TypeOK, IdleJob
  <1>2. ASSUME NEW verdict \in {"drifted", "blocked"}, Failed(p, k, verdict)
        PROVE  \E job : /\ SetJob(p, k, job) /\ job.step = "release"
                        /\ job.message = jobs[p][k].message
    <2> DEFINE job == [jobs[p][k] EXCEPT !.step = "release", !.verdict = verdict]
    <2>1. job.step = "release" /\ job.message = jobs[p][k].message
      BY <1>1 DEF Job
    <2>2. SetJob(p, k, job)
      BY <1>2 DEF Failed
    <2> HIDE DEF job
    <2>3. QED
      BY <2>1, <2>2
  <1>3. ASSUME NEW m, NEW hash, Observed(p, k, m, hash)
        PROVE  \E job : /\ SetJob(p, k, job) /\ job.step \in {"complete", "release"}
                        /\ job.message = jobs[p][k].message
    <2> DEFINE step == IF hash = jobs[p][k].content THEN "complete" ELSE "release"
               job == [jobs[p][k] EXCEPT !.found = m, !.hash = hash,
                                         !.verdict = "drifted", !.step = step]
    <2>1. step \in {"complete", "release"} /\ SetJob(p, k, job)
      BY <1>3 DEF Observed
    <2> HIDE DEF step
    <2>2. job.step = step /\ job.message = jobs[p][k].message
      BY <1>1 DEF Job
    <2> HIDE DEF job
    <2>3. QED
      BY <2>1, <2>2
  <1>4. ASSUME NEW step \in {"create", "fetch", "replace"},
               SetJob(p, k, [jobs[p][k] EXCEPT !.step = step])
        PROVE  \E job : /\ SetJob(p, k, job) /\ job.step = step
                        /\ job.message = jobs[p][k].message
    BY <1>1, <1>4 DEF Job
  <1>5. rows' = rows /\ ~At(p, k, "idle")
    BY DEF JobStep, JobFault, StartJob, FetchRemote, CreateRemote, ReplaceRemote,
           CleanupStaleCreate, AssignmentRefused, FetchFails, CreateFails, ReplaceFails,
           StatementFails, CleanupFails, At
  <1>6. \E job : /\ SetJob(p, k, job)
                 /\ \/ job.step = "idle"
                    \/ /\ job.message = jobs[p][k].message
                       /\ job.step # "cleanup"
    <2>1. CASE StartJob(p, k) \/ FetchRemote(p, k)
      BY <1>3, <1>4, <2>1 DEF StartJob, FetchRemote
    <2>2. CASE CreateRemote(p, k) \/ ReplaceRemote(p, k)
      BY <1>2, <1>3, <2>2 DEF CreateRemote, ReplaceRemote
    <2>3. CASE AssignmentRefused(p, k) \/ FetchFails(p, k) \/ CreateFails(p, k)
                  \/ ReplaceFails(p, k)
      BY <1>2, <2>3 DEF AssignmentRefused, FetchFails, CreateFails, ReplaceFails
    <2>4. CASE CleanupStaleCreate(p, k) \/ StatementFails(p, k) \/ CleanupFails(p, k)
      BY <1>1, <2>4 DEF CleanupStaleCreate, StatementFails, CleanupFails
    <2>5. QED
      BY <2>1, <2>2, <2>3, <2>4 DEF JobStep, JobFault
  <1>7. QED
    BY <1>1, <1>5, <1>6 DEF SetJob

\* What clients and time do to the id of a row.
LEMMA ClientKeepsId ==
    ASSUME TypeOK, NEW k \in Keys, Client(k) \/ NextCheckElapses(k) \/ LeaseExpires(k),
           NEW l \in Keys
    PROVE  jobs' = jobs /\ rows'[l].message \in {rows[l].message, NoMessage}
  <1>1. jobs' = jobs /\ \E row : SetRow(k, row) /\ row.message \in {rows[k].message, NoMessage}
    <2>1. rows[k] \in Row
      BY JobRowType
    <2>2. \A channel, content : InsertedRow(channel, content).message = NoMessage
      BY DEF InsertedRow, AbsentRow
    <2>3. \A channel, content : ReplacedRow(rows[k], channel, content).message
                                    \in {rows[k].message, NoMessage}
      BY DEF ReplacedRow
    <2>4. /\ ArchivedRow(rows[k]).message = rows[k].message
          /\ MarkedRow(rows[k]).message = rows[k].message
          /\ [rows[k] EXCEPT !.due = TRUE].message = rows[k].message
          /\ [rows[k] EXCEPT !.lease = "expired"].message = rows[k].message
      BY <2>1 DEF ArchivedRow, MarkedRow, Row
    <2>5. CASE \E channel \in Channels, content \in Contents :
                  CreateMessage(k, channel, content) \/ ReplaceMessage(k, channel, content)
      BY <2>2, <2>3, <2>5 DEF CreateMessage, ReplaceMessage
    <2>6. CASE ArchiveMessage(k) \/ ReconcileMessage(k)
      BY <2>4, <2>6 DEF ArchiveMessage, ReconcileMessage
    <2>7. CASE NextCheckElapses(k)
      BY <2>4, <2>7 DEF NextCheckElapses
    <2>8. CASE LeaseExpires(k)
      BY <2>4, <2>8 DEF LeaseExpires
    <2>9. QED
      BY <2>5, <2>6, <2>7, <2>8 DEF Client
  <1>2. QED
    BY <1>1 DEF TypeOK, SetRow

LEMMA SingleStep ==
    ASSUME IInv, NEW p, Owners = {p}, [Next]_vars, NEW k \in Keys,
           \A l \in Keys : StoresFirst(p, l)
    PROVE  StoresFirst(p, k)'
  <1>1. /\ TypeOK /\ jobs \in [Owners -> [Keys -> Job]] /\ rows \in [Keys -> Row]
        /\ IdleJob.step = "idle"
    BY DEF IInv, TypeOK, IdleJob
  <1>2. ASSUME UNCHANGED <<rows, jobs>>
        PROVE  StoresFirst(p, k)'
    BY <1>2 DEF StoresFirst, At
  <1>3. ASSUME NEW l \in Keys, Client(l) \/ NextCheckElapses(l) \/ LeaseExpires(l)
        PROVE  StoresFirst(p, k)'
    BY <1>1, <1>3, ClientKeepsId DEF StoresFirst, At
  <1>4. CASE ClaimDue(p)
    <2>1. PICK batch \in Batches :
            /\ rows' = [l \in Keys |-> IF l \in batch THEN ClaimedRow(rows[l], p)
                                                      ELSE rows[l]]
            /\ jobs' = [jobs EXCEPT ![p] =
                            [l \in Keys |-> IF l \in batch THEN ClaimedJob(rows[l])
                                                           ELSE @[l]]]
      BY <1>4 DEF ClaimDue
    <2>2. /\ jobs'[p][k] = IF k \in batch THEN ClaimedJob(rows[k]) ELSE jobs[p][k]
          /\ rows'[k] = IF k \in batch THEN ClaimedRow(rows[k], p) ELSE rows[k]
      BY <1>1, <2>1
    <2>3. /\ ClaimedRow(rows[k], p).message = rows[k].message
          /\ ClaimedJob(rows[k]).message = rows[k].message
          /\ ClaimedJob(rows[k]).step = "queued"
      BY <1>1 DEF ClaimedRow, ClaimedJob, Row, IdleJob
    <2>4. QED
      BY <2>2, <2>3 DEF StoresFirst, At
  <1>5. CASE Crash(p)
    BY <1>1, <1>5 DEF Crash, StoresFirst, At
  <1>6. ASSUME NEW l \in Keys, JobStep(p, l) \/ JobFault(p, l),
               ~Complete(p, l), ~ReleaseRow(p, l)
        PROVE  StoresFirst(p, k)'
    BY <1>1, <1>6, JobKeepsId DEF StoresFirst, At
  <1>7. ASSUME NEW l \in Keys, Complete(p, l) \/ ReleaseRow(p, l)
        PROVE  StoresFirst(p, k)'
    <2>1. CASE Held(rows[l], p, jobs[p][l].revision)
      BY <1>1, <1>7, <2>1 DEF Complete, ReleaseRow, SetRow, SetJob, StoresFirst, At
    <2>2. CASE ~Held(rows[l], p, jobs[p][l].revision)
      <3>1. /\ rows' = rows /\ ~At(p, l, "idle")
            /\ SetJob(p, l, IF StaleCreate(jobs[p][l])
                            THEN [jobs[p][l] EXCEPT !.step = "cleanup"] ELSE IdleJob)
        BY <1>7, <2>2 DEF Complete, ReleaseRow, Conflicted, At
      <3>2. CASE StaleCreate(jobs[p][l])
        BY <1>1, <3>1, <3>2 DEF SetJob, StoresFirst, At, StaleCreate, Job
      <3>3. CASE ~StaleCreate(jobs[p][l])
        BY <1>1, <3>1, <3>3 DEF SetJob, StoresFirst, At
      <3>4. QED
        BY <3>2, <3>3
    <2>3. QED
      BY <2>1, <2>2
  <1>8. QED
    BY <1>2, <1>3, <1>4, <1>5, <1>6, <1>7 DEF Next, vars, NonceForgotten, MessageDeleted

\* With one process, as README.md asks for, no cleanup ever deletes the message a
\* row points to: between its claim and its end nobody but the job stores an id.
THEOREM CleanupSpares ==
    ASSUME NEW p, Owners = {p}
    PROVE  Spec => []CleanupSparesStored
  <1>1. Init => \A k \in Keys : StoresFirst(p, k)
    BY DEF Init, StoresFirst, At, IdleJob
  <1>2. IInv /\ (\A k \in Keys : StoresFirst(p, k)) /\ [Next]_vars
            => (\A k \in Keys : StoresFirst(p, k))'
    BY SingleStep
  <1>3. IInv /\ (\A k \in Keys : StoresFirst(p, k)) => CleanupSparesStored
    <2>1. SUFFICES ASSUME IInv, \A l \in Keys : StoresFirst(p, l),
                          NEW k \in Keys, At(p, k, "cleanup"), NEW other \in Keys
                   PROVE  rows[other].message # jobs[p][k].found
      BY DEF CleanupSparesStored, At
    <2>2. jobs[p][k].found # NoMessage /\ Belongs(jobs[p][k].found, k, jobs[p][k].channel)
      BY <2>1 DEF IInv, JobIsSound, At
    <2>3. Belongs(rows[other].message, other, rows[other].channel)
      BY <2>1 DEF IInv, RowOwnsItsMessage
    <2>4. rows[k].message = NoMessage
      BY <2>1 DEF StoresFirst, At
    <2>5. QED
      BY <2>2, <2>3, <2>4 DEF Belongs
  <1>4. QED
    BY <1>1, <1>2, <1>3, Invariance, PTL DEF Spec

-----------------------------------------------------------------------------
(* Messages that nobody stores, by a single process.                       *)

\* A step keeps what was said when a message was created, and says it of a new
\* one for a job under way.
NoncesKeep ==
    \A m \in MessageIds :
        \/ /\ discord'[m].status # "unused" <=> discord[m].status # "unused"
           /\ discord'[m].key = discord[m].key
           /\ discord'[m].revision = discord[m].revision
           /\ discord'[m].channel = discord[m].channel
        \/ /\ rows' = rows
           /\ \E p \in Owners, k \in Keys :
                  /\ ~At(p, k, "idle")
                  /\ discord'[m].key = k
                  /\ discord'[m].revision = jobs[p][k].revision
                  /\ discord'[m].channel = jobs[p][k].channel

LEMMA CreatesNonce ==
    ASSUME IInv, NEW p \in Owners, NEW k \in Keys, ~At(p, k, "idle"), rows' = rows,
           NEW content, Creates(jobs[p][k], k, content)
    PROVE  NoncesKeep
  <1>1. \A m \in MessageIds :
            discord'[m] = IF m = created + 1
                          THEN [status |-> "live", channel |-> jobs[p][k].channel,
                                content |-> content, key |-> k,
                                revision |-> jobs[p][k].revision, fresh |-> TRUE]
                          ELSE discord[m]
    BY DEF Creates, IInv, TypeOK
  <1>2. QED
    BY <1>1 DEF NoncesKeep

LEMMA EditsNonce ==
    ASSUME IInv, NEW m, NEW content, Edits(m, content)
    PROVE  NoncesKeep
  <1>1. \A n \in MessageIds : discord[n] \in Remote
    BY DEF IInv, TypeOK
  <1>2. \A n \in MessageIds : /\ discord'[n].status = discord[n].status
                              /\ discord'[n].key = discord[n].key
                              /\ discord'[n].revision = discord[n].revision
                              /\ discord'[n].channel = discord[n].channel
    BY <1>1 DEF Edits, Remote, IInv, TypeOK
  <1>3. QED
    BY <1>2 DEF NoncesKeep

LEMMA DeletionNonce ==
    ASSUME IInv, NEW m, m \in MessageIds => discord[m].status # "unused",
           discord' = [discord EXCEPT ![m].status = "deleted"]
    PROVE  NoncesKeep
  <1>1. \A n \in MessageIds : discord[n] \in Remote
    BY DEF IInv, TypeOK
  <1>2. \A n \in MessageIds : /\ discord'[n].status # "unused" <=> discord[n].status # "unused"
                              /\ discord'[n].key = discord[n].key
                              /\ discord'[n].revision = discord[n].revision
                              /\ discord'[n].channel = discord[n].channel
    BY <1>1 DEF Remote, IInv, TypeOK
  <1>3. QED
    BY <1>2 DEF NoncesKeep

LEMMA StepKeepsNonces ==
    ASSUME IInv, [Next]_vars
    PROVE  NoncesKeep
  <1>1. CASE discord' = discord
    BY <1>1 DEF NoncesKeep
  <1>2. ASSUME NEW m \in MessageIds, NonceForgotten(m) \/ MessageDeleted(m)
        PROVE  NoncesKeep
    <2>1. CASE NonceForgotten(m)
      <3>1. \A n \in MessageIds : discord[n] \in Remote
        BY DEF IInv, TypeOK
      <3>2. \A n \in MessageIds : /\ discord'[n].status = discord[n].status
                                  /\ discord'[n].key = discord[n].key
                                  /\ discord'[n].revision = discord[n].revision
                                  /\ discord'[n].channel = discord[n].channel
        BY <2>1, <3>1 DEF NonceForgotten, Remote, IInv, TypeOK
      <3>3. QED
        BY <3>2 DEF NoncesKeep
    <2>2. CASE MessageDeleted(m)
      BY <2>2, DeletionNonce DEF MessageDeleted, Live
    <2>3. QED
      BY <1>2, <2>1, <2>2
  <1>3. ASSUME NEW p \in Owners, NEW k \in Keys, JobStep(p, k) \/ JobFault(p, k)
        PROVE  NoncesKeep
    <2>1. CASE CreateRemote(p, k) \/ CreateFails(p, k)
      <3>1. rows' = rows /\ ~At(p, k, "idle")
        BY <2>1 DEF CreateRemote, CreateFails, At
      <3>2. discord' = discord \/ \E content : Creates(jobs[p][k], k, content)
        BY <2>1 DEF CreateRemote, CreateFails
      <3>3. QED
        BY <1>1, <3>1, <3>2, CreatesNonce
    <2>2. CASE ReplaceRemote(p, k) \/ ReplaceFails(p, k)
      BY <1>1, <2>2, EditsNonce DEF ReplaceRemote, ReplaceFails
    <2>3. CASE CleanupStaleCreate(p, k)
      <3>1. Belongs(jobs[p][k].found, k, jobs[p][k].channel) /\ jobs[p][k].found # NoMessage
        BY <2>3, JobFacts DEF CleanupStaleCreate, JobIsSound, At
      <3>2. QED
        BY <2>3, <3>1, DeletionNonce DEF CleanupStaleCreate, Belongs
    <2>4. CASE ~(\/ CreateRemote(p, k) \/ CreateFails(p, k) \/ ReplaceRemote(p, k)
                 \/ ReplaceFails(p, k) \/ CleanupStaleCreate(p, k))
      BY <1>1, <1>3, <2>4 DEF JobStep, JobFault, StartJob, FetchRemote, Complete,
         ReleaseRow, AssignmentRefused, FetchFails, StatementFails, CleanupFails
    <2>5. QED
      BY <2>1, <2>2, <2>3, <2>4
  <1>4. QED
    BY <1>1, <1>2, <1>3 DEF Next, vars, Client, CreateMessage, ReplaceMessage,
       ArchiveMessage, ReconcileMessage, NextCheckElapses, LeaseExpires, ClaimDue, Crash

LEMMA StepKeepsNoncesPast ==
    ASSUME IInv, [Next]_vars, NEW m \in MessageIds, NonceIsPast(m)
    PROVE  NonceIsPast(m)'
  <1>1. NoncesKeep
    BY StepKeepsNonces
  <1>2. \A k \in Keys : /\ rows[k] \in Row
                        /\ rows'[k] = rows[k] \/ ChangedOnce(k)
    BY StepChangesOnce, JobFacts, JobRowType DEF IInv
  <1>3. discord[m] \in Remote
    BY DEF IInv, TypeOK
  <1>4. CASE /\ discord'[m].status # "unused" <=> discord[m].status # "unused"
             /\ discord'[m].key = discord[m].key
             /\ discord'[m].revision = discord[m].revision
             /\ discord'[m].channel = discord[m].channel
    <2> SUFFICES ASSUME discord[m].status # "unused", NEW k \in Keys, discord[m].key = k
                 PROVE  /\ discord[m].revision <= rows'[k].revision
                        /\ discord[m].revision = rows'[k].revision =>
                               discord[m].channel = rows'[k].channel
      BY <1>4 DEF NonceIsPast
    <2>1. discord[m].revision \in Nat /\ rows[k].revision \in Nat
      BY <1>2, <1>3 DEF Remote, Row
    <2>2. /\ discord[m].revision <= rows[k].revision
          /\ discord[m].revision = rows[k].revision => discord[m].channel = rows[k].channel
      BY DEF NonceIsPast
    <2>3. QED
      BY <1>2, <2>1, <2>2 DEF ChangedOnce
  <1>5. ASSUME rows' = rows, NEW p \in Owners, NEW k \in Keys, ~At(p, k, "idle"),
               discord'[m].key = k, discord'[m].revision = jobs[p][k].revision,
               discord'[m].channel = jobs[p][k].channel
        PROVE  NonceIsPast(m)'
    BY <1>5, JobFacts DEF NonceIsPast, CopyIsPast, At
  <1>6. QED
    BY <1>1, <1>4, <1>5 DEF NoncesKeep

LEMMA NoFault ==
    ASSUME TypeOK, NEW kind, faults' = MaxFaults
    PROVE  ~Fault(kind)
  BY ManagedMessagesAssumption DEF TypeOK, Fault

\* Every message stays where it is.
RemotesStay ==
    \A m \in MessageIds : /\ discord'[m].status = discord[m].status
                          /\ discord'[m].key = discord[m].key
                          /\ discord'[m].channel = discord[m].channel

\* An id stays in its channel, or the row is inserted, or it is moved.
IdMoves(old, new) ==
    \/ /\ new.message = old.message
       /\ new.channel = old.channel
       /\ new.revision \in {old.revision, old.revision + 1}
    \/ /\ new.message = NoMessage
       /\ old.revision = 0
    \/ /\ new.message = NoMessage
       /\ new.channel # old.channel
       /\ new.revision = old.revision + 1

\* What a client, or time, does to the id of a row.
LEMMA ClientMovesId ==
    ASSUME TypeOK, NEW k \in Keys, Client(k) \/ NextCheckElapses(k) \/ LeaseExpires(k),
           RowIsSound(k), NEW l \in Keys
    PROVE  IdMoves(rows[l], rows'[l])
  <1>1. rows[k] \in Row /\ rows \in [Keys -> Row]
    BY JobRowType DEF TypeOK
  <1>2. \E row : SetRow(k, row) /\ IdMoves(rows[k], row)
    <2>1. ASSUME NEW channel \in Channels, NEW content \in Contents,
                 CreateMessage(k, channel, content)
          PROVE  /\ SetRow(k, InsertedRow(channel, content))
                 /\ InsertedRow(channel, content).message = NoMessage
                 /\ rows[k].revision = 0
      BY <2>1 DEF CreateMessage, Exists, RowIsSound, InsertedRow, AbsentRow
    <2>2. ASSUME NEW channel \in Channels, NEW content \in Contents,
                 ReplaceMessage(k, channel, content)
          PROVE  /\ SetRow(k, ReplacedRow(rows[k], channel, content))
                 /\ ReplacedRow(rows[k], channel, content).channel = channel
                 /\ ReplacedRow(rows[k], channel, content).revision = rows[k].revision + 1
                 /\ ReplacedRow(rows[k], channel, content).message
                        = IF channel = rows[k].channel THEN rows[k].message ELSE NoMessage
      BY <2>2 DEF ReplaceMessage, ReplacedRow
    <2>3. CASE ArchiveMessage(k)
      <3>1. /\ ArchivedRow(rows[k]).message = rows[k].message
            /\ ArchivedRow(rows[k]).channel = rows[k].channel
            /\ ArchivedRow(rows[k]).revision = rows[k].revision + 1
        BY <1>1 DEF ArchivedRow, Row
      <3>2. QED
        BY <2>3, <3>1 DEF ArchiveMessage, IdMoves
    <2>4. CASE ReconcileMessage(k) \/ NextCheckElapses(k) \/ LeaseExpires(k)
      <3>1. \A row \in {MarkedRow(rows[k]), [rows[k] EXCEPT !.due = TRUE],
                        [rows[k] EXCEPT !.lease = "expired"]} :
                /\ row.message = rows[k].message
                /\ row.channel = rows[k].channel
                /\ row.revision = rows[k].revision
        BY <1>1 DEF MarkedRow, Row
      <3>2. QED
        BY <2>4, <3>1 DEF ReconcileMessage, NextCheckElapses, LeaseExpires, IdMoves
    <2>5. ASSUME NEW channel \in Channels, NEW content \in Contents,
                 CreateMessage(k, channel, content) \/ ReplaceMessage(k, channel, content)
          PROVE  \E row : SetRow(k, row) /\ IdMoves(rows[k], row)
      BY <2>1, <2>2, <2>5 DEF IdMoves
    <2>6. QED
      BY <2>3, <2>4, <2>5 DEF Client
  <1>3. QED
    BY <1>1, <1>2 DEF SetRow, IdMoves

LEMMA ClientLosesNothing ==
    ASSUME IInv, NEW p \in Owners, NEW k \in Keys,
           Client(k) \/ NextCheckElapses(k) \/ LeaseExpires(k),
           \A m \in MessageIds : NonceIsPast(m), Faultless(p)
    PROVE  Faultless(p)'
  <1>1. UNCHANGED <<jobs, discord>>
    BY DEF Client, CreateMessage, ReplaceMessage, ArchiveMessage, ReconcileMessage,
           NextCheckElapses, LeaseExpires
  <1>2. ASSUME NEW l \in Keys
        PROVE  IdMoves(rows[l], rows'[l])
    BY JobFacts, ClientMovesId
  <1>3. ASSUME NEW l \in Keys
        PROVE  NothingIsLost(p, l)'
    <2>1. NothingIsLost(p, l)
      BY DEF Faultless
    <2>2. QED
      BY <1>1, <1>2, <2>1 DEF NothingIsLost, Live, IdMoves
  <1>4. ASSUME NEW m \in MessageIds
        PROVE  IsAccountedFor(p, m)'
    <2> SUFFICES ASSUME NEW l \in Keys, discord[m].key = l, Live(m),
                        discord[m].channel = rows'[l].channel, rows'[l].revision <= 2
                 PROVE  \/ rows'[l].message = m
                        \/ /\ jobs[p][l].step \in {"complete", "release", "cleanup"}
                           /\ jobs[p][l].found = m /\ jobs[p][l].message = NoMessage
      BY <1>1 DEF IsAccountedFor, Live, NonceIsPast
    <2>1. rows[l].revision \in Nat /\ discord[m].revision \in Nat
      BY JobFacts DEF Row, Remote, TypeOK
    <2>2. /\ discord[m].revision > 0
          /\ discord[m].revision <= rows[l].revision
          /\ discord[m].revision = rows[l].revision => discord[m].channel = rows[l].channel
      BY DEF NonceIsPast, Live
    <2>3. /\ rows'[l].message = rows[l].message
          /\ rows'[l].channel = rows[l].channel
          /\ rows'[l].revision \in {rows[l].revision, rows[l].revision + 1}
      BY <1>2, <2>1, <2>2 DEF IdMoves
    <2>4. rows[l].revision <= 2
      BY <2>1, <2>3
    <2>5. IsAccountedFor(p, m)
      BY DEF Faultless
    <2>6. QED
      BY <2>3, <2>4, <2>5 DEF IsAccountedFor
  <1>5. QED
    BY <1>3, <1>4 DEF Faultless

LEMMA ClaimLosesNothing ==
    ASSUME IInv, NEW p \in Owners, ClaimDue(p),
           \A m \in MessageIds : NonceIsPast(m), Faultless(p)
    PROVE  Faultless(p)'
  <1>1. PICK batch \in Batches :
            /\ rows' = [l \in Keys |-> IF l \in batch THEN ClaimedRow(rows[l], p)
                                                      ELSE rows[l]]
            /\ jobs' = [jobs EXCEPT ![p] =
                            [l \in Keys |-> IF l \in batch THEN ClaimedJob(rows[l])
                                                           ELSE @[l]]]
    BY DEF ClaimDue
  <1>2. /\ discord' = discord /\ TypeOK
        /\ \A k \in Keys : jobs[p][k].step = "idle" /\ rows[k] \in Row
    BY JobFacts DEF ClaimDue, IdleProcess, At, IInv
  <1>3. \A k \in Keys :
            /\ jobs'[p][k] = IF k \in batch THEN ClaimedJob(rows[k]) ELSE jobs[p][k]
            /\ rows'[k] = IF k \in batch THEN ClaimedRow(rows[k], p) ELSE rows[k]
    BY <1>1, <1>2 DEF TypeOK
  <1>4. ASSUME NEW k \in Keys
        PROVE  /\ rows'[k].message = rows[k].message
               /\ rows'[k].channel = rows[k].channel
               /\ rows'[k].revision = rows[k].revision
               /\ jobs'[p][k].step \in {"idle", "queued"}
               /\ jobs'[p][k].step = "queued" => jobs'[p][k].message = rows[k].message
    <2>1. /\ ClaimedRow(rows[k], p).message = rows[k].message
          /\ ClaimedRow(rows[k], p).channel = rows[k].channel
          /\ ClaimedRow(rows[k], p).revision = rows[k].revision
          /\ ClaimedJob(rows[k]).message = rows[k].message
          /\ ClaimedJob(rows[k]).step = "queued"
      BY <1>2 DEF ClaimedRow, ClaimedJob, Row, IdleJob
    <2>2. QED
      BY <1>2, <1>3, <2>1
  <1>5. ASSUME NEW k \in Keys
        PROVE  NothingIsLost(p, k)'
    <2>1. NothingIsLost(p, k)
      BY DEF Faultless
    <2>2. QED
      BY <1>2, <1>4, <2>1 DEF NothingIsLost, Live
  <1>6. ASSUME NEW m \in MessageIds
        PROVE  IsAccountedFor(p, m)'
    <2>1. IsAccountedFor(p, m)
      BY DEF Faultless
    <2>2. Live(m) => discord[m].key \in Keys
      BY DEF NonceIsPast, Live
    <2>3. QED
      BY <1>2, <1>4, <2>1, <2>2 DEF IsAccountedFor, Live
  <1>7. QED
    BY <1>5, <1>6 DEF Faultless

InHandSteps == {"complete", "release", "cleanup"}

\* A job that comes to have something in hand, or nothing, while Discord's
\* messages stay.
LEMMA MoveLosesNothing ==
    ASSUME IInv, NEW p \in Owners, NEW k \in Keys, Faultless(p),
           \A m \in MessageIds : NonceIsPast(m), rows' = rows, RemotesStay,
           NEW job, SetJob(p, k, job), ~At(p, k, "idle"),
           jobs[p][k].step \notin InHandSteps,
           job.message = jobs[p][k].message,
           job.step = "create" => job.message = NoMessage,
           job.step \in InHandSteps /\ job.found # NoMessage =>
               job.found \in MessageIds /\ Live(job.found)
    PROVE  Faultless(p)'
  <1>1. /\ jobs'[p][k] = job
        /\ \A l \in Keys : l # k => jobs'[p][l] = jobs[p][l]
    BY DEF SetJob, IInv, TypeOK
  <1>2. \A m \in MessageIds : Live(m) <=> Live(m)'
    BY DEF RemotesStay, Live
  <1>3. ASSUME NEW l \in Keys
        PROVE  NothingIsLost(p, l)'
    <2>1. NothingIsLost(p, l) /\ jobs[p][l] \in Job /\ rows[l] \in Row
      BY JobFacts DEF Faultless
    <2>2. /\ jobs[p][l].message \in MessageIds \union {NoMessage}
          /\ jobs[p][l].found \in MessageIds \union {NoMessage}
          /\ rows[l].message \in MessageIds \union {NoMessage}
      BY <2>1 DEF Job, Row
    <2>3. CASE l = k
      BY <1>1, <1>2, <2>1, <2>2, <2>3 DEF NothingIsLost, InHandSteps, At
    <2>4. CASE l # k
      BY <1>1, <1>2, <2>1, <2>2, <2>4 DEF NothingIsLost
    <2>5. QED
      BY <2>3, <2>4
  <1>4. ASSUME NEW m \in MessageIds
        PROVE  IsAccountedFor(p, m)'
    <2>1. IsAccountedFor(p, m)
      BY DEF Faultless
    <2>2. Live(m) => discord[m].key \in Keys
      BY DEF NonceIsPast, Live
    <2>3. QED
      BY <1>1, <1>2, <2>1, <2>2 DEF IsAccountedFor, RemotesStay, InHandSteps
  <1>5. QED
    BY <1>3, <1>4 DEF Faultless

\* A creation by a job that holds no id, with its answer in hand.
LEMMA CreationLosesNothing ==
    ASSUME IInv, NEW p \in Owners, NEW k \in Keys, Faultless(p),
           \A m \in MessageIds : NonceIsPast(m), rows' = rows,
           NEW content \in Hashes, Creates(jobs[p][k], k, content),
           NEW job, SetJob(p, k, job), job.step \in InHandSteps,
           jobs[p][k].step \notin InHandSteps,
           job.message = NoMessage, job.found = created + 1
    PROVE  Faultless(p)'
  <1>1. /\ jobs'[p][k] = job
        /\ \A l \in Keys : l # k => jobs'[p][l] = jobs[p][l]
    BY DEF SetJob, IInv, TypeOK
  <1>2. created + 1 \in MessageIds /\ discord[created + 1].status = "unused"
    <2>1. created + 1 \in MessageIds /\ created \in Nat
      BY CreatesKeeps, MessageRowsAssumption DEF IInv, TypeOK
    <2>2. QED
      BY <2>1 DEF IInv, IdsAreFresh
  <1>3. \A m \in MessageIds :
            discord'[m] = IF m = created + 1
                          THEN [status |-> "live", channel |-> jobs[p][k].channel,
                                content |-> content, key |-> k,
                                revision |-> jobs[p][k].revision, fresh |-> TRUE]
                          ELSE discord[m]
    BY DEF Creates, IInv, TypeOK
  <1>4. \A m \in MessageIds : Live(m) => Live(m)'
    BY <1>3 DEF Live
  <1>5. /\ discord'[created + 1].status = "live"
        /\ discord'[created + 1].key = k
        /\ created + 1 # NoMessage
    BY <1>2, <1>3 DEF MessageIds, NoMessage
  <1>6. ASSUME NEW l \in Keys
        PROVE  NothingIsLost(p, l)'
    <2>1. NothingIsLost(p, l) /\ jobs[p][l] \in Job /\ rows[l] \in Row
      BY JobFacts DEF Faultless
    <2>2. /\ jobs[p][l].message \in MessageIds \union {NoMessage}
          /\ jobs[p][l].found \in MessageIds \union {NoMessage}
          /\ rows[l].message \in MessageIds \union {NoMessage}
      BY <2>1 DEF Job, Row
    <2>3. CASE l = k
      BY <1>1, <1>4, <1>5, <2>1, <2>2, <2>3 DEF NothingIsLost, InHandSteps, Live
    <2>4. CASE l # k
      BY <1>1, <1>4, <2>1, <2>2, <2>4 DEF NothingIsLost, Live
    <2>5. QED
      BY <2>3, <2>4
  <1>7. ASSUME NEW m \in MessageIds
        PROVE  IsAccountedFor(p, m)'
    <2>1. CASE m = created + 1
      BY <1>1, <1>5, <2>1 DEF IsAccountedFor, InHandSteps
    <2>2. CASE m # created + 1
      <3>1. IsAccountedFor(p, m) /\ discord'[m] = discord[m]
        BY <1>3, <2>2 DEF Faultless
      <3>2. Live(m) => discord[m].key \in Keys
        BY DEF NonceIsPast, Live
      <3>3. QED
        BY <1>1, <3>1, <3>2 DEF IsAccountedFor, InHandSteps, Live
    <2>3. QED
      BY <2>1, <2>2
  <1>8. QED
    BY <1>6, <1>7 DEF Faultless

LEMMA ObservedJob ==
    ASSUME IInv, NEW p \in Owners, NEW k \in Keys, NEW m, NEW hash,
           Observed(p, k, m, hash)
    PROVE  \E job : /\ SetJob(p, k, job) /\ job.step \in {"complete", "release"}
                    /\ job.message = jobs[p][k].message /\ job.found = m
  <1> DEFINE step == IF hash = jobs[p][k].content THEN "complete" ELSE "release"
             job == [jobs[p][k] EXCEPT !.found = m, !.hash = hash,
                                       !.verdict = "drifted", !.step = step]
  <1>1. step \in {"complete", "release"} /\ SetJob(p, k, job)
    BY DEF Observed
  <1> HIDE DEF step
  <1>2. job.step = step /\ job.message = jobs[p][k].message /\ job.found = m
    BY JobFacts DEF Job
  <1> HIDE DEF job
  <1>3. QED
    BY <1>1, <1>2

LEMMA EffectLosesNothing ==
    ASSUME IInv, NEW p \in Owners, NEW k \in Keys, Faultless(p),
           \A m \in MessageIds : NonceIsPast(m), faults' = MaxFaults,
           \/ StartJob(p, k) \/ FetchRemote(p, k)
           \/ CreateRemote(p, k) \/ ReplaceRemote(p, k)
    PROVE  Faultless(p)'
  <1> DEFINE job == jobs[p][k]
  <1>1. /\ rows' = rows /\ ~At(p, k, "idle") /\ job.step \notin InHandSteps
        /\ job \in Job /\ TypeOK /\ NothingIsLost(p, k)
        /\ job.message \in MessageIds \union {NoMessage}
    BY JobFacts DEF StartJob, FetchRemote, CreateRemote, ReplaceRemote, At, InHandSteps,
       Faultless
  <1>2. discord' = discord => RemotesStay
    BY DEF RemotesStay
  <1>3. job.message # NoMessage => Live(job.message)
    BY <1>1 DEF NothingIsLost, At
  <1>4. ASSUME NEW step \in {"create", "fetch", "replace"},
               step = "create" => job.message = NoMessage,
               SetJob(p, k, [job EXCEPT !.step = step]), discord' = discord
        PROVE  Faultless(p)'
    <2> DEFINE new == [job EXCEPT !.step = step]
    <2>1. new.step = step /\ new.message = job.message /\ SetJob(p, k, new)
      BY <1>1, <1>4 DEF Job
    <2>2. step \notin InHandSteps
      BY DEF InHandSteps
    <2> HIDE DEF new
    <2>3. QED
      BY <1>1, <1>2, <1>4, <2>1, <2>2, MoveLosesNothing
  <1>5. ASSUME NEW m \in MessageIds, Live(m), NEW hash, Observed(p, k, m, hash),
               RemotesStay
        PROVE  Faultless(p)'
    <2>1. PICK new : /\ SetJob(p, k, new) /\ new.step \in {"complete", "release"}
                     /\ new.message = jobs[p][k].message /\ new.found = m
      BY <1>5, ObservedJob
    <2>2. QED
      BY <1>1, <1>5, <2>1, MoveLosesNothing
  <1>6. CASE StartJob(p, k)
    BY <1>4, <1>6 DEF StartJob
  <1>7. CASE FetchRemote(p, k)
    <2>1. job.message # NoMessage
      BY <1>7, JobFacts DEF FetchRemote, At, JobIsSound
    <2>2. QED
      BY <1>1, <1>2, <1>3, <1>4, <1>5, <1>7, <2>1 DEF FetchRemote
  <1>8. CASE CreateRemote(p, k)
    <2>1. job.message = NoMessage
      BY <1>1, <1>8 DEF CreateRemote, At, NothingIsLost
    <2>2. ASSUME NEW m \in MessageIds, Duplicate(job, k, m),
                 Observed(p, k, m, discord[m].content), discord' = discord
          PROVE  Faultless(p)'
      BY <1>2, <1>5, <2>2 DEF Duplicate
    <2>3. ASSUME Creates(job, k, job.content), Observed(p, k, created + 1, job.content)
          PROVE  Faultless(p)'
      <3>1. PICK new : /\ SetJob(p, k, new) /\ new.step \in {"complete", "release"}
                       /\ new.message = NoMessage /\ new.found = created + 1
        BY <2>1, <2>3, ObservedJob
      <3>2. job.content \in Hashes /\ new.step \in InHandSteps
        BY <3>1, JobFacts DEF InHandSteps
      <3>3. QED
        BY <1>1, <2>3, <3>1, <3>2, CreationLosesNothing
    <2>4. QED
      BY <1>1, <1>8, <2>2, <2>3, NoFault DEF CreateRemote
  <1>9. CASE ReplaceRemote(p, k)
    <2>1. job.message # NoMessage /\ job.message \in MessageIds
      BY <1>1, <1>9, JobFacts DEF ReplaceRemote, At, JobIsSound
    <2>2. Edits(job.message, job.content) /\ Observed(p, k, job.message, job.content)
      BY <1>1, <1>3, <1>9, <2>1, NoFault DEF ReplaceRemote
    <2>3. \A n \in MessageIds : discord[n] \in Remote
      BY <1>1 DEF TypeOK
    <2>4. RemotesStay
      BY <1>1, <2>2, <2>3 DEF Edits, Remote, TypeOK, RemotesStay
    <2>5. QED
      BY <1>3, <1>5, <2>1, <2>2, <2>4
  <1>10. QED
    BY <1>6, <1>7, <1>8, <1>9

\* What the last statement of a job does: the id it found is stored, or kept in
\* hand for the cleanup, or was known all along.
LEMMA StatementLosesNothing ==
    ASSUME IInv, NEW p \in Owners, NEW k \in Keys, Faultless(p),
           \A m \in MessageIds : NonceIsPast(m), StoresFirst(p, k),
           Complete(p, k) \/ ReleaseRow(p, k)
    PROVE  Faultless(p)'
  <1> DEFINE job == jobs[p][k]
  <1>1. /\ discord' = discord /\ job.step \in {"complete", "release"} /\ IdleJob.step = "idle"
        /\ TypeOK /\ rows[k] \in Row /\ job \in Job
        /\ rows[k].message \in MessageIds \union {NoMessage}
        /\ job.message \in MessageIds \union {NoMessage}
        /\ job.found \in MessageIds \union {NoMessage}
        /\ NothingIsLost(p, k)
    BY JobFacts DEF Complete, ReleaseRow, At, IdleJob, Faultless, Row
  <1>2. job.message = NoMessage => rows[k].message = NoMessage
    BY <1>1 DEF StoresFirst, At
  <1>3. \A m \in MessageIds : /\ m # NoMessage
                              /\ IsAccountedFor(p, m)
                              /\ Live(m) => discord[m].key \in Keys
    BY DEF MessageIds, NoMessage, Faultless, NonceIsPast, Live
  <1>4. \A l \in Keys : NothingIsLost(p, l)
    BY DEF Faultless
  <1>5. CASE ~Held(rows[k], p, job.revision)
    <2>1. /\ rows' = rows
          /\ SetJob(p, k, IF StaleCreate(job) THEN [job EXCEPT !.step = "cleanup"]
                                              ELSE IdleJob)
      BY <1>5 DEF Complete, ReleaseRow, Conflicted
    <2>2. CASE StaleCreate(job)
      <3> DEFINE new == [job EXCEPT !.step = "cleanup"]
      <3>1. /\ new.step = "cleanup" /\ new.message = job.message /\ new.found = job.found
            /\ SetJob(p, k, new)
        BY <1>1, <2>1, <2>2 DEF Job
      <3> HIDE DEF new
      <3>2. /\ jobs'[p][k] = new
            /\ \A l \in Keys : l # k => jobs'[p][l] = jobs[p][l]
        BY <1>1, <3>1 DEF SetJob, TypeOK
      <3>3. \A l \in Keys : NothingIsLost(p, l)'
        BY <1>1, <1>4, <2>1, <3>1, <3>2 DEF NothingIsLost, Live
      <3>4. \A m \in MessageIds : IsAccountedFor(p, m)'
        BY <1>1, <1>3, <2>1, <3>1, <3>2 DEF IsAccountedFor, Live
      <3>5. QED
        BY <3>3, <3>4 DEF Faultless
    <2>3. CASE ~StaleCreate(job)
      <3>1. /\ jobs'[p][k] = IdleJob
            /\ \A l \in Keys : l # k => jobs'[p][l] = jobs[p][l]
        BY <1>1, <2>1, <2>3 DEF SetJob, TypeOK
      <3>2. \A l \in Keys : NothingIsLost(p, l)'
        BY <1>1, <1>4, <2>1, <3>1 DEF NothingIsLost, Live
      <3>3. \A m \in MessageIds : IsAccountedFor(p, m)'
        BY <1>1, <1>3, <2>1, <2>3, <3>1 DEF IsAccountedFor, Live, StaleCreate
      <3>4. QED
        BY <3>2, <3>3 DEF Faultless
    <2>4. QED
      BY <2>2, <2>3
  <1>6. CASE Held(rows[k], p, job.revision)
    <2>1. /\ jobs'[p][k] = IdleJob
          /\ \A l \in Keys : l # k => jobs'[p][l] = jobs[p][l]
      BY <1>1, <1>6 DEF Complete, ReleaseRow, SetJob, TypeOK
    <2>2. PICK row : /\ SetRow(k, row)
                     /\ row.channel = rows[k].channel
                     /\ row.revision = rows[k].revision
                     /\ row.message = IF job.found = NoMessage THEN rows[k].message
                                                               ELSE job.found
      <3> DEFINE completed == CompletedRow(rows[k], job.found, job.hash)
                 released == ReleasedRow(rows[k], job.verdict, job.found, job.hash)
      <3>1. /\ completed.channel = rows[k].channel
            /\ completed.revision = rows[k].revision
            /\ completed.message = job.found
        BY <1>1 DEF CompletedRow, Row
      <3>2. /\ released.channel = rows[k].channel
            /\ released.revision = rows[k].revision
            /\ released.message = IF job.found = NoMessage THEN rows[k].message
                                                           ELSE job.found
        BY <1>1 DEF ReleasedRow, Row
      <3>3. \/ SetRow(k, completed) /\ job.found # NoMessage
            \/ SetRow(k, released)
        BY <1>6, JobFacts DEF Complete, ReleaseRow, JobIsSound, At
      <3> HIDE DEF completed, released
      <3>4. QED
        BY <3>1, <3>2, <3>3
    <2>3. /\ rows'[k] = row
          /\ \A l \in Keys : l # k => rows'[l] = rows[l]
      BY <1>1, <2>2 DEF SetRow, TypeOK
    <2>4. \A l \in Keys : NothingIsLost(p, l)'
      <3>1. NothingIsLost(p, k)'
        BY <1>1, <2>1, <2>2, <2>3 DEF NothingIsLost, Live
      <3>2. QED
        BY <1>1, <1>4, <2>1, <2>3, <3>1 DEF NothingIsLost, Live
    <2>5. rows[k].revision <= 2 /\ job.message # NoMessage /\ job.found # NoMessage
              => rows[k].message = job.found
      <3> SUFFICES ASSUME rows[k].revision <= 2, job.message # NoMessage,
                          job.found # NoMessage
                   PROVE  rows[k].message = job.found
        OBVIOUS
      <3>1. job.channel = rows[k].channel
        BY <1>1, <1>6, HeldIsCurrent DEF At
      <3>2. Live(job.found) /\ discord[job.found].key = k
               /\ discord[job.found].channel = rows[k].channel
        BY <1>1, <3>1, JobFacts DEF NothingIsLost, JobIsSound, Belongs
      <3>3. QED
        BY <1>1, <1>3, <3>2 DEF IsAccountedFor
    <2>6. \A m \in MessageIds : IsAccountedFor(p, m)'
      <3> SUFFICES ASSUME NEW m \in MessageIds
                   PROVE  IsAccountedFor(p, m)'
        OBVIOUS
      <3>1. CASE discord[m].key = k
        BY <1>1, <1>2, <1>3, <2>1, <2>2, <2>3, <2>5, <3>1 DEF IsAccountedFor, Live
      <3>2. CASE discord[m].key # k
        BY <1>1, <1>3, <2>1, <2>3, <3>2 DEF IsAccountedFor, Live
      <3>3. QED
        BY <3>1, <3>2
    <2>7. QED
      BY <2>4, <2>6 DEF Faultless
  <1>7. QED
    BY <1>5, <1>6

LEMMA CleanupLosesNothing ==
    ASSUME IInv, NEW p \in Owners, NEW k \in Keys, Faultless(p),
           \A m \in MessageIds : NonceIsPast(m), StoresFirst(p, k),
           CleanupStaleCreate(p, k)
    PROVE  Faultless(p)'
  <1> DEFINE found == jobs[p][k].found
  <1>1. /\ rows' = rows /\ At(p, k, "cleanup") /\ IdleJob.step = "idle" /\ TypeOK
        /\ jobs'[p][k] = IdleJob
        /\ \A l \in Keys : l # k => jobs'[p][l] = jobs[p][l]
    BY DEF CleanupStaleCreate, IdleJob, SetJob, IInv, TypeOK
  <1>2. /\ rows[k].message = NoMessage
        /\ found \in MessageIds /\ found # NoMessage /\ discord[found].key = k
    BY <1>1, JobFacts DEF StoresFirst, At, JobIsSound, Belongs
  <1>3. ASSUME NEW m \in MessageIds
        PROVE  /\ discord'[m].key = discord[m].key
               /\ discord'[m].channel = discord[m].channel
               /\ Live(m)' <=> Live(m) /\ m # found
               /\ IsAccountedFor(p, m) /\ (Live(m) => discord[m].key \in Keys)
    <2>1. discord[m] \in Remote
      BY <1>1 DEF TypeOK
    <2>2. discord'[m] = IF m = found THEN [discord[m] EXCEPT !.status = "deleted"]
                                     ELSE discord[m]
      BY <1>1 DEF CleanupStaleCreate, TypeOK
    <2>3. /\ discord'[m].key = discord[m].key
          /\ discord'[m].channel = discord[m].channel
          /\ discord'[m].status = IF m = found THEN "deleted" ELSE discord[m].status
      BY <2>1, <2>2 DEF Remote
    <2>4. QED
      BY <2>3 DEF Live, Faultless, NonceIsPast
  <1>4. ASSUME NEW l \in Keys
        PROVE  NothingIsLost(p, l)'
    <2>1. NothingIsLost(p, l)
      BY DEF Faultless
    <2>2. /\ jobs[p][l].message \in MessageIds \union {NoMessage}
          /\ jobs[p][l].found \in MessageIds \union {NoMessage}
          /\ Belongs(jobs[p][l].message, l, jobs[p][l].channel)
          /\ Belongs(jobs[p][l].found, l, jobs[p][l].channel)
      BY JobFacts DEF JobIsSound
    <2>3. /\ rows[l].message \in MessageIds \union {NoMessage}
          /\ Belongs(rows[l].message, l, rows[l].channel)
      BY JobFacts DEF Row, IInv, RowOwnsItsMessage
    <2>4. CASE l = k
      BY <1>1, <1>2, <2>4 DEF NothingIsLost
    <2>5. CASE l # k
      BY <1>1, <1>2, <1>3, <2>1, <2>2, <2>3, <2>5 DEF NothingIsLost, Belongs
    <2>6. QED
      BY <2>4, <2>5
  <1>5. ASSUME NEW m \in MessageIds
        PROVE  IsAccountedFor(p, m)'
    <2>1. m # NoMessage
      BY DEF MessageIds, NoMessage
    <2>2. QED
      BY <1>1, <1>2, <1>3, <2>1 DEF IsAccountedFor
  <1>6. QED
    BY <1>4, <1>5 DEF Faultless

LEMMA StepLosesNothing ==
    ASSUME IInv, NEW p, Owners = {p}, [Next]_vars, faults' = MaxFaults,
           SingleInv(p)
    PROVE  Faultless(p)'
  <1>1. /\ \A k \in Keys : StoresFirst(p, k)
        /\ \A m \in MessageIds : NonceIsPast(m)
        /\ TypeOK /\ p \in Owners
        /\ \A kind : ~Fault(kind)
    BY NoFault DEF SingleInv, IInv
  <1>2. faults = MaxFaults
    <2>1. ASSUME NEW q \in Owners, NEW k \in Keys, JobStep(q, k) \/ JobFault(q, k)
          PROVE  faults' = faults
      BY <1>1, <2>1 DEF JobStep, StartJob, FetchRemote, CreateRemote, ReplaceRemote,
         Complete, ReleaseRow, CleanupStaleCreate, JobFault, AssignmentRefused,
         FetchFails, CreateFails, ReplaceFails, StatementFails, CleanupFails
    <2>2. ASSUME NEW k \in Keys, Client(k) \/ NextCheckElapses(k) \/ LeaseExpires(k)
          PROVE  faults' = faults
      BY <2>2 DEF Client, CreateMessage, ReplaceMessage, ArchiveMessage,
         ReconcileMessage, NextCheckElapses, LeaseExpires
    <2>3. ASSUME \/ UNCHANGED vars
                 \/ \E q \in Owners : ClaimDue(q) \/ Crash(q)
                 \/ \E m \in MessageIds : NonceForgotten(m) \/ MessageDeleted(m)
          PROVE  faults' = faults
      BY <1>1, <2>3 DEF vars, ClaimDue, Crash, NonceForgotten, MessageDeleted
    <2>4. QED
      BY <2>1, <2>2, <2>3 DEF Next
  <1>3. Faultless(p)
    BY <1>2 DEF SingleInv
  <1>4. ASSUME NEW m \in MessageIds, NonceForgotten(m)
        PROVE  Faultless(p)'
    <2>1. \A n \in MessageIds : discord[n] \in Remote
      BY <1>1 DEF TypeOK
    <2>2. RemotesStay
      BY <1>1, <1>4, <2>1 DEF NonceForgotten, Remote, TypeOK, RemotesStay
    <2>3. ASSUME NEW k \in Keys
          PROVE  NothingIsLost(p, k)'
      <3>1. /\ jobs[p][k].message \in MessageIds \union {NoMessage}
            /\ jobs[p][k].found \in MessageIds \union {NoMessage}
            /\ rows[k].message \in MessageIds \union {NoMessage}
            /\ NothingIsLost(p, k)
        BY <1>1, <1>3, JobFacts DEF Row, Faultless
      <3>2. QED
        BY <1>4, <2>2, <3>1 DEF NonceForgotten, NothingIsLost, Live, RemotesStay
    <2>4. \A n \in MessageIds : IsAccountedFor(p, n)'
      BY <1>3, <1>4, <2>2 DEF NonceForgotten, IsAccountedFor, Live, RemotesStay, Faultless
    <2>5. QED
      BY <2>3, <2>4 DEF Faultless
  <1>5. CASE UNCHANGED vars
    BY <1>3, <1>5 DEF vars, Faultless, NothingIsLost, IsAccountedFor, Live
  <1>6. ASSUME NEW k \in Keys, JobFault(p, k) \/ Crash(p)
        PROVE  FALSE
    BY <1>1, <1>6 DEF JobFault, AssignmentRefused, FetchFails, CreateFails, ReplaceFails,
       StatementFails, CleanupFails, Crash
  <1>7. ASSUME NEW k \in Keys, JobStep(p, k)
        PROVE  Faultless(p)'
    BY <1>1, <1>3, <1>7, EffectLosesNothing, StatementLosesNothing, CleanupLosesNothing
       DEF JobStep
  <1>8. ~Crash(p) /\ \A m \in MessageIds : ~MessageDeleted(m)
    BY <1>1 DEF Crash, MessageDeleted
  <1>9. QED
    BY <1>1, <1>3, <1>4, <1>5, <1>6, <1>7, <1>8, ClientLosesNothing, ClaimLosesNothing
       DEF Next

\* With one process and no fault, no copy of a message stands in a channel without
\* the row that asked for it: a conflict hands what was created to the cleanup.
THEOREM NoOrphans ==
    ASSUME NEW p, Owners = {p}
    PROVE  Spec => []OrphansNeedFaults
  <1>1. Init => SingleInv(p)
    <2> SUFFICES ASSUME Init
                 PROVE  SingleInv(p)
      OBVIOUS
    <2>1. /\ \A k \in Keys : jobs[p][k] = IdleJob /\ rows[k] = AbsentRow
          /\ \A m \in MessageIds : discord[m].status = "unused"
          /\ IdleJob.step = "idle" /\ AbsentRow.message = NoMessage
      BY DEF Init, IdleJob, AbsentRow, UnusedRemote
    <2>2. QED
      BY <2>1 DEF SingleInv, StoresFirst, NonceIsPast, Faultless, NothingIsLost,
                  IsAccountedFor, Live, At
  <1>2. IInv /\ SingleInv(p) /\ [Next]_vars => SingleInv(p)'
    <2> SUFFICES ASSUME IInv, SingleInv(p), [Next]_vars
                 PROVE  SingleInv(p)'
      OBVIOUS
    <2>1. \A k \in Keys : StoresFirst(p, k)'
      BY SingleStep DEF SingleInv
    <2>2. \A m \in MessageIds : NonceIsPast(m)'
      BY StepKeepsNoncesPast DEF SingleInv
    <2>3. faults' = MaxFaults => Faultless(p)'
      BY StepLosesNothing
    <2>4. QED
      BY <2>1, <2>2, <2>3 DEF SingleInv
  <1>3. SingleInv(p) => OrphansNeedFaults
    <2> SUFFICES ASSUME SingleInv(p), faults = MaxFaults, NEW m \in MessageIds, Live(m),
                        discord[m].channel = rows[discord[m].key].channel,
                        rows[discord[m].key].revision <= 2,
                        rows[discord[m].key].message # m
                 PROVE  InHand(discord[m].key, m)
      BY DEF OrphansNeedFaults
    <2>1. IsAccountedFor(p, m)
      BY DEF SingleInv, Faultless
    <2>2. QED
      BY <2>1 DEF IsAccountedFor, InHand
  <1>4. QED
    BY <1>1, <1>2, <1>3, Invariance, PTL DEF Spec

-----------------------------------------------------------------------------
(* The contract.  The steps that write a definition, mark or claim a row,  *)
(* create a message or complete or release a row are steps of it, and all  *)
(* the others leave what it speaks of alone.                               *)

\* The contract's variables, as ManagedMessagesProps reads them off the rows.
Promise == [k \in Keys |-> PromiseOf(rows[k])]

Home == [m \in MessageIds |-> HomeOf(discord[m])]

Promises == [phase    : {"undefined", "active", "archived"},
             revision : Nat,
             channel  : Channels \union {NoChannel},
             content  : Contents \union {NoContent},
             message  : MessageIds \union {NoMessage},
             verified : BOOLEAN]

-----------------------------------------------------------------------------
(* Reading the rows and the messages.                                      *)

\* Two promises are equal when their fields are.
LEMMA SamePromise ==
    ASSUME NEW r \in Promises, NEW s \in Promises,
           r.phase = s.phase, r.revision = s.revision, r.channel = s.channel,
           r.content = s.content, r.message = s.message, r.verified <=> s.verified
    PROVE  r = s
  BY DEF Promises

LEMMA Reading ==
    ASSUME NEW row \in Row
    PROVE  /\ PromiseOf(row) \in Promises
           /\ PromiseOf(row).phase = IF row.state = "absent" THEN "undefined"
                                     ELSE IF row.state = "archived" THEN "archived"
                                     ELSE "active"
           /\ PromiseOf(row).revision = row.revision
           /\ PromiseOf(row).channel = row.channel
           /\ PromiseOf(row).content = row.content
           /\ PromiseOf(row).message = row.message
           /\ PromiseOf(row).verified <=> row.state = "healthy"
  BY DEF PromiseOf, PhaseOf, Promises, Row

\* What SetRow does to the promises, whatever record the new one is written as.
LEMMA PromiseWritten ==
    ASSUME IInv, NEW k \in Keys, NEW row \in Row, SetRow(k, row),
           NEW r \in Promises,
           r.phase = PromiseOf(row).phase, r.revision = row.revision,
           r.channel = row.channel, r.content = row.content,
           r.message = row.message, r.verified <=> row.state = "healthy"
    PROVE  Promise' = [Promise EXCEPT ![k] = r]
  <1>1. rows \in [Keys -> Row]
    BY DEF IInv, TypeOK
  <1>2. \A l \in Keys : rows'[l] = IF l = k THEN row ELSE rows[l]
    BY <1>1 DEF SetRow
  <1>3. PromiseOf(row) = r
    BY Reading, SamePromise
  <1>4. Promise' = [l \in Keys |-> PromiseOf(rows'[l])]
    BY DEF Promise, PromiseOf, PhaseOf
  <1>5. QED
    BY <1>2, <1>3, <1>4 DEF Promise

LEMMA PromiseUnchanged ==
    ASSUME UNCHANGED rows
    PROVE  UNCHANGED Promise
  BY DEF Promise, PromiseOf, PhaseOf

LEMMA HomeUnchanged ==
    ASSUME UNCHANGED discord
    PROVE  UNCHANGED Home
  BY DEF Home, HomeOf

\* Edits, deletions and forgotten nonces leave every message where it belongs.
LEMMA HomeKept ==
    ASSUME IInv, RemotesKeep, IdsAreFresh', UNCHANGED created
    PROVE  UNCHANGED Home
  <1>1. ASSUME NEW m \in MessageIds
        PROVE  HomeOf(discord'[m]) = HomeOf(discord[m])
    <2>1. discord'[m].status = "unused" <=> discord[m].status = "unused"
      BY DEF IInv, IdsAreFresh
    <2>2. QED
      BY <2>1 DEF RemotesKeep, HomeOf
  <1>2. QED
    BY <1>1 DEF Home, HomeOf

LEMMA RowFacts ==
    ASSUME IInv, NEW k \in Keys
    PROVE  /\ rows[k] \in Row /\ rows[k].revision \in Nat
           /\ RowIsSound(k)
           /\ Promise[k] = PromiseOf(rows[k]) /\ Promise[k] \in Promises
           /\ Markable(rows[k]) <=> Promise[k].phase = "active"
  BY Reading, JobRowType DEF IInv, Promise, Row, Markable, Exists, Archived

-----------------------------------------------------------------------------
(* Steps of clients.                                                       *)

LEMMA DefineStep ==
    ASSUME IInv, NEW k \in Keys, NEW channel \in Channels, NEW content \in Contents,
           CreateMessage(k, channel, content)
    PROVE  Contract!Define(k, channel, content)
  <1> DEFINE row == InsertedRow(channel, content)
             undefined == Contract!Undefined
             r == [undefined EXCEPT !.phase = "active", !.revision = 1,
                                    !.channel = channel, !.content = content]
  <1>1. rows[k] = AbsentRow /\ SetRow(k, row) /\ UNCHANGED Home
    BY HomeUnchanged DEF CreateMessage, Exists, IInv, RowIsSound
  <1>2. undefined \in Promises /\ undefined.message = NoMessage /\ ~undefined.verified
    BY DEF Contract!Undefined, Promises
  <1>3. Promise[k] = undefined
    <2>1. undefined.phase = "undefined" /\ undefined.revision = 0
      BY DEF Contract!Undefined
    <2>2. undefined.channel = NoChannel /\ undefined.content = NoContent
      BY DEF Contract!Undefined
    <2>3. /\ AbsentRow.state = "absent" /\ AbsentRow.revision = 0
          /\ AbsentRow.channel = NoChannel /\ AbsentRow.content = NoContent
          /\ AbsentRow.message = NoMessage
      BY DEF AbsentRow
    <2> HIDE DEF undefined
    <2>4. QED
      BY <1>1, <1>2, <2>1, <2>2, <2>3, AbsentRowType, Reading, SamePromise DEF Promise
  <1> HIDE DEF undefined
  <1>4. /\ r \in Promises /\ r.phase = "active" /\ r.revision = 1
        /\ r.channel = channel /\ r.content = content
        /\ r.message = NoMessage /\ ~r.verified
    BY <1>2 DEF Promises
  <1>5. /\ row \in Row /\ row.state = "pending" /\ row.revision = 1
        /\ row.channel = channel /\ row.content = content /\ row.message = NoMessage
    BY InsertedRowType DEF InsertedRow, AbsentRow
  <1>6. Promise' = [Promise EXCEPT ![k] = r]
    <2> HIDE DEF r, row
    <2>1. QED
      BY <1>1, <1>4, <1>5, Reading, PromiseWritten
  <1>7. QED
    BY <1>1, <1>3, <1>6 DEF Contract!Define, Promise, Home, undefined

LEMMA RedefineStep ==
    ASSUME IInv, NEW k \in Keys, NEW channel \in Channels, NEW content \in Contents,
           ReplaceMessage(k, channel, content)
    PROVE  Contract!Redefine(k, channel, content)
  <1> DEFINE row == ReplacedRow(rows[k], channel, content)
             old == Promise[k]
             r == [phase |-> "active", revision |-> old.revision + 1,
                   channel |-> channel, content |-> content,
                   message |-> IF channel = old.channel THEN old.message
                                                        ELSE NoMessage,
                   verified |-> FALSE]
  <1>1. /\ rows[k] \in Row /\ SetRow(k, row) /\ UNCHANGED Home
        /\ old.phase = "active"
        /\ old \in Promises /\ old = PromiseOf(rows[k])
    BY RowFacts, HomeUnchanged DEF ReplaceMessage
  <1>2. /\ old.revision = rows[k].revision /\ old.channel = rows[k].channel
        /\ old.message = rows[k].message
    BY <1>1, Reading
  <1>3. /\ row \in Row /\ row.state = "pending"
        /\ row.revision = rows[k].revision + 1
        /\ row.channel = channel /\ row.content = content
        /\ row.message = IF channel = rows[k].channel THEN rows[k].message
                                                      ELSE NoMessage
    BY <1>1, ReplacedRowType DEF ReplacedRow
  <1> HIDE DEF row
  <1>4. /\ r \in Promises /\ r.phase = "active" /\ r.revision = row.revision
        /\ r.channel = channel /\ r.content = content /\ r.message = row.message
        /\ ~r.verified
    <2> HIDE DEF old
    <2>1. old.revision + 1 \in Nat /\ old.message \in MessageIds \union {NoMessage}
      BY <1>1 DEF Promises
    <2>2. QED
      BY <1>2, <1>3, <2>1 DEF Promises
  <1>5. Promise' = [Promise EXCEPT ![k] = r]
    <2> HIDE DEF r
    <2>1. QED
      BY <1>1, <1>3, <1>4, Reading, PromiseWritten
  <1>6. QED
    BY <1>1, <1>5, Zenon DEF Contract!Redefine, Contract!Active, Promise, Home

LEMMA ArchiveStep ==
    ASSUME IInv, NEW k \in Keys, ArchiveMessage(k)
    PROVE  Contract!Archive(k)
  <1> DEFINE row == ArchivedRow(rows[k])
             old == Promise[k]
             r == [old EXCEPT !.phase = "archived", !.revision = old.revision + 1,
                              !.verified = FALSE]
  <1>1. /\ rows[k] \in Row /\ SetRow(k, row) /\ UNCHANGED Home
        /\ old.phase = "active"
        /\ old \in Promises /\ old = PromiseOf(rows[k])
    BY RowFacts, HomeUnchanged DEF ArchiveMessage
  <1>2. /\ row \in Row /\ row.state = "archived"
        /\ row.revision = rows[k].revision + 1 /\ row.channel = rows[k].channel
        /\ row.content = rows[k].content /\ row.message = rows[k].message
    BY <1>1, ArchivedRowType DEF ArchivedRow, Row
  <1> HIDE DEF row
  <1>3. /\ r \in Promises /\ r.phase = "archived" /\ r.revision = old.revision + 1
        /\ r.channel = old.channel /\ r.content = old.content
        /\ r.message = old.message /\ ~r.verified
    <2> HIDE DEF old
    <2>1. old.revision + 1 \in Nat
      BY <1>1 DEF Promises
    <2>2. QED
      BY <1>1, <2>1 DEF Promises
  <1>4. Promise' = [Promise EXCEPT ![k] = r]
    <2> HIDE DEF r
    <2>1. QED
      BY <1>1, <1>2, <1>3, Reading, PromiseWritten
  <1>5. QED
    BY <1>1, <1>4, Zenon DEF Contract!Archive, Contract!Active, Promise, Home

\* Marking a row, or releasing it without a message, takes the report back.
LEMMA DoubtStep ==
    ASSUME IInv, NEW k \in Keys, Markable(rows[k]), NEW row \in Row, SetRow(k, row),
           row.state \notin {"absent", "archived", "healthy"},
           row.revision = rows[k].revision, row.channel = rows[k].channel,
           row.content = rows[k].content, row.message = rows[k].message,
           UNCHANGED discord
    PROVE  Contract!Doubt({k})
  <1> DEFINE old == Promise[k]
             r == [old EXCEPT !.verified = FALSE]
  <1>1. /\ rows[k] \in Row /\ UNCHANGED Home /\ old.phase = "active"
        /\ old \in Promises /\ old = PromiseOf(rows[k])
    BY RowFacts, HomeUnchanged
  <1>2. /\ r \in Promises /\ r.phase = "active" /\ r.revision = old.revision
        /\ r.channel = old.channel /\ r.content = old.content
        /\ r.message = old.message /\ ~r.verified
    <2> HIDE DEF old
    <2>1. QED
      BY <1>1 DEF Promises
  <1>3. Promise' = [Promise EXCEPT ![k] = r]
    <2> HIDE DEF r
    <2>1. /\ PromiseOf(row).phase = "active" /\ r.revision = row.revision
          /\ r.channel = row.channel /\ r.content = row.content
          /\ r.message = row.message /\ (r.verified <=> row.state = "healthy")
      BY <1>1, <1>2, Reading
    <2>2. QED
      BY <1>2, <2>1, PromiseWritten
  <1>4. Promise' = [l \in Keys |-> IF l \in {k} THEN [Promise[l] EXCEPT !.verified = FALSE]
                                                ELSE Promise[l]]
    BY <1>3, Zenon DEF Promise
  <1>5. QED
    BY <1>1, <1>4, Zenon DEF Contract!Doubt, Contract!Active, Promise, Home

-----------------------------------------------------------------------------
(* Steps of processes.                                                     *)

\* A row is written with the message its job has found, which is its own.
LEMMA AttachStep ==
    ASSUME IInv, NEW k \in Keys, Markable(rows[k]), NEW row \in Row, SetRow(k, row),
           row.state \in {"healthy", "drifted", "blocked"},
           row.revision = rows[k].revision, row.channel = rows[k].channel,
           row.content = rows[k].content, row.message \in MessageIds,
           Belongs(row.message, k, rows[k].channel), UNCHANGED discord
    PROVE  \E verified \in BOOLEAN : Contract!Attach(k, row.message, verified)
  <1> DEFINE old == Promise[k]
             verified == row.state = "healthy"
             r == [old EXCEPT !.message = row.message, !.verified = verified]
  <1>1. /\ rows[k] \in Row /\ UNCHANGED Home /\ old.phase = "active"
        /\ old \in Promises /\ old = PromiseOf(rows[k])
    BY RowFacts, HomeUnchanged
  <1>2. PICK v \in BOOLEAN : v <=> verified
    OBVIOUS
  <1>3. v = verified
    BY <1>2
  <1>4. /\ [old EXCEPT !.message = row.message, !.verified = v] \in Promises
        /\ \A s : s = [old EXCEPT !.message = row.message, !.verified = v] =>
               /\ s.phase = "active" /\ s.revision = old.revision
               /\ s.channel = old.channel /\ s.content = old.content
               /\ s.message = row.message /\ (s.verified <=> v)
    <2> HIDE DEF old
    <2>1. QED
      BY <1>1 DEF Promises
  <1>5. Promise' = [Promise EXCEPT ![k] =
                        [old EXCEPT !.message = row.message, !.verified = v]]
    <2> DEFINE s == [old EXCEPT !.message = row.message, !.verified = v]
    <2>1. /\ s \in Promises /\ s.phase = "active" /\ s.revision = old.revision
          /\ s.channel = old.channel /\ s.content = old.content
          /\ s.message = row.message /\ (s.verified <=> v)
      BY <1>4, Zenon
    <2> HIDE DEF s
    <2>2. /\ PromiseOf(row).phase = "active" /\ s.revision = row.revision
          /\ s.channel = row.channel /\ s.content = row.content
          /\ s.message = row.message /\ (s.verified <=> row.state = "healthy")
      BY <1>1, <1>2, <2>1, Reading
    <2>3. Promise' = [Promise EXCEPT ![k] = s]
      BY <2>1, <2>2, PromiseWritten
    <2>4. QED
      BY <2>3 DEF s
  <1>6. Home[row.message] = [key |-> k, channel |-> old.channel]
    BY <1>1, Reading, MessageRowsAssumption DEF Belongs, Home, HomeOf, MessageIds, NoMessage
  <1>7. Contract!Attach(k, row.message, v)
    BY <1>1, <1>5, <1>6, Zenon
       DEF Contract!Attach, Contract!Fits, Contract!Active, Promise, Home
  <1>8. QED
    BY <1>7

\* A batch: every row of it is taken for repair.
LEMMA ClaimStep ==
    ASSUME IInv, NEW p \in Owners, ClaimDue(p)
    PROVE  \E doubted \in SUBSET Keys : Contract!Doubt(doubted)
  <1>1. PICK batch \in Batches :
            rows' = [k \in Keys |-> IF k \in batch THEN ClaimedRow(rows[k], p)
                                                   ELSE rows[k]]
    BY DEF ClaimDue
  <1>2. /\ batch \subseteq Keys
        /\ \A k \in batch : rows[k].state \notin {"absent", "archived"}
    BY DEF Batches, Due, Claimable
  <1>3. ASSUME NEW k \in batch
        PROVE  PromiseOf(rows'[k]) = [Promise[k] EXCEPT !.verified = FALSE]
    <2> DEFINE row == ClaimedRow(rows[k], p)
               old == Promise[k]
               r == [old EXCEPT !.verified = FALSE]
    <2>1. /\ k \in Keys /\ rows'[k] = row /\ rows[k] \in Row /\ row \in Row
          /\ old \in Promises /\ old = PromiseOf(rows[k])
      BY <1>1, <1>2, RowFacts, ClaimedRowType
    <2>2. /\ row.state = "repairing" /\ row.revision = rows[k].revision
          /\ row.channel = rows[k].channel /\ row.content = rows[k].content
          /\ row.message = rows[k].message
      BY <2>1 DEF ClaimedRow, Row
    <2> HIDE DEF row
    <2>3. old.phase = "active"
      BY <1>2, <2>1, Reading
    <2>4. /\ r \in Promises /\ r.phase = "active" /\ r.revision = old.revision
          /\ r.channel = old.channel /\ r.content = old.content
          /\ r.message = old.message /\ ~r.verified
      <3> HIDE DEF old
      <3>1. QED
        BY <2>1, <2>3 DEF Promises
    <2> HIDE DEF r
    <2>5. PromiseOf(row) = r
      BY <2>1, <2>2, <2>4, Reading, SamePromise
    <2>6. QED
      BY <2>1, <2>5 DEF r
  <1>4. Promise' = [k \in Keys |-> IF k \in batch THEN [Promise[k] EXCEPT !.verified = FALSE]
                                                  ELSE Promise[k]]
    <2>1. \A k \in Keys \ batch : PromiseOf(rows'[k]) = Promise[k]
      BY <1>1 DEF Promise
    <2>2. Promise' = [k \in Keys |-> PromiseOf(rows'[k])]
      BY DEF Promise, PromiseOf, PhaseOf
    <2>3. QED
      BY <1>2, <1>3, <2>1, <2>2
  <1>5. \A k \in batch : Promise[k].phase = "active"
    BY <1>2, RowFacts DEF Markable, Exists, Archived
  <1>6. UNCHANGED Home
    BY HomeUnchanged DEF ClaimDue
  <1>7. Contract!Doubt(batch)
    BY <1>4, <1>5, <1>6, Zenon DEF Contract!Doubt, Contract!Active, Promise, Home
  <1>8. QED
    BY <1>2, <1>7

LEMMA StatementStep ==
    ASSUME IInv, NEW p \in Owners, NEW k \in Keys, Complete(p, k) \/ ReleaseRow(p, k)
    PROVE  \/ UNCHANGED <<Promise, Home>>
           \/ Contract!Doubt({k})
           \/ \E m \in MessageIds, verified \in BOOLEAN : Contract!Attach(k, m, verified)
  <1> DEFINE job == jobs[p][k]
             completed == CompletedRow(rows[k], job.found, job.hash)
             released == ReleasedRow(rows[k], job.verdict, job.found, job.hash)
  <1>1. UNCHANGED discord /\ UNCHANGED Home /\ ~At(p, k, "idle")
    BY HomeUnchanged DEF Complete, ReleaseRow, At
  <1>2. CASE ~Held(rows[k], p, job.revision)
    BY <1>1, <1>2, PromiseUnchanged DEF Complete, ReleaseRow, Conflicted
  <1>3. CASE Held(rows[k], p, job.revision)
    <2>1. /\ job \in Job /\ rows[k] \in Row /\ JobIsSound(p, k)
          /\ job.channel = rows[k].channel /\ Markable(rows[k])
          /\ job.found \in MessageIds \union {NoMessage}
          /\ job.hash \in Hashes /\ job.verdict \in {"drifted", "blocked"}
      BY <1>1, <1>3, JobFacts, HeldIsCurrent DEF Markable, Exists, Archived, Job
    <2>2. CASE Complete(p, k)
      <3>1. SetRow(k, completed) /\ job.found # NoMessage
        BY <1>3, <2>1, <2>2 DEF Complete, JobIsSound, At
      <3>2. /\ completed \in Row /\ completed.state = "healthy"
            /\ completed.revision = rows[k].revision
            /\ completed.channel = rows[k].channel
            /\ completed.content = rows[k].content /\ completed.message = job.found
        BY <2>1, CompletedRowType DEF CompletedRow, Row
      <3>3. Belongs(job.found, k, rows[k].channel)
        BY <2>1 DEF JobIsSound
      <3> HIDE DEF completed, job
      <3>4. QED
        BY <1>1, <2>1, <3>1, <3>2, <3>3, AttachStep
    <2>3. CASE ReleaseRow(p, k)
      <3>1. SetRow(k, released)
        BY <1>3, <2>3 DEF ReleaseRow
      <3>2. /\ released \in Row /\ released.state = job.verdict
            /\ released.revision = rows[k].revision
            /\ released.channel = rows[k].channel
            /\ released.content = rows[k].content
            /\ released.message = IF job.found = NoMessage THEN rows[k].message
                                                           ELSE job.found
        <4> DEFINE id == IF job.found = NoMessage THEN rows[k].message ELSE job.found
                   seen == IF job.hash = NoContent THEN rows[k].observed ELSE job.hash
        <4>1. released = [rows[k] EXCEPT !.state = job.verdict, !.due = FALSE,
                                         !.message = id, !.observed = seen,
                                         !.owner = NoOwner, !.lease = "none"]
          BY DEF ReleasedRow
        <4>2. released \in Row
          BY <2>1, ReleasedRowType
        <4> HIDE DEF released, id, seen
        <4>3. /\ released.state = job.verdict /\ released.revision = rows[k].revision
              /\ released.channel = rows[k].channel
              /\ released.content = rows[k].content /\ released.message = id
          BY <2>1, <4>1 DEF Row
        <4>4. QED
          BY <4>2, <4>3 DEF id
      <3>3. Belongs(job.found, k, rows[k].channel)
        BY <2>1 DEF JobIsSound
      <3> HIDE DEF released, job
      <3>4. CASE job.found = NoMessage
        <4>1. /\ released.state \notin {"absent", "archived", "healthy"}
              /\ released.message = rows[k].message
          BY <2>1, <3>2, <3>4
        <4>2. QED
          BY <1>1, <2>1, <3>1, <3>2, <4>1, DoubtStep
      <3>5. CASE job.found # NoMessage
        <4>1. /\ released.state \in {"healthy", "drifted", "blocked"}
              /\ released.message \in MessageIds
              /\ Belongs(released.message, k, rows[k].channel)
          BY <2>1, <3>2, <3>3, <3>5
        <4>2. QED
          BY <1>1, <2>1, <3>1, <3>2, <4>1, AttachStep
      <3>6. QED
        BY <3>4, <3>5
    <2>4. QED
      BY <2>2, <2>3
  <1>4. QED
    BY <1>2, <1>3

\* Discord's next message is a new id, of the row and the channel of the job.
LEMMA IssueStep ==
    ASSUME IInv, NEW p \in Owners, NEW k \in Keys, NEW content,
           Creates(jobs[p][k], k, content), UNCHANGED rows
    PROVE  \E m \in MessageIds, channel \in Channels \union {NoChannel} :
               Contract!Issue(m, k, channel)
  <1> DEFINE m == created + 1
             channel == jobs[p][k].channel
             remote == [status |-> "live", channel |-> channel, content |-> content,
                        key |-> k, revision |-> jobs[p][k].revision, fresh |-> TRUE]
  <1>1. /\ m \in MessageIds /\ m > created
        /\ channel \in Channels \union {NoChannel}
        /\ discord' = [discord EXCEPT ![m] = remote]
        /\ discord \in [MessageIds -> Remote]
    BY JobFacts, MessageRowsAssumption DEF Creates, MessageIds, IInv, TypeOK, Job
  <1>2. discord[m].status = "unused"
    BY <1>1 DEF IInv, IdsAreFresh
  <1>3. HomeOf(remote) = [key |-> k, channel |-> channel]
    BY DEF HomeOf
  <1>4. Home[m] = NoHome
    BY <1>1, <1>2 DEF Home, HomeOf
  <1> HIDE DEF m, remote, channel
  <1>5. Home' = [Home EXCEPT ![m] = [key |-> k, channel |-> channel]]
    <2>1. \A n \in MessageIds : discord'[n] = IF n = m THEN remote ELSE discord[n]
      BY <1>1
    <2>2. Home' = [n \in MessageIds |-> HomeOf(discord'[n])]
      BY DEF Home, HomeOf, NoHome
    <2>3. QED
      BY <1>3, <2>1, <2>2 DEF Home
  <1>6. UNCHANGED Promise
    BY PromiseUnchanged
  <1>7. Contract!Issue(m, k, channel)
    BY <1>4, <1>5, <1>6, Zenon DEF Contract!Issue, Promise, Home
  <1>8. QED
    BY <1>1, <1>7

-----------------------------------------------------------------------------
(* Every step of the rows, the processes and Discord.                      *)

LEMMA ClientImplements ==
    ASSUME IInv, NEW k \in Keys, Client(k) \/ NextCheckElapses(k) \/ LeaseExpires(k)
    PROVE  Contract!Next \/ UNCHANGED <<Promise, Home>>
  <1>1. rows[k] \in Row
    BY RowFacts
  <1>2. ASSUME NEW channel \in Channels, NEW content \in Contents,
               \/ CreateMessage(k, channel, content)
               \/ ReplaceMessage(k, channel, content)
        PROVE  Contract!Next
    <2>1. Contract!Define(k, channel, content) \/ Contract!Redefine(k, channel, content)
      BY <1>2, DefineStep, RedefineStep
    <2>2. QED
      BY <2>1, Zenon DEF Contract!Next
  <1>3. CASE ArchiveMessage(k)
    BY <1>3, ArchiveStep, Zenon DEF Contract!Next
  <1>4. CASE ReconcileMessage(k)
    <2> DEFINE row == MarkedRow(rows[k])
    <2>1. /\ row \in Row /\ row.state = "pending"
          /\ row.revision = rows[k].revision /\ row.channel = rows[k].channel
          /\ row.content = rows[k].content /\ row.message = rows[k].message
      BY <1>1, MarkedRowType DEF MarkedRow, Row
    <2>2. Markable(rows[k]) /\ SetRow(k, row) /\ UNCHANGED discord
      BY <1>4 DEF ReconcileMessage
    <2> HIDE DEF row
    <2>3. Contract!Doubt({k})
      BY <2>1, <2>2, DoubtStep
    <2>4. QED
      BY <2>3, Zenon DEF Contract!Next
  <1>5. CASE NextCheckElapses(k) \/ LeaseExpires(k)
    <2>1. PICK row \in {[rows[k] EXCEPT !.due = TRUE],
                        [rows[k] EXCEPT !.lease = "expired"]} : SetRow(k, row)
      BY <1>5 DEF NextCheckElapses, LeaseExpires
    <2>2. /\ row \in Row /\ row.state = rows[k].state
          /\ row.revision = rows[k].revision /\ row.channel = rows[k].channel
          /\ row.content = rows[k].content /\ row.message = rows[k].message
      <3>1. \A r \in {[rows[k] EXCEPT !.due = TRUE],
                      [rows[k] EXCEPT !.lease = "expired"]} :
                /\ r.state = rows[k].state /\ r.revision = rows[k].revision
                /\ r.channel = rows[k].channel /\ r.content = rows[k].content
                /\ r.message = rows[k].message
        BY <1>1 DEF Row
      <3>2. QED
        BY <1>1, <3>1, MarkedRowType
    <2>3. PromiseOf(row) = PromiseOf(rows[k])
      BY <1>1, <2>2, Reading, SamePromise
    <2>4. /\ PromiseOf(row) \in Promises
          /\ PromiseOf(row).revision = row.revision
          /\ PromiseOf(row).channel = row.channel
          /\ PromiseOf(row).content = row.content
          /\ PromiseOf(row).message = row.message
          /\ PromiseOf(row).verified <=> row.state = "healthy"
      BY <2>2, Reading
    <2>5. Promise' = [Promise EXCEPT ![k] = PromiseOf(row)]
      BY <2>1, <2>2, <2>4, PromiseWritten
    <2>6. UNCHANGED Promise
      BY <2>3, <2>5 DEF Promise
    <2>7. UNCHANGED Home
      BY <1>5, HomeUnchanged DEF NextCheckElapses, LeaseExpires
    <2>8. QED
      BY <2>6, <2>7
  <1>6. QED
    BY <1>2, <1>3, <1>4, <1>5 DEF Client

LEMMA JobImplements ==
    ASSUME IInv, IInv', NEW p \in Owners, NEW k \in Keys,
           JobStep(p, k) \/ JobFault(p, k)
    PROVE  Contract!Next \/ UNCHANGED <<Promise, Home>>
  <1>1. CASE Complete(p, k) \/ ReleaseRow(p, k)
    BY <1>1, StatementStep, Zenon DEF Contract!Next
  <1>2. ASSUME NEW content, Creates(jobs[p][k], k, content), UNCHANGED rows
        PROVE  Contract!Next
    BY <1>2, IssueStep, Zenon DEF Contract!Next
  <1>3. ASSUME UNCHANGED rows, RemotesKeep, UNCHANGED created
        PROVE  UNCHANGED <<Promise, Home>>
    BY <1>3, HomeKept, PromiseUnchanged DEF IInv
  <1>4. ASSUME NEW m \in MessageIds \union {NoMessage}, NEW content,
               Edits(m, content), UNCHANGED created
        PROVE  RemotesKeep
    BY <1>4, EditsKeeps DEF Edits, Live
  <1>5. CASE UNCHANGED <<rows, discord, created>>
    BY <1>3, <1>5, QuietDiscord
  <1>6. CASE CreateRemote(p, k)
    BY <1>2, <1>5, <1>6 DEF CreateRemote
  <1>7. CASE CreateFails(p, k)
    BY <1>2, <1>5, <1>7 DEF CreateFails
  <1>8. CASE ReplaceRemote(p, k)
    BY <1>3, <1>4, <1>5, <1>8, JobFacts DEF ReplaceRemote
  <1>9. CASE ReplaceFails(p, k)
    BY <1>3, <1>4, <1>5, <1>9, JobFacts DEF ReplaceFails
  <1>10. CASE CleanupStaleCreate(p, k)
    <2>1. /\ rows' = rows /\ created' = created /\ discord \in [MessageIds -> Remote]
          /\ discord' = [discord EXCEPT ![jobs[p][k].found].status = "deleted"]
      BY <1>10 DEF CleanupStaleCreate, IInv, TypeOK
    <2>2. \A n \in MessageIds :
              /\ discord[n].status # "unused" => discord'[n].status # "unused"
              /\ discord'[n].key = discord[n].key
              /\ discord'[n].channel = discord[n].channel
      BY <2>1 DEF Remote
    <2>3. QED
      BY <1>3, <2>1, <2>2 DEF RemotesKeep
  <1>11. CASE \/ StartJob(p, k) \/ FetchRemote(p, k) \/ AssignmentRefused(p, k)
              \/ FetchFails(p, k) \/ StatementFails(p, k) \/ CleanupFails(p, k)
    BY <1>5, <1>11 DEF StartJob, FetchRemote, AssignmentRefused, FetchFails,
                       StatementFails, CleanupFails
  <1>12. QED
    BY <1>1, <1>6, <1>7, <1>8, <1>9, <1>10, <1>11 DEF JobStep, JobFault

LEMMA StepImplements ==
    ASSUME IInv, IInv', [Next]_vars
    PROVE  Contract!Next \/ UNCHANGED <<Promise, Home>>
  <1>1. CASE UNCHANGED vars
    BY <1>1, PromiseUnchanged, HomeUnchanged DEF vars
  <1>2. ASSUME NEW p \in Owners, ClaimDue(p)
        PROVE  Contract!Next
    BY <1>2, ClaimStep, Zenon DEF Contract!Next
  <1>3. ASSUME NEW p \in Owners, Crash(p)
        PROVE  UNCHANGED <<Promise, Home>>
    BY <1>3, PromiseUnchanged, HomeUnchanged DEF Crash
  <1>4. ASSUME NEW m \in MessageIds, NonceForgotten(m) \/ MessageDeleted(m)
        PROVE  UNCHANGED <<Promise, Home>>
    <2>1. /\ rows' = rows /\ created' = created /\ discord \in [MessageIds -> Remote]
          /\ \/ discord' = [discord EXCEPT ![m].fresh = FALSE]
             \/ /\ discord' = [discord EXCEPT ![m].status = "deleted"]
      BY <1>4 DEF NonceForgotten, MessageDeleted, IInv, TypeOK
    <2>2. RemotesKeep
      BY <2>1 DEF RemotesKeep, Remote
    <2>3. QED
      BY <2>1, <2>2, HomeKept, PromiseUnchanged DEF IInv
  <1>5. QED
    BY <1>1, <1>2, <1>3, <1>4, ClientImplements, JobImplements DEF Next

\* Every behaviour of rows, processes, leases and faults is one the contract
\* allows.
THEOREM ContractImplemented == Spec => ImplementsContract
  <1>1. Init => Contract!Init
    <2> SUFFICES ASSUME Init
                 PROVE  Contract!Init
      OBVIOUS
    <2>1. \A k \in Keys : PromiseOf(rows[k]) = PromiseOf(AbsentRow)
      BY DEF Init
    <2>2. PromiseOf(AbsentRow) = Contract!Undefined
      <3>1. /\ Contract!Undefined \in Promises
            /\ Contract!Undefined.phase = "undefined"
            /\ Contract!Undefined.revision = 0
            /\ Contract!Undefined.channel = NoChannel
            /\ Contract!Undefined.content = NoContent
            /\ Contract!Undefined.message = NoMessage
            /\ ~Contract!Undefined.verified
        BY DEF Contract!Undefined, Promises
      <3>2. /\ AbsentRow.state = "absent" /\ AbsentRow.revision = 0
            /\ AbsentRow.channel = NoChannel /\ AbsentRow.content = NoContent
            /\ AbsentRow.message = NoMessage
        BY DEF AbsentRow
      <3>3. QED
        BY <3>1, <3>2, AbsentRowType, Reading, SamePromise
    <2>3. \A m \in MessageIds : HomeOf(discord[m]) = NoHome
      BY DEF Init, UnusedRemote, HomeOf
    <2>4. QED
      BY <2>1, <2>2, <2>3 DEF Contract!Init
  <1>2. IInv /\ IInv' /\ [Next]_vars =>
            [Contract!Next]_(Contract!vars)
    BY StepImplements, Zenon DEF Contract!vars, Promise, Home
  <1>3. QED
    BY <1>1, <1>2, Invariance, PTL DEF Spec, ImplementsContract, Contract!Spec
=============================================================================
