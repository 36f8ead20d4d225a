----------------------------- MODULE LifeCycle -----------------------------
(***************************************************************************)
(* One process from its start to its exit: the adapters and workers that   *)
(* platform/bootstrap runs side by side, the cron scheduler, the signal    *)
(* that wakes the reconciler, and the batches it works off with a few      *)
(* workers (internal/messages/reconciler.go).  What a job does to a row is *)
(* left to ManagedMessages; here a job only ends, well or with an error.   *)
(*                                                                         *)
(* errgroup and contexts are external: the first adapter that ends with an *)
(* error cancels the context all of them run with.                         *)
(***************************************************************************)
EXTENDS Naturals, Sequences, FiniteSets, SequencesExt

CONSTANTS
    Rows,        \* managed messages
    BatchLimit,  \* rows claimed at once (25)
    Workers,     \* jobs of a batch at once (4)
    MaxFaults    \* bound: adapters that fail and claims that do

ASSUME LifeCycleAssumption ==
    /\ IsFiniteSet(Rows)
    /\ BatchLimit \in Nat \ {0} /\ Workers \in Nat \ {0} /\ MaxFaults \in Nat

VARIABLES
    cancelled, \* whether the adapters' context is
    failure,   \* the first error of an adapter: the group's
    server,    \* the HTTP server
    client,    \* the Discord client
    handler,   \* a handler of a Discord event and one of a request
    jobs,      \* the goroutines of the scheduler
    scheduler, \* Scheduler.Run
    loop,      \* Reconciler.Run
    signal,    \* the signal's one place is taken
    due,       \* rows that are due, the longest due first
    batch,     \* the batch under way
    done,      \* the channel of the runtime is closed
    main,      \* the main goroutine
    faults     \* faults left

adapters == <<cancelled, failure, server, client>>
workers  == <<jobs, loop, signal, due, batch>>
vars == <<adapters, handler, workers, scheduler, done, main, faults>>

\* The job that calls ReconcileDue, and those of the other components, which run
\* once before their first tick.
Reconcile == "reconcile"
Integrity == "integrity"
Loop == "loop"
NoCaller == "none"

\* A handler calls the database and Discord in turn; only a call of the database
\* holds a connection of the pool.
Discord == "discord"
Http == "http"

\* caller   who has the lock;  step  what it does
\* queue    rows claimed and not handed out;  working  rows in the workers' hands
\* stuck    those whose error finds no room;  room     left in the channel of errors
NoBatch ==
    [caller |-> NoCaller, step |-> "none", queue |-> <<>>, working |-> {},
     stuck |-> {}, room |-> 0]

\* start: everything is launched.
Init ==
    /\ cancelled = FALSE /\ failure = FALSE
    /\ server = "running" /\ client = "opening"
    /\ handler = [h \in {Discord, Http} |-> "idle"]
    /\ jobs = [j \in {Reconcile, Integrity} |-> IF j = Reconcile THEN "waiting" ELSE "running"]
    /\ scheduler = "running"
    /\ loop = "waiting"
    /\ signal = FALSE /\ due = <<>> /\ batch = NoBatch
    /\ done = FALSE
    /\ main = "run"
    /\ faults = MaxFaults

Fault == faults > 0 /\ faults' = faults - 1

-----------------------------------------------------------------------------
(* The adapters.                                                           *)

\* errgroup, for an adapter that ends with an error.
Fails == failure' = TRUE /\ cancelled' = TRUE

\* The server ends with the context, in the end with an error, if a handler takes
\* longer than five seconds and goes on by itself; or with one of its listener.
Serve ==
    /\ server = "running"
    /\ server' = "ended"
    /\ \/ cancelled /\ handler[Http] = "idle" /\ UNCHANGED <<cancelled, failure, faults>>
       \/ cancelled /\ handler[Http] # "idle" /\ Fails /\ UNCHANGED faults
       \/ Fails /\ Fault
    /\ UNCHANGED <<client, handler, workers, scheduler, done, main>>

\* Open knows nothing of the context.
OpenGateway ==
    /\ client = "opening"
    /\ \/ client' = "open" /\ UNCHANGED <<cancelled, failure, faults>>
       \/ client' = "ended" /\ Fails /\ Fault
    /\ UNCHANGED <<server, handler, workers, scheduler, done, main>>

CloseGateway ==
    /\ client = "open"
    /\ cancelled
    /\ client' = "ended"
    /\ UNCHANGED <<cancelled, failure, server, handler, workers, scheduler, done, main, faults>>

\* Handlers have goroutines of their own, which nothing waits for but the server
\* for its own, while it shuts down.
Arrives(h) ==
    /\ IF h = Discord THEN client = "open" ELSE server = "running"
    /\ handler[h] = "idle"
    /\ handler' = [handler EXCEPT ![h] = "between"]
    /\ UNCHANGED <<adapters, workers, scheduler, done, main, faults>>

\* The hooks have cancelled the contexts of Discord's handlers; those of requests
\* are never cancelled.  A pool that closes gives out no connection.
MayCall(h) == main \in IF h = Discord THEN {"run", "runtime"} ELSE {"run", "runtime", "hooks"}

HandlerCalls(h) ==
    /\ handler[h] = "between"
    /\ MayCall(h)
    /\ handler' = [handler EXCEPT ![h] = "calling"]
    /\ UNCHANGED <<adapters, workers, scheduler, done, main, faults>>

HandlerReturns(h) ==
    /\ handler[h] = "calling"
    /\ handler' = [handler EXCEPT ![h] = "between"]
    /\ UNCHANGED <<adapters, workers, scheduler, done, main, faults>>

HandlerEnds(h) ==
    /\ handler[h] = "between"
    /\ handler' = [handler EXCEPT ![h] = "idle"]
    /\ UNCHANGED <<adapters, workers, scheduler, done, main, faults>>

-----------------------------------------------------------------------------
(* The scheduler.                                                          *)

\* A tick of another job; select may prefer it to the end of the context.
IntegrityTick ==
    /\ jobs[Integrity] = "waiting"
    /\ jobs' = [jobs EXCEPT ![Integrity] = "running"]
    /\ UNCHANGED <<adapters, handler, loop, signal, due, batch, scheduler, done, main, faults>>

\* A handler that returns, whatever it returns: its error is only logged.
IntegrityEnds ==
    /\ jobs[Integrity] = "running"
    /\ jobs' = [jobs EXCEPT ![Integrity] = "waiting"]
    /\ UNCHANGED <<adapters, handler, loop, signal, due, batch, scheduler, done, main, faults>>

JobEnds(j) ==
    /\ jobs[j] = "waiting"
    /\ cancelled
    /\ jobs' = [jobs EXCEPT ![j] = "ended"]
    /\ UNCHANGED <<adapters, handler, loop, signal, due, batch, scheduler, done, main, faults>>

\* As if nobody had counted them.
DrainedAtOnce == TRUE

Drained == \A j \in DOMAIN jobs : jobs[j] = "ended"

SchedulerEnds ==
    /\ scheduler = "running"
    /\ cancelled
    /\ Drained
    /\ scheduler' = "ended"
    /\ UNCHANGED <<adapters, handler, workers, done, main, faults>>

-----------------------------------------------------------------------------
(* What is due.                                                            *)

\* A mutation makes its row due from now on, behind those that have been due for
\* longer, and notifies; a second wake-up is one with the first.
Mutate(r) ==
    /\ "calling" \in Range(handler) \/ jobs[Integrity] = "running"
    /\ \/ r \notin Range(due) /\ due' = Append(due, r)
       \/ \E i \in DOMAIN due : due[i] = r /\ due' = Append(RemoveAt(due, i), r)
    /\ signal' = TRUE
    /\ UNCHANGED <<adapters, handler, jobs, loop, batch, scheduler, done, main, faults>>

\* Nobody is told of a row whose next check has come, nor of one whose job could
\* not store its result, when the lease runs out: it has been due for longest.
FallsDue(r) ==
    /\ r \notin Range(due) \union Range(batch.queue) \union batch.working
    /\ \/ due' = Append(due, r) /\ UNCHANGED faults
       \/ due' = <<r>> \o due /\ Fault
    /\ UNCHANGED <<adapters, handler, jobs, loop, signal, batch, scheduler, done, main>>

-----------------------------------------------------------------------------
(* ReconcileDue, by the reconcile job and by the loop.                     *)

Caller(c) == IF c = Loop THEN loop ELSE jobs[Reconcile]

Becomes(c, state) ==
    IF c = Loop
    THEN loop' = state /\ UNCHANGED jobs
    ELSE jobs' = [jobs EXCEPT ![Reconcile] = state] /\ UNCHANGED loop

\* Without the lock.
FreeAlways == TRUE

Free == batch.caller = NoCaller

\* TryLock: who finds the lock taken returns at once.
Enter(c) ==
    \/ /\ Free
       /\ batch' = [NoBatch EXCEPT !.caller = c, !.step = "claim"]
       /\ Becomes(c, "running")
    \/ /\ ~Free
       /\ UNCHANGED <<batch, jobs, loop>>

\* A tick of the reconcile job.
Tick ==
    /\ jobs[Reconcile] = "waiting"
    /\ Enter(Reconcile)
    /\ UNCHANGED <<adapters, handler, signal, due, scheduler, done, main, faults>>

\* The signal: gone, whether the lock was free or not.
WakeUp ==
    /\ loop = "waiting"
    /\ signal
    /\ signal' = FALSE
    /\ Enter(Loop)
    /\ UNCHANGED <<adapters, handler, due, scheduler, done, main, faults>>

LoopEnds ==
    /\ loop = "waiting"
    /\ cancelled
    /\ loop' = "ended"
    /\ UNCHANGED <<adapters, handler, jobs, signal, due, batch, scheduler, done, main, faults>>

\* The lock is given up on the way out, but for an error.
UnlockedUnlessFailed == IF batch.step = "claim" THEN [batch EXCEPT !.step = "none"] ELSE NoBatch

\* The lock is given up on every way out.
Unlocked == NoBatch

\* A channel without room, as errors are read in the end.
NoRoom(size) == 0

\* The channel of errors, which is only read in the end, has room for all.
RoomForErrors(size) == size

\* The longest due come first.
ClaimDue ==
    LET size == IF Len(due) < BatchLimit THEN Len(due) ELSE BatchLimit IN
    /\ batch.step = "claim"
    /\ batch' = [batch EXCEPT !.step = "hand", !.queue = SubSeq(due, 1, size),
                              !.room = RoomForErrors(size)]
    /\ due' = SubSeq(due, size + 1, Len(due))
    /\ UNCHANGED <<adapters, handler, jobs, loop, signal, scheduler, done, main, faults>>

ClaimFails ==
    /\ batch.step = "claim"
    /\ \/ cancelled /\ UNCHANGED faults
       \/ Fault
    /\ Becomes(batch.caller, "waiting")
    /\ batch' = Unlocked
    /\ UNCHANGED <<adapters, handler, signal, due, scheduler, done, main>>

FreeWorker == Cardinality(batch.working) < Workers

\* The channel of jobs holds none: a row is handed to a worker that is free.
HandOut ==
    /\ batch.step = "hand"
    /\ batch.queue # <<>>
    /\ FreeWorker
    /\ batch' = [batch EXCEPT !.queue = Tail(@), !.working = @ \union {Head(batch.queue)}]
    /\ UNCHANGED <<adapters, handler, jobs, loop, signal, due, scheduler, done, main, faults>>

\* Nothing is handed out any more: all of it has been, or the context is cancelled.
CloseJobs ==
    /\ batch.step = "hand"
    /\ batch.queue = <<>> \/ cancelled
    /\ batch' = [batch EXCEPT !.step = "wait", !.queue = <<>>]
    /\ UNCHANGED <<adapters, handler, jobs, loop, signal, due, scheduler, done, main, faults>>

JobSucceeds(r) ==
    /\ r \in batch.working \ batch.stuck
    /\ batch' = [batch EXCEPT !.working = @ \ {r}]
    /\ UNCHANGED <<adapters, handler, jobs, loop, signal, due, scheduler, done, main, faults>>

\* Its worker goes on when the channel has taken the error, and else stays there.
JobFails(r) ==
    /\ r \in batch.working \ batch.stuck
    /\ batch' = IF batch.room > 0
                THEN [batch EXCEPT !.room = @ - 1, !.working = @ \ {r}]
                ELSE [batch EXCEPT !.stuck = @ \union {r}]
    /\ UNCHANGED <<adapters, handler, jobs, loop, signal, due, scheduler, done, main, faults>>

\* wait.Wait: for every worker.
Return ==
    /\ batch.step = "wait"
    /\ batch.working = {}
    /\ Becomes(batch.caller, "waiting")
    /\ batch' = Unlocked
    /\ UNCHANGED <<adapters, handler, signal, due, scheduler, done, main, faults>>

-----------------------------------------------------------------------------
(* Main.                                                                   *)

\* Wait, and the closing of the channel.
GroupEnds ==
    /\ ~done
    /\ server = "ended" /\ client = "ended" /\ scheduler = "ended" /\ loop = "ended"
    /\ done' = TRUE
    /\ UNCHANGED <<adapters, handler, workers, scheduler, main, faults>>

\* Run returns on a signal of the system, or when the group has ended; the first
\* hook of Close cancels the context, then waits for the group.
StopRuntime ==
    /\ main = "run"
    /\ main' = "runtime"
    /\ cancelled' = TRUE
    /\ UNCHANGED <<failure, server, client, handler, workers, scheduler, done, faults>>

\* The other hooks cancel the contexts of Discord's handlers and wait for none of
\* them.
RuntimeStopped ==
    /\ main = "runtime"
    /\ done
    /\ main' = "hooks"
    /\ UNCHANGED <<adapters, handler, workers, scheduler, done, faults>>

\* The last hook closes the pool.
HooksDone ==
    /\ main = "hooks"
    /\ main' = "pool"
    /\ UNCHANGED <<adapters, handler, workers, scheduler, done, faults>>

\* Of a process that has ended nothing is left.
Gone ==
    /\ server' = "ended" /\ client' = "ended"
    /\ handler' = [h \in DOMAIN handler |-> "idle"]
    /\ jobs' = [j \in DOMAIN jobs |-> "ended"]
    /\ scheduler' = "ended" /\ loop' = "ended"
    /\ signal' = FALSE /\ due' = <<>> /\ batch' = NoBatch
    /\ faults' = 0

\* Every connection has come back: of a handler between two calls none is out.
Returned == \A h \in DOMAIN handler : handler[h] # "calling"

ClosePool ==
    /\ main = "pool"
    /\ Returned
    /\ main' = "exited"
    /\ Gone
    /\ UNCHANGED <<cancelled, failure, done>>

\* Fifteen seconds for all of it; then the process ends whatever still runs.
StopTimesOut ==
    /\ main \in {"runtime", "hooks", "pool"}
    /\ main' = "killed"
    /\ Gone
    /\ UNCHANGED <<cancelled, failure, done>>

-----------------------------------------------------------------------------

Running == main \notin {"exited", "killed"}

Batch == ClaimDue \/ ClaimFails \/ HandOut \/ CloseJobs \/ Return

Works(r) == JobSucceeds(r) \/ JobFails(r)

\* What happens once: main stops on its own only when the group has ended.
Once ==
    \/ OpenGateway \/ CloseGateway \/ (cancelled /\ Serve)
    \/ SchedulerEnds \/ GroupEnds
    \/ (done /\ StopRuntime) \/ RuntimeStopped \/ HooksDone \/ ClosePool

Handles(h) == Arrives(h) \/ HandlerCalls(h) \/ HandlerReturns(h) \/ HandlerEnds(h)

Next ==
    \/ Running /\ (Serve \/ OpenGateway \/ CloseGateway)
    \/ Running /\ (\E h \in DOMAIN handler : Handles(h))
    \/ Running /\ (\E j \in DOMAIN jobs : JobEnds(j))
    \/ Running /\ (IntegrityTick \/ IntegrityEnds \/ SchedulerEnds)
    \/ Running /\ (\E r \in Rows : Mutate(r) \/ FallsDue(r) \/ Works(r))
    \/ Running /\ (Tick \/ WakeUp \/ LoopEnds \/ Batch)
    \/ Running /\ (GroupEnds \/ StopRuntime \/ RuntimeStopped
                      \/ HooksDone \/ ClosePool \/ StopTimesOut)

\* Calls return, goroutines that can go on do, the cron job ticks.  Of two cases
\* that are ready again and again a select takes each some time: the end of the
\* context against the next tick or wake-up.
Fairness ==
    /\ \A h \in {Discord, Http} : WF_vars(Running /\ HandlerReturns(h))
    /\ WF_vars(Running /\ Tick)
    /\ WF_vars(Running /\ IntegrityEnds)
    /\ \A j \in {Reconcile, Integrity} : SF_vars(Running /\ JobEnds(j))
    /\ SF_vars(Running /\ LoopEnds)
    /\ WF_vars(Running /\ Batch)
    /\ \A r \in Rows : WF_vars(Running /\ Works(r))
    /\ WF_vars(Running /\ Once)

Spec == Init /\ [][Next]_vars /\ Fairness

-----------------------------------------------------------------------------
(* Properties.                                                             *)

BatchRecord ==
    [caller : {NoCaller, Loop, Reconcile}, step : {"none", "claim", "hand", "wait"},
     queue : Seq(Rows), working : SUBSET Rows, stuck : SUBSET Rows, room : 0..BatchLimit]

\* The type invariant.
TypeOK ==
    /\ cancelled \in BOOLEAN /\ failure \in BOOLEAN
    /\ server \in {"running", "ended"} /\ client \in {"opening", "open", "ended"}
    /\ handler \in [{Discord, Http} -> {"idle", "between", "calling"}]
    /\ jobs \in [{Reconcile, Integrity} -> {"waiting", "running", "ended"}]
    /\ scheduler \in {"running", "ended"} /\ loop \in {"waiting", "running", "ended"}
    /\ signal \in BOOLEAN /\ done \in BOOLEAN
    /\ due \in Seq(Rows) /\ IsInjective(due)
    /\ batch \in BatchRecord
    /\ main \in {"run", "runtime", "hooks", "pool", "exited", "killed"}
    /\ faults \in 0..MaxFaults

\* A row is in one place of the batch, no more workers have one than there are,
\* and every row that is still to be worked has room for its error, so that no
\* worker is ever stuck.
BatchIsSound ==
    /\ batch.caller = NoCaller => batch = NoBatch
    /\ batch.caller # NoCaller => batch.step # "none"
    /\ batch.step = "claim" => batch.queue = <<>> /\ batch.working = {}
    /\ IsInjective(batch.queue)
    /\ Range(batch.queue) \intersect batch.working = {}
    /\ Cardinality(batch.working) <= Workers
    /\ batch.stuck = {}
    /\ Len(batch.queue) + Cardinality(batch.working) <= batch.room

\* One caller at a time is inside ReconcileDue, and it is the one with the lock.
OneBatch ==
    \A c \in {Loop, Reconcile} : Caller(c) = "running" <=> batch.caller = c

\* What has ended before what.
EndsInOrder ==
    /\ scheduler = "ended" => Drained
    /\ done => server = "ended" /\ client = "ended" /\ scheduler = "ended" /\ loop = "ended"
    /\ main \in {"hooks", "pool", "exited"} => done

\* The inductive invariant.
IInv == TypeOK /\ BatchIsSound /\ OneBatch /\ EndsInOrder

\* Unless the time is up, the pool only begins to close when the adapters, the
\* jobs and the batch have ended, and is only closed when no call of a handler is
\* under way; a handler between two calls gets no further.
PoolClosesLast ==
    [][/\ main' = "pool" /\ main # "pool" =>
              /\ server = "ended" /\ client = "ended" /\ batch = NoBatch
              /\ \A j \in DOMAIN jobs : jobs[j] = "ended"
       /\ main' = "exited" /\ main # "exited" =>
              /\ main = "pool"
              /\ \A h \in DOMAIN handler : handler[h] # "calling"]_vars

\* The process ends: after an adapter's failure (runtime.go:65:
\* "Done closes when any running adapter fails or shutdown completes") and after
\* the system's signal, whatever batch and jobs are under way.
StopsInTheEnd == failure \/ main # "run" ~> ~Running

\* A row that is due is claimed while the process runs, although wake-ups are
\* lost to the lock, claims fail, a claim takes fewer rows than are due, and other
\* rows keep falling due: unless it is changed for ever, and so never grows old.
DueIsClaimed ==
    \A r \in Rows :
        \/ []<><<Mutate(r)>>_vars
        \/ r \in Range(due) ~> r \notin Range(due) \/ cancelled \/ ~Running
=============================================================================
