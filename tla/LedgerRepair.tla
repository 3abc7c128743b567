---------------------------- MODULE LedgerRepair ----------------------------
(***************************************************************************)
(* Repair of ledgers the indexer skipped: the gap table, the workers that  *)
(* claim gaps (gap-repair.ts) and the backfill jobs they run (backfill.ts),*)
(* next to an operator's commands (cli.ts) and the live poller.  Every     *)
(* database statement and every batch is a step of its own; any of them    *)
(* may fail, and a process may die between any two.                        *)
(***************************************************************************)
EXTENDS Integers

CONSTANTS Workers,      \* long-running gap-repair workers
          Operators,    \* shells in which commands are run, one at a time
          Gaps,         \* rows the poller may add to LedgerGap
          FromLedger,   \* gap -> its first ledger
          ToLedger,     \* gap -> its last ledger
          Tip,          \* last ledger of the chain
          BatchSize,    \* ledgers per batch
          Concurrency,  \* batches per window
          MaxAttempts,  \* GAP_REPAIR_MAX_RETRIES
          MaxJobs,      \* bound on the jobs created
          MaxCrashes,   \* bound on the processes that die and the claims that fail
          None

Procs == Workers \cup Operators
Ledgers == 1..Tip
Jobs == 1..MaxJobs

ASSUME RepairAssumption ==
    /\ Tip \in Nat /\ MaxJobs \in Nat /\ MaxCrashes \in Nat
    /\ MaxAttempts \in Nat \ {0} /\ BatchSize \in Nat \ {0} /\ Concurrency \in Nat \ {0}
    /\ FromLedger \in [Gaps -> Ledgers] /\ ToLedger \in [Gaps -> Ledgers]
    /\ None \notin Jobs /\ None \notin Gaps /\ None \notin Procs

VARIABLES
    gap,      \* gap -> status of its row, "absent" before the poller skips it
    job,      \* job -> its row
    created,  \* jobs created so far
    lock,     \* job -> the process whose session holds its advisory lock
    proc,     \* process -> where its code is
    cursor,   \* SyncState.lastLedger
    indexed,  \* ledgers whose events a backfill has applied
    lost,     \* job -> ledgers of its batches that failed or died with their process
    orphans,  \* gaps whose repair ended without a verdict
    crashes   \* processes that died and claims that failed so far

rvars == <<gap, job, created, lock, proc, cursor, indexed, lost, orphans, crashes>>
rows == <<gap, job, created, lock, cursor, indexed, lost, orphans, crashes>>

-----------------------------------------------------------------------------

\* A process outside of a backfill: pc, the gap it repairs, whether it claimed
\* that gap, and the attempt it is at.
Outside(pc, g, claim, attempt) ==
    [pc |-> pc, gap |-> g, claim |-> claim, attempt |-> attempt,
     job |-> None, ahead |-> FALSE, next |-> 0, flight |-> {}]

Idle == Outside("idle", None, FALSE, 0)

At(w, pc) == proc[w].pc = pc

\* A row before it is inserted: an empty range.
NoJob == [gap |-> None, start |-> 1, end |-> 0, checkpoint |-> 0, status |-> "absent"]

NewJob(g) == [gap |-> g, start |-> FromLedger[g], end |-> ToLedger[g],
              checkpoint |-> 0, status |-> "Pending"]

\* Where a run of a job starts, given the row it has read.
ResumePast(r) == IF r.checkpoint > 0 THEN r.checkpoint + BatchSize + 1 ELSE r.start

ResumeFrom(r) == IF r.checkpoint > 0 THEN r.checkpoint + 1 ELSE r.start

\* A process inside runBackfill: before the lock, and between its statements.
Inside(w, pc, j, ahead, next, flight) ==
    [pc |-> pc, gap |-> proc[w].gap, claim |-> proc[w].claim, attempt |-> proc[w].attempt,
     job |-> j, ahead |-> ahead, next |-> next, flight |-> flight]

Entering(w, j, r) == Inside(w, "lock", j, FALSE, ResumeFrom(r), {})

Looking(w, ahead) == Inside(w, "batches", proc[w].job, ahead, proc[w].next, {})

Settling(w, next, flight) == Inside(w, "batches", proc[w].job, proc[w].ahead, next, flight)

\* The ledgers of the batch that starts at lo, in a job that ends at hi, and the
\* first ledgers of the batches of the window that starts at lo.
Batch(lo, hi) == lo..(IF lo + BatchSize - 1 < hi THEN lo + BatchSize - 1 ELSE hi)

Window(lo, hi) == {lo + k * BatchSize : k \in 0..(Concurrency - 1)} \cap lo..hi

\* Ledgers of the batches process w has in flight.
InFlight(w) == UNION {Batch(lo, job[proc[w].job].end) : lo \in proc[w].flight}

\* Mutant: the last attempt is repeated for ever.
ThrowForever(w) ==
    proc' = [proc EXCEPT ![w] =
        IF @.gap = None THEN Idle
        ELSE Outside("attempt", @.gap, @.claim,
                     IF @.attempt < MaxAttempts THEN @.attempt + 1 ELSE MaxAttempts)]

\* runBackfill threw: withRetry starts over, or repairGap gives up; a resume
\* command just ends.
Throw(w) ==
    proc' = [proc EXCEPT ![w] =
        IF @.gap = None THEN Idle
        ELSE IF @.attempt < MaxAttempts
             THEN Outside("attempt", @.gap, @.claim, @.attempt + 1)
             ELSE Outside("fail", @.gap, @.claim, @.attempt)]

\* The unlock runs on any connection of the pool, and only the one that took the
\* lock can release it.
Unlock(w) == lock' \in {lock, [lock EXCEPT ![proc[w].job] = None]}

-----------------------------------------------------------------------------

\* The poller jumps over ledgers it can no longer fetch, and leaves a row.
Skip(g) ==
    /\ gap[g] = "absent"
    /\ gap' = [gap EXCEPT ![g] = "Open"]
    /\ UNCHANGED <<job, created, lock, proc, cursor, indexed, lost, orphans, crashes>>

\* The poller commits a checkpoint.
Poll ==
    /\ cursor' \in (cursor + 1)..Tip
    /\ UNCHANGED <<gap, job, created, lock, proc, indexed, lost, orphans, crashes>>

\* A repair cycle picks an Open gap...
FindOpen(w, g) ==
    /\ At(w, "idle") /\ gap[g] = "Open"
    /\ proc' = [proc EXCEPT ![w] = Outside("claim", g, FALSE, 0)]
    /\ UNCHANGED rows

\* ...and claims it if it still is.
ClaimUnchecked(w) ==
    /\ At(w, "claim")
    /\ gap' = [gap EXCEPT ![proc[w].gap] = "Repairing"]
    /\ proc' = [proc EXCEPT ![w] = Outside("attempt", @.gap, TRUE, 1)]
    /\ UNCHANGED <<job, created, lock, cursor, indexed, lost, orphans, crashes>>

Claim(w) ==
    /\ At(w, "claim") /\ gap[proc[w].gap] = "Open"
    /\ gap' = [gap EXCEPT ![proc[w].gap] = "Repairing"]
    /\ proc' = [proc EXCEPT ![w] = Outside("attempt", @.gap, TRUE, 1)]
    /\ UNCHANGED <<job, created, lock, cursor, indexed, lost, orphans, crashes>>

ClaimLost(w) ==
    /\ At(w, "claim") /\ gap[proc[w].gap] # "Open"
    /\ proc' = [proc EXCEPT ![w] = Idle]
    /\ UNCHANGED rows

\* The update fails before it is applied: the cycle ends, and the gap waits for
\* the next one.
ClaimFails(w) ==
    /\ At(w, "claim") /\ crashes < MaxCrashes
    /\ crashes' = crashes + 1
    /\ proc' = [proc EXCEPT ![w] = Idle]
    /\ UNCHANGED <<gap, job, created, lock, cursor, indexed, lost, orphans>>

\* The update is applied but its answer is lost, or the claimed gap cannot be read
\* back, before repairGap's try.
ClaimUnread(w) ==
    /\ At(w, "claim") /\ gap[proc[w].gap] = "Open"
    /\ gap' = [gap EXCEPT ![proc[w].gap] = "Repairing"]
    /\ orphans' = orphans \cup {proc[w].gap}
    /\ proc' = [proc EXCEPT ![w] = Idle]
    /\ UNCHANGED <<job, created, lock, cursor, indexed, lost, crashes>>

\* No RPC URL is configured: the verdict comes before the first attempt.
Unconfigured(w) ==
    /\ At(w, "attempt") /\ proc[w].attempt = 1
    /\ proc' = [proc EXCEPT ![w] = Outside("fail", @.gap, @.claim, 1)]
    /\ UNCHANGED rows

\* An operator repairs a gap by its id: no claim.
RepairById(w, g) ==
    /\ At(w, "idle") /\ gap[g] # "absent"
    /\ proc' = [proc EXCEPT ![w] = Outside("attempt", g, FALSE, 1)]
    /\ UNCHANGED rows

\* An operator resumes a job; its row is read before the lock is taken.
Resume(w, j) ==
    /\ At(w, "idle") /\ job[j].status \in {"Pending", "Failed"}
    /\ proc' = [proc EXCEPT ![w] = Entering(w, j, job[j])]
    /\ UNCHANGED rows

\* An operator cancels a job: the check and the write are two statements.
CheckCancel(w, j) ==
    /\ At(w, "idle") /\ job[j].status \in {"Pending", "Running", "Failed"}
    /\ proc' = [proc EXCEPT ![w] = Inside(w, "cancel", j, FALSE, 0, {})]
    /\ UNCHANGED rows

Cancel(w) ==
    /\ At(w, "cancel")
    /\ job' = [job EXCEPT ![proc[w].job].status = "Cancelled"]
    /\ proc' = [proc EXCEPT ![w] = Idle]
    /\ UNCHANGED <<gap, created, lock, cursor, indexed, lost, orphans, crashes>>

-----------------------------------------------------------------------------

\* One attempt of repairGap: runBackfill creates a job...
CreateJob(w) ==
    /\ At(w, "attempt") /\ created < MaxJobs
    /\ FromLedger[proc[w].gap] <= ToLedger[proc[w].gap]
    /\ created' = created + 1
    /\ job' = [job EXCEPT ![created + 1] = NewJob(proc[w].gap)]
    /\ proc' = [proc EXCEPT ![w] = Entering(w, created + 1, NewJob(@.gap))]
    /\ UNCHANGED <<gap, lock, cursor, indexed, lost, orphans, crashes>>

\* ...unless the chain tip, the range or the insert stops it.
NotCreated(w) ==
    /\ At(w, "attempt")
    /\ Throw(w)
    /\ UNCHANGED rows

LockUnchecked(w) ==
    /\ At(w, "lock")
    /\ lock' = [lock EXCEPT ![proc[w].job] = w]
    /\ job' = [job EXCEPT ![proc[w].job].status = "Running"]
    /\ proc' = [proc EXCEPT ![w] = Inside(w, "cursor", @.job, FALSE, @.next, {})]
    /\ UNCHANGED <<gap, created, cursor, indexed, lost, orphans, crashes>>

Lock(w) ==
    /\ At(w, "lock") /\ lock[proc[w].job] = None
    /\ lock' = [lock EXCEPT ![proc[w].job] = w]
    /\ job' = [job EXCEPT ![proc[w].job].status = "Running"]
    /\ proc' = [proc EXCEPT ![w] = Inside(w, "cursor", @.job, FALSE, @.next, {})]
    /\ UNCHANGED <<gap, created, cursor, indexed, lost, orphans, crashes>>

\* The row cannot be set to Running: this is before the try, so nothing unlocks.
LockKept(w) ==
    /\ At(w, "lock") /\ lock[proc[w].job] = None
    /\ lock' = [lock EXCEPT ![proc[w].job] = w]
    /\ Throw(w)
    /\ UNCHANGED <<gap, job, created, cursor, indexed, lost, orphans, crashes>>

LockHeld(w) ==
    /\ At(w, "lock") /\ lock[proc[w].job] # None
    /\ Throw(w)
    /\ UNCHANGED rows

\* The cursor is read once; a job ahead of it will move it.
ReadCursor(w) ==
    /\ At(w, "cursor")
    /\ proc' = [proc EXCEPT ![w] = Looking(w, job[@.job].start > cursor)]
    /\ UNCHANGED rows

\* The next window is sent off when every batch of the last one has settled.
SendWindow(w) ==
    /\ At(w, "batches") /\ proc[w].flight = {} /\ proc[w].next <= job[proc[w].job].end
    /\ proc' = [proc EXCEPT ![w] = Settling(w, @.next + Concurrency * BatchSize,
                                           Window(@.next, job[@.job].end))]
    /\ UNCHANGED rows

\* One transaction: the events, the checkpoint (the last ledger with an event, or
\* the last of the batch) and, ahead of the live cursor, the cursor.
BatchCommits(w, lo) ==
    /\ At(w, "batches") /\ lo \in proc[w].flight
    /\ LET j == proc[w].job
           batch == Batch(lo, job[j].end)
       IN \E max \in batch :
            /\ indexed' = indexed \cup batch
            /\ job' = [job EXCEPT ![j].checkpoint = max]
            /\ cursor' = IF proc[w].ahead THEN max ELSE cursor
    /\ proc' = [proc EXCEPT ![w] = Settling(w, @.next, @.flight \ {lo})]
    /\ UNCHANGED <<gap, created, lock, lost, orphans, crashes>>

\* A failed batch is logged, and the job goes on.
BatchFails(w, lo) ==
    /\ At(w, "batches") /\ lo \in proc[w].flight
    /\ lost' = [lost EXCEPT ![proc[w].job] = @ \cup Batch(lo, job[proc[w].job].end)]
    /\ proc' = [proc EXCEPT ![w] = Settling(w, @.next, @.flight \ {lo})]
    /\ UNCHANGED <<gap, job, created, lock, cursor, indexed, orphans, crashes>>

AllSettled(w) ==
    At(w, "batches") /\ proc[w].flight = {} /\ proc[w].next > job[proc[w].job].end

Complete(w) ==
    /\ AllSettled(w)
    /\ job' = [job EXCEPT ![proc[w].job].status = "Completed",
                          ![proc[w].job].checkpoint = job[proc[w].job].end]
    /\ Unlock(w)
    /\ proc' = [proc EXCEPT ![w] = IF @.gap = None THEN Idle
                                   ELSE Outside("mark", @.gap, @.claim, @.attempt)]
    /\ UNCHANGED <<gap, created, cursor, indexed, lost, orphans, crashes>>

\* A statement of runBackfill's try fails; recording that may fail as well.
JobFails(w) ==
    /\ At(w, "cursor") \/ AllSettled(w)
    /\ job' \in {job, [job EXCEPT ![proc[w].job].status = "Failed"]}
    /\ Unlock(w)
    /\ Throw(w)
    /\ UNCHANGED <<gap, created, cursor, indexed, lost, orphans, crashes>>

\* repairGap writes its verdict; a Repaired that cannot be written becomes Failed.
MarkRepaired(w) ==
    /\ At(w, "mark")
    /\ gap' = [gap EXCEPT ![proc[w].gap] = "Repaired"]
    /\ proc' = [proc EXCEPT ![w] = Idle]
    /\ UNCHANGED <<job, created, lock, cursor, indexed, lost, orphans, crashes>>

NotMarked(w) ==
    /\ At(w, "mark")
    /\ proc' = [proc EXCEPT ![w] = Outside("fail", @.gap, @.claim, @.attempt)]
    /\ UNCHANGED rows

MarkFailed(w) ==
    /\ At(w, "fail")
    /\ gap' = [gap EXCEPT ![proc[w].gap] = "Failed"]
    /\ proc' = [proc EXCEPT ![w] = Idle]
    /\ UNCHANGED <<job, created, lock, cursor, indexed, lost, orphans, crashes>>

\* The verdict cannot be written either; a claimed gap is left in Repairing.
NoVerdict(w) ==
    /\ At(w, "fail")
    /\ orphans' = IF proc[w].claim THEN orphans \cup {proc[w].gap} ELSE orphans
    /\ proc' = [proc EXCEPT ![w] = Idle]
    /\ UNCHANGED <<gap, job, created, lock, cursor, indexed, lost, crashes>>

-----------------------------------------------------------------------------

Released(w) == [j \in Jobs |-> IF lock[j] = w THEN None ELSE lock[j]]

\* A command has ended: its connections close.
Disconnect(w) ==
    /\ At(w, "idle") /\ \E j \in Jobs : lock[j] = w
    /\ lock' = Released(w)
    /\ UNCHANGED <<gap, job, created, proc, cursor, indexed, lost, orphans, crashes>>

\* A process dies; its transactions roll back and its session locks are freed.
Crash(w) ==
    /\ ~At(w, "idle") /\ crashes < MaxCrashes
    /\ crashes' = crashes + 1
    /\ lock' = Released(w)
    /\ lost' = IF proc[w].job = None THEN lost
               ELSE [lost EXCEPT ![proc[w].job] = @ \cup InFlight(w)]
    /\ orphans' = IF proc[w].claim THEN orphans \cup {proc[w].gap} ELSE orphans
    /\ proc' = [proc EXCEPT ![w] = Idle]
    /\ UNCHANGED <<gap, job, created, cursor, indexed>>

-----------------------------------------------------------------------------

RInit ==
    /\ gap = [g \in Gaps |-> "absent"]
    /\ job = [j \in Jobs |-> NoJob]
    /\ created = 0
    /\ lock = [j \in Jobs |-> None]
    /\ proc = [w \in Procs |-> Idle]
    /\ cursor = 0
    /\ indexed = {}
    /\ lost = [j \in Jobs |-> {}]
    /\ orphans = {}
    /\ crashes = 0

BackfillStep(w) ==
    \/ CreateJob(w) \/ NotCreated(w)
    \/ Lock(w) \/ LockKept(w) \/ LockHeld(w)
    \/ ReadCursor(w) \/ SendWindow(w)
    \/ \E lo \in proc[w].flight : BatchCommits(w, lo) \/ BatchFails(w, lo)
    \/ Complete(w) \/ JobFails(w)

RepairStep(w) ==
    \/ Claim(w) \/ ClaimLost(w) \/ ClaimFails(w) \/ ClaimUnread(w) \/ Unconfigured(w)
    \/ MarkRepaired(w) \/ NotMarked(w) \/ MarkFailed(w) \/ NoVerdict(w)

Cycle(w) == \E g \in Gaps : FindOpen(w, g)

Command(w) ==
    \/ \E g \in Gaps : RepairById(w, g)
    \/ \E j \in Jobs : Resume(w, j) \/ CheckCancel(w, j)
    \/ Cancel(w) \/ Disconnect(w)

RNext ==
    \/ \E g \in Gaps : Skip(g)
    \/ Poll
    \/ \E w \in Procs : Cycle(w) \/ BackfillStep(w) \/ RepairStep(w) \/ Crash(w)
    \/ \E w \in Operators : Command(w)

\* Every call a repair or a backfill awaits settles, and a worker's loop comes
\* round every interval; nobody has to run a command.
RSpec == /\ RInit /\ [][RNext]_rvars
         /\ \A w \in Procs : WF_rvars(BackfillStep(w) \/ RepairStep(w))
         /\ \A w \in Workers : WF_rvars(Cycle(w))

-----------------------------------------------------------------------------

Executing(w) == proc[w].pc \in {"cursor", "batches"}

\* Two processes never run the same backfill job at once, whether they were started
\* as a repair or as a resume that read the row before the other took the lock, and
\* whatever sessions left the lock behind (backfill.ts:7, "two workers cannot run
\* the same job").
OneRunnerPerJob ==
    \A w, v \in Procs :
        Executing(w) /\ Executing(v) /\ proc[w].job = proc[v].job => w = v

\* The claim on a gap is exclusive and is not dropped: no two processes hold one
\* gap, and a gap in Repairing has its claimant, unless that died or lost the
\* database at one of the two places where repairGap cannot write a verdict.
ClaimHeld ==
    \A g \in Gaps :
        /\ \A w, v \in Procs :
               proc[w].claim /\ proc[v].claim /\ proc[w].gap = g /\ proc[v].gap = g => w = v
        /\ gap[g] = "Repairing" =>
               g \in orphans \/ \E w \in Procs : proc[w].claim /\ proc[w].gap = g

\* A Completed job has been over its whole range and a Repaired gap has been
\* backfilled from end to end: a ledger that is not indexed was in a batch that
\* failed or died, never between two batches, two windows or two runs of the job.
RangesAttempted ==
    /\ \A j \in Jobs : job[j].status = "Completed" =>
           job[j].start..job[j].end \subseteq indexed \cup lost[j]
    /\ \A g \in Gaps : gap[g] = "Repaired" =>
           FromLedger[g]..ToLedger[g] \subseteq
               indexed \cup UNION {lost[j] : j \in {i \in Jobs : job[i].gap = g}}

\* An Open gap is settled: some worker claims it, and repairs it or gives up
\* after MaxAttempts, unless its claimant is lost without a verdict.
OpenGapsSettle ==
    \A g \in Gaps : gap[g] = "Open" ~> gap[g] \in {"Repaired", "Failed"} \/ g \in orphans

=============================================================================
