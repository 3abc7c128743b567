------------------------- MODULE LedgerRepairProofs -------------------------
(***************************************************************************)
(* A job has one runner, a gap one claimant, and a Completed job or a      *)
(* Repaired gap no ledger that was not attempted, for every number of      *)
(* processes, gaps, jobs and ledgers and every retry limit.                *)
(*                                                                         *)
(* None of the three is inductive.  One runner: an executing process holds *)
(* the lock of its job (Runs).  One claimant: a claimed gap has left Open, *)
(* to which nothing returns (Claims).  Attempted ledgers: what lies before *)
(* a run's position or a job's checkpoint is covered or in flight          *)
(* (Progress).                                                             *)
(***************************************************************************)
EXTENDS LedgerRepair, TLAPS

GapStatus == {"absent", "Open", "Repairing", "Repaired", "Failed"}
JobStatus == {"absent", "Pending", "Running", "Completed", "Failed", "Cancelled"}
Places == {"idle", "claim", "cancel", "attempt", "lock", "cursor", "batches", "mark", "fail"}

JobRow == [gap : Gaps \cup {None}, start : Int, end : Int, checkpoint : Int, status : JobStatus]

ProcState == [pc : Places, gap : Gaps \cup {None}, claim : BOOLEAN, attempt : Int,
              job : Jobs \cup {None}, ahead : BOOLEAN, next : Int, flight : SUBSET Int]

\* The state has its shape.
RTypeOK ==
    /\ gap \in [Gaps -> GapStatus]
    /\ job \in [Jobs -> JobRow]
    /\ created \in 0..MaxJobs
    /\ lock \in [Jobs -> Procs \cup {None}]
    /\ proc \in [Procs -> ProcState]
    /\ cursor \in Int
    /\ indexed \in SUBSET Int
    /\ lost \in [Jobs -> SUBSET Int]
    /\ orphans \in SUBSET Gaps

\* What a process holds at each place of its code, n jobs having been created.
Sound(p, n) ==
    /\ p.pc \in {"idle", "claim", "cancel"} => ~p.claim
    /\ p.pc \in {"idle", "cancel"} => p.gap = None
    /\ p.pc \in {"claim", "attempt", "mark", "fail"} => p.gap \in Gaps
    /\ p.pc \in {"lock", "cursor", "batches", "cancel"} => p.job \in Jobs
    /\ p.pc \in {"idle", "claim", "attempt", "mark", "fail"} => p.job = None
    /\ p.claim => p.gap \in Gaps
    /\ p.pc # "batches" => p.flight = {}
    /\ p.job \in Jobs => p.job <= n

Located == \A w \in Procs : Sound(proc[w], created)

Shape == RTypeOK /\ Located

\* The rows of jobs that have not been created are blank.
Fresh == \A j \in Jobs : j > created => job[j].status = "absent" /\ job[j].gap = None

\* Job ids, the job counter and the ends of gaps are numbers, and the next id is
\* a job's while the counter is below its bound.
LEMMA Numbers ==
    ASSUME RTypeOK
    PROVE  /\ created \in Int
           /\ created < MaxJobs => created + 1 \in Jobs
           /\ \A j \in Jobs : j \in Int
           /\ \A g \in Gaps : FromLedger[g] \in Int /\ FromLedger[g] > 0 /\ g # None
BY RepairAssumption DEF RTypeOK, Jobs, Ledgers

\* A new job starts where its gap does.
LEMMA NewJobFields ==
    ASSUME NEW g
    PROVE  /\ NewJob(g).start = FromLedger[g] /\ NewJob(g).end = ToLedger[g]
           /\ NewJob(g).gap = g /\ NewJob(g).checkpoint = 0 /\ NewJob(g).status # "Completed"
           /\ ResumeFrom(NewJob(g)) = FromLedger[g]
BY DEF NewJob, ResumeFrom

-----------------------------------------------------------------------------
\* Only process w moves, and it moves to p.
Moves(w, p) == proc' = [proc EXCEPT ![w] = p]

\* A process that throws ends, starts over or gives up, with its claim.
Thrown(p, q) ==
    /\ q \in ProcState
    /\ q.pc \in {"idle", "attempt", "fail"}
    /\ q.pc = "idle" => q.gap = None
    /\ q.pc # "idle" => q.gap \in Gaps
    /\ q.claim = p.claim /\ (p.claim => q.gap = p.gap)
    /\ q.pc = "idle" => ~q.claim
    /\ q.job = None /\ q.flight = {}

\* A process between the statements of repairGap holds its gap, and no job.
LEMMA OutsideSound ==
    ASSUME NEW pc \in {"claim", "attempt", "mark", "fail"}, NEW g \in Gaps,
           NEW c \in BOOLEAN, NEW a \in Int, NEW n \in Int, pc = "claim" => ~c
    PROVE  Outside(pc, g, c, a) \in ProcState /\ Sound(Outside(pc, g, c, a), n)
BY RepairAssumption DEF Outside, ProcState, Sound, Places

\* A process between two repairs or commands holds nothing.
LEMMA IdleSound ==
    ASSUME NEW n \in Int
    PROVE  Idle \in ProcState /\ Sound(Idle, n)
BY RepairAssumption DEF Idle, Outside, ProcState, Sound, Places

\* What withRetry and repairGap's catch make of an exception.
LEMMA ThrowMoves ==
    ASSUME RTypeOK, NEW w \in Procs, Sound(proc[w], created), Throw(w)
    PROVE  \E q : Moves(w, q) /\ Thrown(proc[w], q)
<1> DEFINE p == proc[w]
<1>1. p \in ProcState
  BY DEF RTypeOK
<1>2. CASE p.gap = None
  <2>1. ~p.claim
    BY <1>2, RepairAssumption DEF Sound
  <2>2. Thrown(p, Idle)
    <3>1. Idle \in ProcState
      BY RepairAssumption, IdleSound
    <3> QED
      BY <1>1, <2>1, <3>1, RepairAssumption, ZenonT(30) DEF Thrown, Idle, Outside, ProcState
  <2> QED
    BY <1>2, <2>2, ZenonT(30) DEF Throw, Moves
<1>3. CASE p.gap # None
  <2>1. p.gap \in Gaps /\ p.claim \in BOOLEAN /\ p.attempt \in Int
    BY <1>1, <1>3 DEF ProcState
  <2> DEFINE q == IF p.attempt < MaxAttempts
                  THEN Outside("attempt", p.gap, p.claim, p.attempt + 1)
                  ELSE Outside("fail", p.gap, p.claim, p.attempt)
  <2>2. Thrown(p, q)
    BY <2>1 DEF Thrown, Outside, ProcState, Places
  <2>3. Moves(w, q)
    BY <1>3 DEF Throw, Moves
  <2> QED
    BY <2>2, <2>3
<1> QED
  BY <1>2, <1>3

\* Wherever an exception leads is a sound place.
LEMMA ThrownSound ==
    ASSUME NEW p, NEW q, NEW n \in Int, Thrown(p, q)
    PROVE  q \in ProcState /\ Sound(q, n)
BY RepairAssumption DEF Thrown, Sound, ProcState

\* A move to a sound place keeps every process sound.
LEMMA MoveSound ==
    ASSUME Shape, NEW w \in Procs, NEW q \in ProcState, Moves(w, q),
           created' \in 0..MaxJobs, created <= created', Sound(q, created')
    PROVE  proc' \in [Procs -> ProcState] /\ Located'
<1>1. proc' \in [Procs -> ProcState]
  BY DEF Shape, RTypeOK, Moves
<1>2. ASSUME NEW v \in Procs PROVE Sound(proc'[v], created')
  <2>1. CASE v = w
    BY <2>1 DEF Moves, Shape, RTypeOK
  <2>2. CASE v # w
    <3>1. proc'[v] = proc[v] /\ Sound(proc[v], created)
      BY <2>2 DEF Moves, Shape, RTypeOK, Located
    <3>2. proc[v].job \in Jobs => proc[v].job <= created'
      BY <3>1, RepairAssumption DEF Sound, Shape, RTypeOK, Jobs
    <3> QED
      BY <3>1, <3>2 DEF Sound
  <2> QED
    BY <2>1, <2>2
<1> QED
  BY <1>1, <1>2 DEF Located


\* A process in the middle of a run holds the job it runs.
LEMMA InsideSound ==
    ASSUME Shape, NEW w \in Procs, NEW n \in Int, NEW j \in Jobs, j <= n,
           NEW pc \in {"lock", "cursor", "batches"}, NEW a \in BOOLEAN, NEW x \in Int,
           NEW f \in SUBSET Int, pc # "batches" => f = {}
    PROVE  Inside(w, pc, j, a, x, f) \in ProcState /\ Sound(Inside(w, pc, j, a, x, f), n)
<1>1. proc[w] \in ProcState /\ Sound(proc[w], created)
  BY DEF Shape, RTypeOK, Located
<1>2. Inside(w, pc, j, a, x, f) \in ProcState
  BY <1>1 DEF Inside, ProcState, Places
<1> QED
  BY <1>1, <1>2, RepairAssumption DEF Inside, Sound, ProcState

\* The start of a run of job j at ledger x.
Started(w, pc, j, x) == Inside(w, pc, j, FALSE, x, {})

\* So does one that starts a run, before and after the lock.
LEMMA EnterSound ==
    ASSUME Shape, NEW w \in Procs, NEW n \in Int, NEW j \in Jobs, j <= n,
           NEW pc \in {"lock", "cursor"}, NEW x \in Int
    PROVE  Started(w, pc, j, x) \in ProcState /\ Sound(Started(w, pc, j, x), n)
<1>1. proc[w] \in ProcState /\ Sound(proc[w], created)
  BY DEF Shape, RTypeOK, Located
<1>2. Started(w, pc, j, x) \in ProcState
  BY <1>1 DEF Inside, Started, ProcState, Places
<1> QED
  BY <1>1, <1>2, RepairAssumption DEF Inside, Started, Sound, ProcState

\* A cancel holds the job it has looked at.
LEMMA CancelSound ==
    ASSUME Shape, NEW w \in Procs, At(w, "idle"), NEW n \in Int, NEW j \in Jobs, j <= n
    PROVE  LET q == Inside(w, "cancel", j, FALSE, 0, {})
           IN  q \in ProcState /\ Sound(q, n)
<1>1. proc[w] \in ProcState /\ Sound(proc[w], created)
  BY DEF Shape, RTypeOK, Located
<1>2. Inside(w, "cancel", j, FALSE, 0, {}) \in ProcState
  BY <1>1 DEF Inside, ProcState, Places
<1> QED
  BY <1>1, <1>2, RepairAssumption DEF Inside, Sound, ProcState, At

\* Updates of a job's status and checkpoint keep the row's shape.
LEMMA RowTypes ==
    ASSUME RTypeOK, NEW j \in Jobs
    PROVE  /\ \A s \in JobStatus : [job EXCEPT ![j].status = s] \in [Jobs -> JobRow]
           /\ \A c \in Int : [job EXCEPT ![j].checkpoint = c] \in [Jobs -> JobRow]
           /\ \A s \in JobStatus : \A c \in Int :
                 [job EXCEPT ![j].status = s, ![j].checkpoint = c] \in [Jobs -> JobRow]
BY ZenonT(30) DEF RTypeOK, JobRow

\* Batches and windows are sets of ledgers.
LEMMA BatchTypes ==
    ASSUME NEW lo \in Int, NEW hi \in Int, NEW n \in Int
    PROVE  Batch(lo, hi) \subseteq Int /\ Window(lo, hi) \subseteq Int
           /\ n + Concurrency * BatchSize \in Int
<1>1. BatchSize \in Int /\ Concurrency \in Int
  BY RepairAssumption
<1> QED
  BY <1>1 DEF Batch, Window

\* createBackfillJob inserts a row of the right shape.
LEMMA NewJobType ==
    ASSUME NEW g \in Gaps
    PROVE  NewJob(g) \in JobRow /\ ResumeFrom(NewJob(g)) \in Int
<1>1. FromLedger[g] \in Int /\ ToLedger[g] \in Int
  BY RepairAssumption DEF Ledgers
<1> QED
  BY <1>1 DEF NewJob, JobRow, JobStatus, ResumeFrom

\* Initially no process is anywhere.
LEMMA ShapeInit == RInit => Shape
<1> SUFFICES ASSUME RInit PROVE Shape
  OBVIOUS
<1>1. Idle \in ProcState /\ Sound(Idle, 0)
  BY IdleSound
<1>2. NoJob \in JobRow
  BY DEF NoJob, JobRow, JobStatus
<1> QED
  BY <1>1, <1>2, RepairAssumption DEF RInit, Shape, RTypeOK, Located, GapStatus

\* The steps of a repair cycle keep the shape of the state.
LEMMA RepairShape ==
    ASSUME Shape, NEW w \in Procs, RepairStep(w) \/ Cycle(w)
    PROVE  Shape'
<1> DEFINE p == proc[w]
<1>0. p \in ProcState /\ Sound(p, created) /\ created \in Int /\ created \in 0..MaxJobs
  BY RepairAssumption DEF Shape, RTypeOK, Located
<1>1. SUFFICES ASSUME NEW q \in ProcState, Moves(w, q), Sound(q, created),
                      created' = created, job' = job, lock' = lock, cursor' = cursor,
                      indexed' = indexed, lost' = lost,
                      gap' \in [Gaps -> GapStatus], orphans' \in SUBSET Gaps
               PROVE  Shape'
  <2>1. ASSUME NEW g \in Gaps, FindOpen(w, g) PROVE Shape'
    <3>1. Outside("claim", g, FALSE, 0) \in ProcState /\ Sound(Outside("claim", g, FALSE, 0), created)
      BY <1>0, RepairAssumption DEF Outside, ProcState, Sound, Places
    <3> QED
      BY <2>1, <3>1, <1>1, ZenonT(30) DEF FindOpen, Moves, rows, Shape, RTypeOK
  <2>2. CASE Claim(w) \/ ClaimLost(w) \/ ClaimFails(w) \/ ClaimUnread(w)
    <3>1. p.pc = "claim" /\ p.gap \in Gaps
      BY <2>2, <1>0, ZenonT(30) DEF Claim, ClaimLost, ClaimFails, ClaimUnread, At, Sound
    <3>2. CASE Claim(w)
      <4>1. Outside("attempt", p.gap, TRUE, 1) \in ProcState
            /\ Sound(Outside("attempt", p.gap, TRUE, 1), created)
        BY <3>1, <1>0, RepairAssumption DEF Outside, ProcState, Sound, Places
      <4> QED
        BY <3>2, <4>1, <1>1, ZenonT(30) DEF Claim, Moves, Shape, RTypeOK, GapStatus
    <3>3. CASE ClaimLost(w)
      BY <3>1, <3>3, <1>0, <1>1, IdleSound, ZenonT(30) DEF ClaimLost, Moves, rows, Shape, RTypeOK
    <3>5. CASE ClaimFails(w)
      BY <3>1, <3>5, <1>0, <1>1, IdleSound, ZenonT(30) DEF ClaimFails, Moves, Shape, RTypeOK
    <3>4. CASE ClaimUnread(w)
      BY <3>1, <3>4, <1>0, <1>1, IdleSound, ZenonT(30) DEF ClaimUnread, Moves, Shape, RTypeOK, GapStatus
    <3> QED
      BY <2>2, <3>2, <3>3, <3>4, <3>5
  <2>3. CASE Unconfigured(w) \/ NotMarked(w)
    <3>1. p.gap \in Gaps /\ p.claim \in BOOLEAN /\ p.attempt \in Int
      BY <2>3, <1>0 DEF Unconfigured, NotMarked, At, Sound, ProcState
    <3> QED
      BY <2>3, <3>1, <1>0, <1>1, OutsideSound
      DEF Unconfigured, NotMarked, Moves, rows, Shape, RTypeOK
  <2>4. CASE MarkRepaired(w) \/ MarkFailed(w) \/ NoVerdict(w)
    <3>1. p.gap \in Gaps
      BY <2>4, <1>0 DEF MarkRepaired, MarkFailed, NoVerdict, At, Sound
    <3> QED
      BY <2>4, <3>1, <1>0, <1>1, IdleSound
      DEF MarkRepaired, MarkFailed, NoVerdict, Moves, Shape, RTypeOK, GapStatus
  <2> QED
    BY <2>1, <2>2, <2>3, <2>4 DEF RepairStep, Cycle
<1>2. proc' \in [Procs -> ProcState] /\ Located'
  BY <1>0, <1>1, MoveSound
<1> QED
  BY <1>1, <1>2 DEF Shape, RTypeOK

\* The steps of runBackfill keep the shape of the state.
LEMMA BackfillShape ==
    ASSUME Shape, NEW w \in Procs, BackfillStep(w)
    PROVE  Shape'
<1> DEFINE p == proc[w]
<1>0. p \in ProcState /\ Sound(p, created) /\ created \in Int /\ created \in 0..MaxJobs
      /\ RTypeOK /\ MaxJobs \in Int
  BY RepairAssumption DEF Shape, RTypeOK, Located
<1>1. SUFFICES ASSUME NEW q \in ProcState, Moves(w, q), created' \in 0..MaxJobs,
                      created <= created', Sound(q, created'),
                      gap' = gap, orphans' = orphans,
                      job' \in [Jobs -> JobRow], lock' \in [Jobs -> Procs \cup {None}],
                      cursor' \in Int, indexed' \in SUBSET Int, lost' \in [Jobs -> SUBSET Int]
               PROVE  Shape'
  <2>1. CASE CreateJob(w)
    <3> DEFINE g == p.gap
               j == created + 1
    <3>1. g \in Gaps /\ j \in Jobs /\ created' = j /\ created' \in 0..MaxJobs /\ j <= created'
          /\ created <= created' /\ created' \in Int
      BY <2>1, <1>0 DEF CreateJob, At, Sound, Jobs
    <3>2. NewJob(g) \in JobRow /\ ResumeFrom(NewJob(g)) \in Int
      BY <3>1, NewJobType
    <3> DEFINE q == Started(w, "lock", j, ResumeFrom(NewJob(g)))
    <3>3. q \in ProcState /\ Sound(q, created')
      BY <3>1, <3>2, EnterSound
    <3>4. job' \in [Jobs -> JobRow]
      BY <2>1, <3>1, <3>2, <1>0 DEF CreateJob, RTypeOK
    <3>5. Moves(w, q)
      BY <2>1 DEF CreateJob, Moves, Entering, Started
    <3> HIDE DEF q
    <3> QED
      BY <2>1, <3>1, <3>3, <3>4, <3>5, <1>0, <1>1 DEF CreateJob, RTypeOK
  <2>2. CASE NotCreated(w) \/ LockHeld(w)
    <3>1. PICK q : Moves(w, q) /\ Thrown(p, q)
      BY <2>2, <1>0, ThrowMoves DEF NotCreated, LockHeld
    <3>2. q \in ProcState /\ Sound(q, created)
      BY <3>1, <1>0, ThrownSound
    <3> QED
      <4>1. UNCHANGED rows
        BY <2>2 DEF NotCreated, LockHeld
      <4> QED
        BY <4>1, <3>1, <3>2, <1>0, <1>1 DEF rows, RTypeOK
  <2>3. CASE Lock(w)
    <3>1. p.job \in Jobs /\ p.job <= created /\ p.next \in Int
      BY <2>3, <1>0 DEF Lock, At, Sound, ProcState
    <3> DEFINE q == Started(w, "cursor", p.job, p.next)
    <3>2. q \in ProcState /\ Sound(q, created)
      BY <1>0, <3>1, EnterSound
    <3>3. Moves(w, q)
      BY <2>3 DEF Lock, Moves, Started
    <3>4. job' \in [Jobs -> JobRow]
      BY <2>3, <3>1, <1>0, RowTypes, ZenonT(30) DEF Lock, JobStatus
    <3> HIDE DEF q
    <3> QED
      BY <2>3, <3>1, <3>2, <3>3, <3>4, <1>0, <1>1 DEF Lock, RTypeOK
  <2>4. CASE LockKept(w)
    <3>1. PICK q : Moves(w, q) /\ Thrown(p, q)
      BY <2>4, <1>0, ThrowMoves DEF LockKept
    <3>2. q \in ProcState /\ Sound(q, created)
      BY <3>1, <1>0, ThrownSound
    <3> QED
      <4>1. lock' \in [Jobs -> Procs \cup {None}]
        BY <2>4, <1>0 DEF LockKept, At, Sound, RTypeOK
      <4> QED
        BY <2>4, <4>1, <3>1, <3>2, <1>0, <1>1 DEF LockKept, RTypeOK
  <2>5. CASE ReadCursor(w)
    <3>1. p.job \in Jobs /\ p.job <= created /\ p.next \in Int
      BY <2>5, <1>0 DEF ReadCursor, At, Sound, ProcState
    <3> DEFINE a == job[p.job].start > cursor
               q == Looking(w, a)
    <3>2. a \in BOOLEAN
      BY <1>0, <3>1 DEF RTypeOK, JobRow
    <3>3. q \in ProcState /\ Sound(q, created)
      <4> HIDE DEF a
      <4> QED
        BY <1>0, <3>1, <3>2, InsideSound DEF Looking
    <3>4. Moves(w, q)
      BY <2>5 DEF ReadCursor, Moves
    <3> HIDE DEF q
    <3> QED
      BY <2>5, <3>3, <3>4, <1>0, <1>1 DEF ReadCursor, rows, RTypeOK
  <2>6. CASE SendWindow(w)
    <3>1. p.job \in Jobs /\ p.job <= created /\ p.next \in Int /\ p.ahead \in BOOLEAN
          /\ job[p.job].end \in Int
      BY <2>6, <1>0 DEF SendWindow, At, Sound, ProcState, RTypeOK, JobRow
    <3> DEFINE n == p.next + Concurrency * BatchSize
               f == Window(p.next, job[p.job].end)
               q == Settling(w, n, f)
    <3>2. n \in Int /\ f \in SUBSET Int
      BY <3>1, BatchTypes, ZenonT(30)
    <3>3. Moves(w, q)
      BY <2>6 DEF SendWindow, Moves
    <3> HIDE DEF n, f
    <3>4. q \in ProcState /\ Sound(q, created)
      BY <1>0, <3>1, <3>2, InsideSound DEF Settling
    <3> HIDE DEF q
    <3> QED
      BY <2>6, <3>3, <3>4, <1>0, <1>1 DEF SendWindow, rows, RTypeOK
  <2>7. ASSUME NEW lo \in p.flight, BatchCommits(w, lo) \/ BatchFails(w, lo) PROVE Shape'
    <3>1. p.job \in Jobs /\ p.job <= created /\ p.next \in Int /\ p.ahead \in BOOLEAN
          /\ p.flight \in SUBSET Int /\ lo \in Int /\ job[p.job].end \in Int
      BY <2>7, <1>0 DEF BatchCommits, BatchFails, At, Sound, ProcState, RTypeOK, JobRow
    <3> DEFINE q == Settling(w, p.next, p.flight \ {lo})
               b == Batch(lo, job[p.job].end)
    <3>2. q \in ProcState /\ Sound(q, created)
      BY <1>0, <3>1, InsideSound DEF Settling
    <3>3. Moves(w, q)
      BY <2>7 DEF BatchCommits, BatchFails, Moves
    <3>4. b \subseteq Int
      BY <3>1, BatchTypes
    <3>5. CASE BatchCommits(w, lo)
      <4>1. PICK max \in b : /\ indexed' = indexed \cup b
                             /\ job' = [job EXCEPT ![p.job].checkpoint = max]
                             /\ cursor' = IF p.ahead THEN max ELSE cursor
        BY <3>5, ZenonT(30) DEF BatchCommits
      <4> HIDE DEF q, b
      <4>2. job' \in [Jobs -> JobRow] /\ cursor' \in Int /\ indexed' \in SUBSET Int
        BY <4>1, <3>1, <3>4, <1>0, RowTypes, ZenonT(30) DEF RTypeOK
      <4> QED
        BY <3>5, <4>2, <3>2, <3>3, <1>0, <1>1 DEF BatchCommits, RTypeOK
    <3>6. CASE BatchFails(w, lo)
      <4>1. lost' \in [Jobs -> SUBSET Int]
        BY <3>6, <3>1, <3>4, <1>0 DEF BatchFails, RTypeOK
      <4> HIDE DEF q, b
      <4> QED
        BY <3>6, <4>1, <3>2, <3>3, <1>0, <1>1 DEF BatchFails, RTypeOK
    <3> QED
      BY <2>7, <3>5, <3>6
  <2>8. CASE Complete(w)
    <3>1. p.job \in Jobs /\ p.gap \in Gaps \cup {None} /\ p.claim \in BOOLEAN /\ p.attempt \in Int
          /\ job[p.job].end \in Int
      BY <2>8, <1>0 DEF Complete, AllSettled, At, Sound, ProcState, RTypeOK, JobRow
    <3> DEFINE q == IF p.gap = None THEN Idle ELSE Outside("mark", p.gap, p.claim, p.attempt)
    <3>2. q \in ProcState /\ Sound(q, created)
      <4>1. Idle \in ProcState /\ Sound(Idle, created)
        BY <1>0, IdleSound
      <4>2. ASSUME p.gap # None
            PROVE  LET o == Outside("mark", p.gap, p.claim, p.attempt)
                   IN  o \in ProcState /\ Sound(o, created)
        BY <1>0, <3>1, <4>2, OutsideSound
      <4> QED
        BY <4>1, <4>2
    <3>3. Moves(w, q)
      BY <2>8 DEF Complete, Moves
    <3>4. job' \in [Jobs -> JobRow]
      BY <2>8, <3>1, <1>0, RowTypes, ZenonT(30) DEF Complete, JobStatus
    <3>5. lock' \in [Jobs -> Procs \cup {None}]
      BY <2>8, <3>1, <1>0 DEF Complete, Unlock, RTypeOK
    <3> HIDE DEF q
    <3> QED
      BY <2>8, <3>2, <3>3, <3>4, <3>5, <1>0, <1>1 DEF Complete, RTypeOK
  <2>9. CASE JobFails(w)
    <3>1. p.job \in Jobs
      BY <2>9, <1>0 DEF JobFails, AllSettled, At, Sound
    <3>2. PICK q : Moves(w, q) /\ Thrown(p, q)
      BY <2>9, <1>0, ThrowMoves DEF JobFails
    <3>3. q \in ProcState /\ Sound(q, created)
      BY <3>2, <1>0, ThrownSound
    <3>4. job' \in [Jobs -> JobRow]
      <4>1. [job EXCEPT ![p.job].status = "Failed"] \in [Jobs -> JobRow] /\ job \in [Jobs -> JobRow]
        BY <3>1, <1>0, RowTypes, ZenonT(30) DEF JobStatus, RTypeOK
      <4> QED
        BY <2>9, <4>1 DEF JobFails
    <3>5. lock' \in [Jobs -> Procs \cup {None}]
      BY <2>9, <3>1, <1>0 DEF JobFails, Unlock, RTypeOK
    <3> QED
      BY <2>9, <3>2, <3>3, <3>4, <3>5, <1>0, <1>1 DEF JobFails, RTypeOK
  <2> QED
    BY <2>1, <2>2, <2>3, <2>4, <2>5, <2>6, <2>7, <2>8, <2>9 DEF BackfillStep
<1>2. proc' \in [Procs -> ProcState] /\ Located'
  BY <1>0, <1>1, MoveSound
<1> QED
  BY <1>0, <1>1, <1>2 DEF Shape, RTypeOK

\* So does the end of a session.
LEMMA CrashTypes ==
    ASSUME Shape, NEW w \in Procs
    PROVE  /\ Released(w) \in [Jobs -> Procs \cup {None}]
           /\ proc[w].job \in Jobs =>
                [lost EXCEPT ![proc[w].job] = @ \cup InFlight(w)] \in [Jobs -> SUBSET Int]
<1>1. Released(w) \in [Jobs -> Procs \cup {None}]
  BY DEF Shape, RTypeOK, Released
<1>2. ASSUME proc[w].job \in Jobs PROVE InFlight(w) \subseteq Int
  <2>1. job[proc[w].job].end \in Int /\ proc[w].flight \subseteq Int
    BY <1>2 DEF Shape, RTypeOK, JobRow, ProcState
  <2>2. \A lo \in proc[w].flight : Batch(lo, job[proc[w].job].end) \subseteq Int
    BY <2>1, BatchTypes
  <2> QED
    BY <2>2 DEF InFlight
<1> QED
  BY <1>1, <1>2 DEF Shape, RTypeOK

\* Commands, deaths and the poller.
LEMMA OtherShape ==
    ASSUME Shape, Fresh,
           \/ \E g \in Gaps : Skip(g)
           \/ Poll
           \/ \E w \in Procs : Command(w) \/ Crash(w)
    PROVE  Shape'
<1>0. RTypeOK /\ created \in Int /\ created \in 0..MaxJobs
  BY RepairAssumption DEF Shape, RTypeOK
<1>1. ASSUME NEW g \in Gaps, Skip(g) PROVE Shape'
  BY <1>1 DEF Skip, Shape, RTypeOK, Located, GapStatus
<1>2. CASE Poll
  BY <1>2, RepairAssumption DEF Poll, Shape, RTypeOK, Located
<1>3. ASSUME NEW w \in Procs, Command(w) \/ Crash(w) PROVE Shape'
  <2> DEFINE p == proc[w]
  <2>0. p \in ProcState /\ Sound(p, created)
    BY DEF Shape, RTypeOK, Located
  <2>1. CASE Disconnect(w)
    BY <2>1, CrashTypes DEF Disconnect, Shape, RTypeOK, Located
  <2>2. SUFFICES ASSUME NEW q \in ProcState, Moves(w, q), Sound(q, created),
                        created' = created, gap' = gap, orphans' \in SUBSET Gaps,
                        job' \in [Jobs -> JobRow], lock' \in [Jobs -> Procs \cup {None}],
                        cursor' = cursor, indexed' = indexed, lost' \in [Jobs -> SUBSET Int]
                 PROVE  Shape'
    <3>1. ASSUME NEW g \in Gaps, RepairById(w, g) PROVE Shape'
      <4>1. Outside("attempt", g, FALSE, 1) \in ProcState
            /\ Sound(Outside("attempt", g, FALSE, 1), created)
        <5>1. Outside("attempt", g, FALSE, 1) \in ProcState
          BY DEF Outside, ProcState, Places
        <5>2. Sound(Outside("attempt", g, FALSE, 1), created)
          BY RepairAssumption, Zenon DEF Outside, Sound
        <5> QED
          BY <5>1, <5>2, ZenonT(30)
      <4> QED
        BY <3>1, <4>1, <1>0, <2>2, ZenonT(30) DEF RepairById, Moves, rows, RTypeOK
    <3>2. ASSUME NEW j \in Jobs, Resume(w, j) \/ CheckCancel(w, j) PROVE Shape'
      <4>1. j <= created /\ j \in Int
        <5>1. j \in Int
          BY RepairAssumption DEF Jobs
        <5>2. job[j].status # "absent"
          BY <3>2, ZenonT(30) DEF Resume, CheckCancel
        <5> QED
          BY <5>1, <5>2, <1>0 DEF Fresh
      <4>2. ResumeFrom(job[j]) \in Int
        BY <1>0 DEF ResumeFrom, RTypeOK, JobRow
      <4>3. CASE Resume(w, j)
        <5> DEFINE q == Started(w, "lock", j, ResumeFrom(job[j]))
        <5>1. q \in ProcState /\ Sound(q, created)
          BY <1>0, <4>1, <4>2, EnterSound, Zenon
        <5>2. Moves(w, q)
          BY <4>3 DEF Resume, Moves, Entering, Started
        <5> HIDE DEF q
        <5> QED
          BY <4>3, <5>1, <5>2, <1>0, <2>2 DEF Resume, rows, RTypeOK
      <4>4. CASE CheckCancel(w, j)
        <5> DEFINE q == Inside(w, "cancel", j, FALSE, 0, {})
        <5>1. q \in ProcState /\ Sound(q, created)
          BY <4>4, <1>0, <4>1, CancelSound, ZenonT(30) DEF CheckCancel
        <5>2. Moves(w, q)
          BY <4>4 DEF CheckCancel, Moves
        <5> HIDE DEF q
        <5> QED
          BY <4>4, <5>1, <5>2, <1>0, <2>2 DEF CheckCancel, rows, RTypeOK
      <4> QED
        BY <3>2, <4>3, <4>4, Zenon
    <3>3. CASE Cancel(w)
      <4>1. p.job \in Jobs
        BY <3>3, <2>0 DEF Cancel, At, Sound
      <4>2. job' \in [Jobs -> JobRow]
        BY <3>3, <4>1, <1>0, RowTypes, ZenonT(30) DEF Cancel, JobStatus
      <4> QED
        BY <3>3, <4>2, <1>0, <2>2, IdleSound, ZenonT(30) DEF Cancel, Moves, RTypeOK
    <3>4. CASE Crash(w)
      <4>1. lock' \in [Jobs -> Procs \cup {None}] /\ lost' \in [Jobs -> SUBSET Int]
        BY <3>4, <1>0, <2>0, CrashTypes, Zenon DEF Crash, RTypeOK, ProcState
      <4>2. orphans' \in SUBSET Gaps
        BY <3>4, <1>0, <2>0 DEF Crash, RTypeOK, Sound
      <4> QED
        BY <3>4, <4>1, <4>2, <1>0, <2>2, IdleSound, ZenonT(30) DEF Crash, Moves, RTypeOK
    <3> QED
      BY <1>3, <2>1, <3>1, <3>2, <3>3, <3>4 DEF Command
  <2>3. proc' \in [Procs -> ProcState] /\ Located'
    BY <1>0, <2>2, MoveSound
  <2> QED
    BY <2>2, <2>3 DEF Shape, RTypeOK
<1> QED
  BY <1>1, <1>2, <1>3

\* Rows of jobs not yet created stay blank, and a row keeps its gap and range.
LEMMA RowsKept ==
    ASSUME Shape, Fresh, [RNext]_rvars
    PROVE  /\ Fresh'
           /\ created' \in 0..MaxJobs /\ created <= created'
           /\ \A j \in Jobs : j <= created =>
                 /\ job'[j].gap = job[j].gap
                 /\ job'[j].start = job[j].start /\ job'[j].end = job[j].end
<1>0. RTypeOK /\ created \in 0..MaxJobs /\ MaxJobs \in Nat
  BY RepairAssumption DEF Shape, RTypeOK
<1>1. CASE UNCHANGED <<job, created>>
  BY <1>1, <1>0, RepairAssumption DEF Fresh, Jobs
<1>3. ASSUME NEW w \in Procs, CreateJob(w)
      PROVE  /\ Fresh'
             /\ created' \in 0..MaxJobs /\ created <= created'
             /\ \A j \in Jobs : j <= created => job'[j] = job[j]
  <2>1. created' = created + 1 /\ created' \in 0..MaxJobs /\ created <= created'
    BY <1>3, <1>0 DEF CreateJob
  <2>2. \A j \in Jobs : j # created + 1 => job'[j] = job[j]
    BY <1>3, <1>0 DEF CreateJob, RTypeOK
  <2> QED
    BY <2>1, <2>2, <1>0 DEF Fresh, Jobs
<1>4. ASSUME NEW w \in Procs, proc[w].job \in Jobs, NEW s, NEW c, created' = created,
             \/ job' = job
             \/ job' = [job EXCEPT ![proc[w].job].status = s]
             \/ job' = [job EXCEPT ![proc[w].job].checkpoint = c]
             \/ job' = [job EXCEPT ![proc[w].job].status = s, ![proc[w].job].checkpoint = c]
      PROVE  /\ Fresh'
             /\ \A j \in Jobs : /\ job'[j].gap = job[j].gap
                                /\ job'[j].start = job[j].start /\ job'[j].end = job[j].end
  <2>1. proc[w].job <= created
    BY <1>4 DEF Shape, Located, Sound
  <2>2. \A j \in Jobs : j # proc[w].job => job'[j] = job[j]
    BY <1>4, <1>0 DEF RTypeOK
  <2>3. \A j \in Jobs : /\ job'[j].gap = job[j].gap
                        /\ job'[j].start = job[j].start /\ job'[j].end = job[j].end
    BY <1>4, <1>0 DEF RTypeOK, JobRow
  <2> QED
    BY <1>4, <2>1, <2>2, <2>3, <1>0 DEF Fresh, Jobs
<1>5. ASSUME NEW w \in Procs,
             \/ Lock(w) \/ Complete(w) \/ JobFails(w) \/ Cancel(w)
             \/ \E lo \in proc[w].flight : BatchCommits(w, lo)
      PROVE  /\ created' = created /\ Fresh'
             /\ \A j \in Jobs : /\ job'[j].gap = job[j].gap
                                /\ job'[j].start = job[j].start /\ job'[j].end = job[j].end
  <2>1. proc[w].job \in Jobs /\ created' = created
    BY <1>5, ZenonT(30) DEF Lock, Complete, JobFails, Cancel, BatchCommits, AllSettled, At, Shape, Located, Sound
  <2>2. CASE Lock(w) \/ Complete(w) \/ JobFails(w) \/ Cancel(w)
    <3>1. \E s, c : \/ job' = job
                    \/ job' = [job EXCEPT ![proc[w].job].status = s]
                    \/ job' = [job EXCEPT ![proc[w].job].status = s, ![proc[w].job].checkpoint = c]
      BY <2>2, ZenonT(30) DEF Lock, Complete, JobFails, Cancel
    <3> QED
      BY <2>1, <3>1, <1>4, ZenonT(30)
  <2>3. ASSUME NEW lo \in proc[w].flight, BatchCommits(w, lo)
        PROVE  \E c : job' = [job EXCEPT ![proc[w].job].checkpoint = c]
    BY <2>3, ZenonT(30) DEF BatchCommits
  <2> QED
    BY <1>5, <2>1, <2>2, <2>3, <1>4, ZenonT(30)
<1>6. ASSUME NEW w \in Procs, BackfillStep(w) \/ Command(w)
      PROVE  \/ UNCHANGED <<job, created>>
             \/ CreateJob(w)
             \/ Lock(w) \/ Complete(w) \/ JobFails(w) \/ Cancel(w)
             \/ \E lo \in proc[w].flight : BatchCommits(w, lo)
  BY <1>6, ZenonT(30) DEF BackfillStep, Command, NotCreated, LockKept, LockHeld, ReadCursor, SendWindow,
              BatchFails, RepairById, Resume, CheckCancel, Disconnect, rows
<1>7. ASSUME NEW w \in Procs, Cycle(w) \/ RepairStep(w) \/ Crash(w)
      PROVE  UNCHANGED <<job, created>>
  BY <1>7, ZenonT(30) DEF Cycle, RepairStep, FindOpen, Claim, ClaimLost, ClaimFails, ClaimUnread,
        Unconfigured,
              MarkRepaired, NotMarked, MarkFailed, NoVerdict, Crash, rows
<1>8. ASSUME \E g \in Gaps : Skip(g) \/ Poll PROVE UNCHANGED <<job, created>>
  BY <1>8 DEF Skip, Poll
<1>9. CASE \E w \in Procs : BackfillStep(w) \/ Command(w)
  BY <1>9, <1>0, <1>1, <1>3, <1>5, <1>6
<1> QED
  <2>1. \/ UNCHANGED rvars
        \/ \E g \in Gaps : Skip(g)
        \/ Poll
        \/ \E w \in Procs : BackfillStep(w) \/ Command(w)
        \/ \E w \in Procs : Cycle(w) \/ RepairStep(w) \/ Crash(w)
    BY DEF RNext, Procs
  <2>2. UNCHANGED rvars => UNCHANGED <<job, created>>
    BY DEF rvars
  <2>3. Poll => UNCHANGED <<job, created>>
    BY DEF Poll
  <2> QED
    BY <2>1, <2>2, <2>3, <1>1, <1>7, <1>8, <1>9


\* Every step keeps the shape of the state.
LEMMA ShapeStep ==
    ASSUME Shape, Fresh, [RNext]_rvars
    PROVE  Shape'
<1>1. CASE UNCHANGED rvars
  BY <1>1 DEF rvars, Shape, RTypeOK, Located
<1>2. CASE RNext
  BY <1>2, RepairShape, BackfillShape, OtherShape DEF RNext, Procs
<1> QED
  BY <1>1, <1>2

-----------------------------------------------------------------------------
\* A process step leaves the other processes where they are.
LEMMA OthersStay ==
    ASSUME Shape, NEW w \in Procs,
           Cycle(w) \/ BackfillStep(w) \/ RepairStep(w) \/ Command(w) \/ Crash(w)
    PROVE  \A v \in Procs : v # w => proc'[v] = proc[v]
<1>1. proc \in [Procs -> ProcState]
  BY DEF Shape, RTypeOK
<1>2. (Cycle(w) \/ RepairStep(w)) => \E q : Moves(w, q)
  BY ZenonT(30) DEF Cycle, FindOpen, RepairStep, Claim, ClaimLost, ClaimFails, ClaimUnread,
        Unconfigured,
         MarkRepaired, NotMarked, MarkFailed, NoVerdict, Moves
<1>3. BackfillStep(w) => \E q : Moves(w, q)
  BY ZenonT(30) DEF BackfillStep, CreateJob, NotCreated, Lock, LockKept, LockHeld, ReadCursor, SendWindow,
         BatchCommits, BatchFails, Complete, JobFails, Throw, Moves
<1>4. (Command(w) \/ Crash(w)) => proc' = proc \/ \E q : Moves(w, q)
  BY ZenonT(30) DEF Command, RepairById, Resume, CheckCancel, Cancel, Disconnect, Crash, Moves
<1> QED
  BY <1>1, <1>2, <1>3, <1>4 DEF Moves

\* A job becomes Completed, and a repair comes to its mark, by Complete alone.
LEMMA CompletedBy ==
    ASSUME Shape, [RNext]_rvars
    PROVE  /\ \A j \in Jobs : job'[j].status = "Completed" =>
                 \/ job[j].status = "Completed"
                 \/ \E w \in Procs : Complete(w) /\ proc[w].job = j
           /\ \A v \in Procs : proc'[v].pc = "mark" => proc'[v] = proc[v] \/ Complete(v)
           /\ \A g \in Gaps : gap'[g] = "Repaired" =>
                 gap[g] = "Repaired" \/ \E w \in Procs : At(w, "mark") /\ proc[w].gap = g
<1>0. RTypeOK /\ Located /\ proc \in [Procs -> ProcState] /\ created \in 0..MaxJobs
      /\ MaxJobs \in Nat /\ gap \in [Gaps -> GapStatus]
  BY RepairAssumption DEF Shape, RTypeOK
<1>1. ASSUME NEW j \in Jobs, job'[j].status = "Completed"
      PROVE  job[j].status = "Completed" \/ \E w \in Procs : Complete(w) /\ proc[w].job = j
  <2>1. CASE job' = job
    BY <1>1, <2>1
  <2>2. ASSUME NEW w \in Procs, CreateJob(w) PROVE job[j].status = "Completed"
    <3>1. job'[j] = job[j] \/ job'[j] = NewJob(proc[w].gap)
      BY <2>2, <1>0 DEF CreateJob, RTypeOK
    <3> QED
      BY <1>1, <3>1, NewJobFields, Zenon
  <2>3. ASSUME NEW w \in Procs, NEW s \in {"Running", "Failed", "Cancelled"},
               job' = [job EXCEPT ![proc[w].job].status = s]
        PROVE  job[j].status = "Completed"
    BY <1>1, <2>3, <1>0 DEF RTypeOK, JobRow
  <2>4. ASSUME NEW w \in Procs, NEW c, job' = [job EXCEPT ![proc[w].job].checkpoint = c]
        PROVE  job[j].status = "Completed"
    BY <1>1, <2>4, <1>0 DEF RTypeOK, JobRow
  <2>5. ASSUME NEW w \in Procs, Complete(w)
        PROVE  job[j].status = "Completed" \/ proc[w].job = j
    BY <1>1, <2>5, <1>0 DEF Complete, RTypeOK
  <2>6. ASSUME NEW w \in Procs, BackfillStep(w) \/ Command(w)
        PROVE  \/ job' = job
               \/ CreateJob(w) \/ Complete(w)
               \/ \E s \in {"Running", "Failed", "Cancelled"} :
                      job' = [job EXCEPT ![proc[w].job].status = s]
               \/ \E c : job' = [job EXCEPT ![proc[w].job].checkpoint = c]
    BY <2>6, ZenonT(30) DEF BackfillStep, Command, NotCreated, Lock, LockKept, LockHeld, ReadCursor,
        SendWindow, BatchCommits, BatchFails, JobFails, RepairById, Resume, CheckCancel, Cancel,
        Disconnect, rows
  <2>7. ASSUME NEW w \in Procs, Cycle(w) \/ RepairStep(w) \/ Crash(w) PROVE job' = job
    BY <2>7, ZenonT(30) DEF Cycle, RepairStep, FindOpen, Claim, ClaimLost, ClaimFails, ClaimUnread,
        Unconfigured,
                MarkRepaired, NotMarked, MarkFailed, NoVerdict, Crash, rows
  <2>8. UNCHANGED rvars \/ Poll \/ (\E g \in Gaps : Skip(g)) => job' = job
    BY DEF rvars, Poll, Skip
  <2> QED
    BY <2>1, <2>2, <2>3, <2>4, <2>5, <2>6, <2>7, <2>8, ZenonT(30) DEF RNext, Procs
<1>2. ASSUME NEW v \in Procs, proc'[v].pc = "mark" PROVE proc'[v] = proc[v] \/ Complete(v)
  <2>1. ASSUME NEW w \in Procs, w # v,
               Cycle(w) \/ BackfillStep(w) \/ RepairStep(w) \/ Command(w) \/ Crash(w)
        PROVE  proc'[v] = proc[v]
    BY <2>1, OthersStay, Zenon
  <2>2. ASSUME Throw(v) PROVE FALSE
    BY <1>2, <2>2, <1>0, Zenon DEF Throw, Idle, Outside
  <2>3. ASSUME BackfillStep(v), ~Throw(v), ~Complete(v) PROVE FALSE
    BY <1>2, <2>3, <1>0 DEF BackfillStep, CreateJob, NotCreated, Lock, LockKept, LockHeld,
        ReadCursor, SendWindow, BatchCommits, BatchFails, JobFails, Entering, Looking, Settling,
        Inside
  <2>4. ASSUME Cycle(v) \/ RepairStep(v) \/ Crash(v) PROVE FALSE
    BY <1>2, <2>4, <1>0 DEF Cycle, RepairStep, FindOpen, Claim, ClaimLost, ClaimFails, ClaimUnread,
        Unconfigured, MarkRepaired, NotMarked, MarkFailed, NoVerdict, Crash, Idle, Outside
  <2>5. ASSUME Command(v) PROVE proc'[v] = proc[v]
    BY <1>2, <2>5, <1>0 DEF Command, RepairById, Resume, CheckCancel, Cancel, Disconnect,
        Entering, Inside, Idle, Outside
  <2>6. UNCHANGED rvars \/ Poll \/ (\E g \in Gaps : Skip(g)) => proc' = proc
    BY Zenon DEF rvars, Poll, Skip
  <2> QED
    BY <2>1, <2>2, <2>3, <2>4, <2>5, <2>6 DEF RNext, Procs
<1>3. ASSUME NEW g \in Gaps, gap'[g] = "Repaired"
      PROVE  gap[g] = "Repaired" \/ \E w \in Procs : At(w, "mark") /\ proc[w].gap = g
  <2>1. ASSUME NEW w \in Procs, RepairStep(w)
        PROVE  gap[g] = "Repaired" \/ (At(w, "mark") /\ proc[w].gap = g)
    BY <1>3, <2>1, <1>0, ZenonT(30) DEF RepairStep, Claim, ClaimLost, ClaimFails, ClaimUnread,
        Unconfigured,
        MarkRepaired, NotMarked, MarkFailed, NoVerdict, rows
  <2>2. ASSUME NEW h \in Gaps, Skip(h) PROVE gap[g] = "Repaired"
    BY <1>3, <2>2, <1>0 DEF Skip
  <2>3. ASSUME NEW w \in Procs, BackfillStep(w) PROVE gap' = gap
    BY <2>3, ZenonT(30) DEF BackfillStep, CreateJob, NotCreated, Lock, LockKept, LockHeld, ReadCursor,
        SendWindow, BatchCommits, BatchFails, Complete, JobFails, rows
  <2>4. ASSUME NEW w \in Procs, Cycle(w) \/ Command(w) \/ Crash(w) PROVE gap' = gap
    BY <2>4, ZenonT(30) DEF Cycle, FindOpen, Command, RepairById, Resume, CheckCancel, Cancel, Disconnect,
        Crash, rows
  <2>5. UNCHANGED rvars \/ Poll => gap' = gap
    BY DEF rvars, Poll
  <2> QED
    BY <1>3, <2>1, <2>2, <2>3, <2>4, <2>5, Zenon DEF RNext, Procs
<1> QED
  BY <1>1, <1>2, <1>3

\* A process that executes a job holds its lock.
Runs == \A w \in Procs : Executing(w) => lock[proc[w].job] = w

\* Every step keeps the lock with the process that executes the job.
LEMMA RunsStep ==
    ASSUME Shape, Runs, [RNext]_rvars
    PROVE  Runs'
<1>0. RTypeOK /\ Located
  BY DEF Shape
<1>1. CASE UNCHANGED <<proc, lock>>
  BY <1>1 DEF Runs, Executing
<1>2. ASSUME NEW w \in Procs, lock' = lock,
             \A v \in Procs : v # w => proc'[v] = proc[v],
             Executing(w)' => Executing(w) /\ proc'[w].job = proc[w].job
      PROVE  Runs'
  BY <1>2 DEF Runs, Executing
<1>3. ASSUME NEW w \in Procs, Cycle(w) \/ RepairStep(w)
      PROVE  Runs'
  <2>1. lock' = lock /\ ~Executing(w)'
    BY <1>3, <1>0 DEF Cycle, FindOpen, RepairStep, Claim, ClaimLost, ClaimFails, ClaimUnread,
        Unconfigured,
        MarkRepaired, NotMarked, MarkFailed, NoVerdict, rows, Executing, Idle, Outside, RTypeOK
  <2> QED
    BY <1>2, <1>3, <2>1, OthersStay, ZenonT(30)
<1>4. ASSUME NEW w \in Procs, Command(w) \/ Crash(w)
      PROVE  Runs'
  <2>1. ~Executing(w)'
    BY <1>4, <1>0 DEF Command, RepairById, Resume, CheckCancel, Cancel, Disconnect, Crash, At,
        Entering, Inside, Executing, Idle, Outside, RTypeOK
  <2>2. lock' = lock \/ lock' = Released(w)
    BY <1>4, ZenonT(30) DEF Command, RepairById, Resume, CheckCancel, Cancel, Disconnect, Crash, rows
  <2>3. \A v \in Procs : v # w => proc'[v] = proc[v]
    BY <1>4, OthersStay
  <2>4. CASE lock' = Released(w)
    <3>1. ASSUME NEW v \in Procs, Executing(v)' PROVE lock'[proc'[v].job] = v
      <4>1. v # w /\ proc'[v] = proc[v] /\ Executing(v)
        BY <3>1, <2>1, <2>3 DEF Executing
      <4>2. proc[v].job \in Jobs /\ lock[proc[v].job] = v
        BY <4>1, <1>0 DEF Runs, Located, Sound, Executing
      <4> QED
        BY <4>1, <4>2, <2>4 DEF Released
    <3> QED
      BY <3>1 DEF Runs
  <2> QED
    BY <1>2, <2>1, <2>2, <2>3, <2>4
<1>5. ASSUME NEW w \in Procs, BackfillStep(w)
      PROVE  Runs'
  <2> DEFINE j == proc[w].job
  <2>1. \A v \in Procs : v # w => proc'[v] = proc[v]
    BY <1>5, OthersStay
  <2>2. CASE CreateJob(w)
    BY <2>1, <2>2, <1>0, <1>2 DEF CreateJob, Entering, Inside, Executing, RTypeOK
  <2>3. ASSUME Throw(w) PROVE ~Executing(w)'
    <3>1. proc \in [Procs -> ProcState]
      BY <1>0 DEF RTypeOK
    <3>2. proc'[w].pc \in {"idle", "attempt", "fail"}
      BY <2>3, <3>1 DEF Throw, Idle, Outside
    <3> QED
      BY <3>2 DEF Executing
  <2>4. CASE NotCreated(w) \/ LockHeld(w)
    BY <2>1, <2>3, <2>4, <1>2 DEF NotCreated, LockHeld, rows
  <2>5. CASE Lock(w) \/ LockKept(w)
    <3>1. j \in Jobs /\ lock[j] = None /\ lock' = [lock EXCEPT ![j] = w]
      BY <2>5, <1>0, ZenonT(30) DEF Lock, LockKept, At, Located, Sound
    <3>2. Executing(w)' => proc'[w].job = j
      BY <2>3, <2>5, <1>0 DEF Lock, LockKept, Inside, RTypeOK
    <3>3. ASSUME NEW v \in Procs, Executing(v)' PROVE lock'[proc'[v].job] = v
      <4>1. CASE v = w
        BY <4>1, <3>1, <3>2, <3>3, <1>0 DEF RTypeOK
      <4>2. CASE v # w
        <5>1. proc'[v] = proc[v] /\ proc[v].job \in Jobs /\ lock[proc[v].job] = v
          BY <4>2, <3>3, <2>1, <1>0 DEF Runs, Located, Sound, Executing
        <5>2. proc[v].job # j
          BY <5>1, <3>1, RepairAssumption
        <5> QED
          BY <5>1, <5>2, <3>1, <1>0 DEF RTypeOK
      <4> QED
        BY <4>1, <4>2
    <3> QED
      BY <3>3 DEF Runs
  <2>6. CASE ReadCursor(w) \/ SendWindow(w)
             \/ \E lo \in proc[w].flight : BatchCommits(w, lo) \/ BatchFails(w, lo)
    <3>1. lock' = lock /\ Executing(w) /\ proc'[w].job = j
      BY <2>6, <1>0 DEF ReadCursor, SendWindow, BatchCommits, BatchFails, rows, At, Executing,
          Looking, Settling, Inside, RTypeOK
    <3> QED
      BY <2>1, <3>1, <1>2
  <2>7. CASE Complete(w) \/ JobFails(w)
    <3>1. Executing(w) /\ j \in Jobs /\ lock[j] = w
      BY <2>7, <1>0 DEF Complete, JobFails, AllSettled, At, Executing, Runs, Located, Sound
    <3>2. ~Executing(w)'
      BY <2>7, <2>3, <1>0 DEF Complete, JobFails, Executing, Idle, Outside, RTypeOK
    <3>3. lock' = lock \/ lock' = [lock EXCEPT ![j] = None]
      BY <2>7 DEF Complete, JobFails, Unlock
    <3>4. ASSUME NEW v \in Procs, Executing(v)' PROVE lock'[proc'[v].job] = v
      <4>1. v # w /\ proc'[v] = proc[v] /\ proc[v].job \in Jobs /\ lock[proc[v].job] = v
        BY <3>2, <3>4, <2>1, <1>0 DEF Runs, Located, Sound, Executing
      <4>2. proc[v].job # j
        BY <4>1, <3>1
      <4> QED
        BY <4>1, <4>2, <3>3, <3>1, <1>0 DEF RTypeOK
    <3> QED
      BY <3>4 DEF Runs
  <2> QED
    BY <1>5, <2>2, <2>4, <2>5, <2>6, <2>7 DEF BackfillStep
<1> QED
  <2>1. UNCHANGED rvars \/ Poll \/ (\E g \in Gaps : Skip(g)) => UNCHANGED <<proc, lock>>
    BY DEF rvars, Poll, Skip
  <2> QED
    BY <2>1, <1>1, <1>3, <1>4, <1>5 DEF RNext, Procs

\* Two processes never run one job: the advisory lock, taken after a possibly stale
\* read of the job and released on any connection of the pool, is enough.
THEOREM OneRunner == RSpec => []OneRunnerPerJob
<1>1. RInit => Shape /\ Fresh /\ Runs
  <2>1. RInit => Fresh
    BY DEF RInit, Fresh, NoJob
  <2>2. RInit => Runs
    BY DEF RInit, Runs, Executing, Idle, Outside
  <2> QED
    BY <2>1, <2>2, ShapeInit
<1>2. Shape /\ Fresh /\ Runs /\ [RNext]_rvars => (Shape /\ Fresh /\ Runs)'
  BY ShapeStep, RowsKept, RunsStep
<1>3. Runs => OneRunnerPerJob
  BY DEF Runs, OneRunnerPerJob
<1> QED
  BY <1>1, <1>2, <1>3, PTL DEF RSpec

-----------------------------------------------------------------------------
Claims ==
    /\ \A w \in Procs : proc[w].claim => gap[proc[w].gap] \notin {"absent", "Open"}
    /\ ClaimHeld

\* A step of w that makes no claim: w keeps its claim, or its gap gets a verdict or
\* is orphaned, and no other gap returns to Open or goes to Repairing.
LEMMA ClaimKept ==
    ASSUME Shape, Claims, NEW w \in Procs,
           \A v \in Procs : v # w => proc'[v] = proc[v],
           proc'[w].claim => proc[w].claim /\ proc'[w].gap = proc[w].gap,
           proc[w].claim /\ ~proc'[w].claim =>
               gap'[proc[w].gap] # "Repairing" \/ proc[w].gap \in orphans',
           \A g \in Gaps : \/ gap'[g] = gap[g]
                           \/ gap'[g] \in {"Repaired", "Failed"}
                           \/ gap'[g] = "Repairing" /\ g \in orphans',
           orphans \subseteq orphans'
    PROVE  Claims'
<1>1. \A v \in Procs : proc'[v].claim => proc[v].claim /\ proc'[v].gap = proc[v].gap
                                         /\ proc[v].gap \in Gaps
  BY DEF Shape, Located, Sound
<1>2. ASSUME NEW v \in Procs, proc'[v].claim PROVE gap'[proc'[v].gap] \notin {"absent", "Open"}
  BY <1>1, <1>2 DEF Claims
<1>3. ASSUME NEW g \in Gaps, NEW u \in Procs, NEW v \in Procs, proc'[u].claim, proc'[v].claim,
             proc'[u].gap = g, proc'[v].gap = g
      PROVE  u = v
  BY <1>1, <1>3 DEF Claims, ClaimHeld
<1>4. ASSUME NEW g \in Gaps, gap'[g] = "Repairing", g \notin orphans'
      PROVE  \E v \in Procs : proc'[v].claim /\ proc'[v].gap = g
  <2>1. gap[g] = "Repairing" /\ g \notin orphans
    BY <1>4
  <2>2. PICK v \in Procs : proc[v].claim /\ proc[v].gap = g
    BY <2>1 DEF Claims, ClaimHeld
  <2>3. CASE v # w
    BY <2>2, <2>3
  <2>4. CASE v = w
    <3>1. proc'[w].claim
      BY <2>2, <2>4, <1>4
    <3> QED
      BY <3>1, <2>2, <2>4
  <2> QED
    BY <2>3, <2>4
<1> QED
  BY <1>2, <1>3, <1>4 DEF Claims, ClaimHeld

\* Every step keeps claims exclusive and held.
LEMMA ClaimsStep ==
    ASSUME Shape, Claims, [RNext]_rvars
    PROVE  Claims'
<1>0. RTypeOK /\ Located /\ proc \in [Procs -> ProcState] /\ gap \in [Gaps -> GapStatus]
  BY DEF Shape, RTypeOK
<1>1. CASE UNCHANGED <<proc, gap, orphans>>
  BY <1>1 DEF Claims, ClaimHeld
<1>2. ASSUME NEW g \in Gaps, Skip(g) PROVE Claims'
  <2>1. proc' = proc /\ orphans' = orphans /\ gap[g] = "absent" /\ gap'[g] = "Open"
        /\ \A h \in Gaps : h # g => gap'[h] = gap[h]
    BY <1>2, <1>0 DEF Skip
  <2>2. \A v \in Procs : proc[v].claim => proc[v].gap # g /\ proc[v].gap \in Gaps
    BY <2>1, <1>0 DEF Claims, Located, Sound
  <2>3. \A v \in Procs : proc'[v].claim => gap'[proc'[v].gap] \notin {"absent", "Open"}
    BY <2>1, <2>2 DEF Claims
  <2> QED
    BY <2>1, <2>3 DEF Claims, ClaimHeld
<1>3. ASSUME NEW w \in Procs, Claim(w) PROVE Claims'
  <2> DEFINE g == proc[w].gap
  <2>1. g \in Gaps /\ gap[g] = "Open"
    BY <1>3, <1>0 DEF Claim, At, Located, Sound
  <2>2. /\ gap'[g] = "Repairing" /\ \A h \in Gaps : h # g => gap'[h] = gap[h]
        /\ proc'[w].claim /\ proc'[w].gap = g
        /\ \A v \in Procs : v # w => proc'[v] = proc[v]
        /\ orphans' = orphans
    BY <1>3, <2>1, <1>0 DEF Claim, Outside
  <2>3. \A v \in Procs : proc[v].claim => proc[v].gap # g /\ proc[v].gap \in Gaps
    BY <2>1, <1>0 DEF Claims, Located, Sound
  <2>4. ~proc[w].claim
    BY <2>3
  <2>5. ASSUME NEW v \in Procs, proc'[v].claim PROVE gap'[proc'[v].gap] \notin {"absent", "Open"}
    BY <2>2, <2>3, <2>5 DEF Claims
  <2>6. ASSUME NEW h \in Gaps, NEW u \in Procs, NEW v \in Procs, proc'[u].claim, proc'[v].claim,
               proc'[u].gap = h, proc'[v].gap = h
        PROVE  u = v
    BY <2>2, <2>3, <2>6 DEF Claims, ClaimHeld
  <2>7. ASSUME NEW h \in Gaps, gap'[h] = "Repairing", h \notin orphans'
        PROVE  \E v \in Procs : proc'[v].claim /\ proc'[v].gap = h
    <3>1. CASE h = g
      BY <3>1, <2>2
    <3>2. CASE h # g
      <4>1. PICK v \in Procs : proc[v].claim /\ proc[v].gap = h
        BY <3>2, <2>2, <2>7 DEF Claims, ClaimHeld
      <4> QED
        BY <4>1, <2>2, <2>4
    <3> QED
      BY <3>1, <3>2
  <2> QED
    BY <2>5, <2>6, <2>7, Zenon DEF Claims, ClaimHeld
<1>4. ASSUME NEW w \in Procs, Cycle(w) \/ RepairStep(w), ~Claim(w) PROVE Claims'
  <2> DEFINE p == proc[w]
  <2>0. p \in ProcState /\ Sound(p, created)
    BY <1>0 DEF Located
  <2>1. \A v \in Procs : v # w => proc'[v] = proc[v]
    BY <1>4, OthersStay
  <2>2. CASE Cycle(w) \/ ClaimLost(w) \/ ClaimFails(w)
    <3>1. ~p.claim /\ ~proc'[w].claim /\ gap' = gap /\ orphans' = orphans
      BY <2>2, <2>0, <1>0 DEF Cycle, FindOpen, ClaimLost, ClaimFails, At, Sound, Idle, Outside,
         rows
    <3> QED
      BY <3>1, <2>1, ClaimKept, Zenon
  <2>3. CASE ClaimUnread(w)
    <3>1. ~p.claim /\ ~proc'[w].claim /\ p.gap \in Gaps
      BY <2>3, <2>0, <1>0 DEF ClaimUnread, At, Sound, Idle, Outside
    <3>2. orphans \subseteq orphans' /\ p.gap \in orphans'
          /\ gap' = [gap EXCEPT ![p.gap] = "Repairing"]
      BY <2>3 DEF ClaimUnread
    <3>3. \A g \in Gaps : gap'[g] = gap[g] \/ (gap'[g] = "Repairing" /\ g \in orphans')
      <4>1. \A g \in Gaps : gap'[g] = IF g = p.gap THEN "Repairing" ELSE gap[g]
        BY <3>1, <3>2, <1>0
      <4> QED
        BY <3>2, <4>1
    <3> QED
      BY <3>1, <3>2, <3>3, <2>1, ClaimKept, ZenonT(30)
  <2>4. CASE Unconfigured(w) \/ NotMarked(w)
    <3>1. proc'[w].claim = p.claim /\ proc'[w].gap = p.gap /\ gap' = gap /\ orphans' = orphans
      BY <2>4, <1>0 DEF Unconfigured, NotMarked, Outside, rows
    <3> QED
      BY <3>1, <2>1, ClaimKept
  <2>5. CASE MarkRepaired(w) \/ MarkFailed(w)
    <3>1. ~proc'[w].claim /\ p.gap \in Gaps /\ orphans' = orphans
      BY <2>5, <2>0, <1>0 DEF MarkRepaired, MarkFailed, At, Sound, Idle, Outside
    <3>2. gap'[p.gap] \in {"Repaired", "Failed"} /\ \A g \in Gaps : g # p.gap => gap'[g] = gap[g]
      BY <2>5, <3>1, <1>0 DEF MarkRepaired, MarkFailed
    <3> QED
      BY <3>1, <3>2, <2>1, ClaimKept, Zenon
  <2>6. CASE NoVerdict(w)
    <3>1. ~proc'[w].claim /\ gap' = gap /\ orphans \subseteq orphans'
          /\ (p.claim => p.gap \in orphans')
      BY <2>6, <1>0 DEF NoVerdict, Idle, Outside
    <3> QED
      BY <3>1, <2>1, ClaimKept
  <2> QED
    BY <1>4, <2>2, <2>3, <2>4, <2>5, <2>6 DEF RepairStep
<1>5. ASSUME NEW w \in Procs, Command(w) \/ Crash(w) PROVE Claims'
  <2> DEFINE p == proc[w]
  <2>0. p \in ProcState /\ Sound(p, created)
    BY <1>0 DEF Located
  <2>1. \A v \in Procs : v # w => proc'[v] = proc[v]
    BY <1>5, OthersStay
  <2>2. CASE Command(w)
    <3>1. gap' = gap /\ orphans' = orphans /\ ~p.claim /\ ~proc'[w].claim
      BY <2>2, <2>0, <1>0 DEF Command, RepairById, Resume, CheckCancel, Cancel, Disconnect, At,
          Sound, Entering, Inside, Idle, Outside, rows
    <3> QED
      BY <3>1, <2>1, ClaimKept
  <2>3. CASE Crash(w)
    <3>1. gap' = gap /\ ~proc'[w].claim /\ orphans \subseteq orphans'
          /\ (p.claim => p.gap \in orphans')
      BY <2>3, <1>0 DEF Crash, Idle, Outside
    <3> QED
      BY <3>1, <2>1, ClaimKept
  <2> QED
    BY <1>5, <2>2, <2>3
<1>6. ASSUME NEW w \in Procs, BackfillStep(w) PROVE Claims'
  <2> DEFINE p == proc[w]
  <2>0. p \in ProcState /\ Sound(p, created)
    BY <1>0 DEF Located
  <2>1. \A v \in Procs : v # w => proc'[v] = proc[v]
    BY <1>6, OthersStay
  <2>2. gap' = gap /\ orphans' = orphans
    BY <1>6, ZenonT(30) DEF BackfillStep, CreateJob, NotCreated, Lock, LockKept, LockHeld, ReadCursor,
        SendWindow, BatchCommits, BatchFails, Complete, JobFails, rows
  <2>3. proc'[w].claim = p.claim /\ (p.claim => proc'[w].gap = p.gap)
    <3>1. CASE Throw(w)
      <4>1. PICK q : Moves(w, q) /\ Thrown(p, q)
        BY <3>1, <2>0, <1>0, ThrowMoves
      <4> QED
        BY <4>1, <1>0 DEF Moves, Thrown
    <3>2. CASE Complete(w)
      <4>1. CASE p.gap = None
        BY <3>2, <4>1, <2>0, <1>0, RepairAssumption, ZenonT(30) DEF Complete, Idle, Outside, Sound, ProcState
      <4>2. CASE p.gap # None
        BY <3>2, <4>2, <1>0, Zenon DEF Complete, Outside
      <4> QED
        BY <4>1, <4>2
    <3>3. CASE CreateJob(w) \/ Lock(w) \/ ReadCursor(w) \/ SendWindow(w)
               \/ \E lo \in p.flight : BatchCommits(w, lo) \/ BatchFails(w, lo)
      BY <3>3, <1>0 DEF CreateJob, Lock, ReadCursor, SendWindow, BatchCommits, BatchFails,
          Entering, Looking, Settling, Inside
    <3> QED
      BY <1>6, <3>1, <3>2, <3>3 DEF BackfillStep, NotCreated, LockKept, LockHeld, JobFails
  <2> QED
    BY <2>1, <2>2, <2>3, ClaimKept
<1> QED
  <2>1. UNCHANGED rvars \/ Poll => UNCHANGED <<proc, gap, orphans>>
    BY DEF rvars, Poll
  <2> QED
    BY <2>1, <1>1, <1>2, <1>3, <1>4, <1>5, <1>6 DEF RNext, Procs

\* A gap is claimed by one process at a time, and stays with it until a verdict.
THEOREM ClaimsHeld == RSpec => []ClaimHeld
<1>1. RInit => Shape /\ Fresh /\ Claims
  <2>1. RInit => Fresh
    BY DEF RInit, Fresh, NoJob
  <2>2. RInit => Claims
    BY DEF RInit, Claims, ClaimHeld, Idle, Outside
  <2> QED
    BY <2>1, <2>2, ShapeInit
<1>2. Shape /\ Fresh /\ Claims /\ [RNext]_rvars => (Shape /\ Fresh /\ Claims)'
  BY ShapeStep, RowsKept, ClaimsStep
<1>3. Claims => ClaimHeld
  BY DEF Claims
<1> QED
  BY <1>1, <1>2, <1>3, PTL DEF RSpec

-----------------------------------------------------------------------------
(***************************************************************************)
(* A Completed job or a Repaired gap has been attempted in full, for every *)
(* batch size, window and retry limit and every number of processes.       *)
(*                                                                         *)
(* The inductive invariant follows the ledgers: each one before a job's    *)
(* checkpoint, and before a run's next window, is indexed, given up or in  *)
(* flight (Progress), and a covered ledger stays covered (CoverKept).      *)
(* That nothing is in flight when a job completes needs its one runner.    *)
(***************************************************************************)

\* Where the batches of a window lie.
LEMMA BatchEnds ==
    ASSUME NEW B \in Nat \ {0}, NEW C \in Nat \ {0}, NEW k \in 0..(C - 1)
    PROVE  k * B + B <= C * B
<1>1. C - 1 - k \in Nat
  OBVIOUS
<1>2. (C - 1 - k) * B >= 0
  BY <1>1
<1>3. (C - 1 - k) * B = C * B - B - k * B
  OBVIOUS
<1> QED
  BY <1>2, <1>3

\* Every ledger of a window is in one of its batches.
LEMMA BatchOf ==
    ASSUME NEW B \in Nat \ {0}, NEW C \in Nat \ {0}, NEW x \in Nat, x < C * B
    PROVE  \E k \in 0..(C - 1) : k * B <= x /\ x < k * B + B
<1> DEFINE k == x \div B
<1>1. k \in Nat /\ k * B <= x /\ x < k * B + B
  OBVIOUS
<1>2. k < C
  <2>1. SUFFICES ASSUME k >= C PROVE FALSE
    BY <1>1
  <2>2. k * B >= C * B
    <3>1. k - C \in Nat
      BY <1>1, <2>1
    <3>2. (k - C) * B >= 0
      BY <3>1
    <3>3. (k - C) * B = k * B - C * B
      BY <1>1
    <3> QED
      BY <3>2, <3>3, <1>1
  <2> QED
    BY <2>2, <1>1
<1>3. k \in 0..(C - 1)
  BY <1>1, <1>2
<1> HIDE DEF k
<1> QED
  BY <1>1, <1>3


\* A batch stays within its size and within the job.
LEMMA BatchBounds ==
    ASSUME NEW b \in Int, NEW hi \in Int, NEW l \in Batch(b, hi)
    PROVE  l \in Int /\ b <= l /\ l <= hi /\ l < b + BatchSize
BY RepairAssumption DEF Batch

\* The batches of a window end before the next window begins.
LEMMA WindowEnds ==
    ASSUME NEW lo \in Int, NEW hi \in Int, NEW b \in Window(lo, hi)
    PROVE  b \in Int /\ b + BatchSize <= lo + Concurrency * BatchSize
<1>1. PICK k \in 0..(Concurrency - 1) : b = lo + k * BatchSize
  BY DEF Window
<1>2. k * BatchSize + BatchSize <= Concurrency * BatchSize
  BY RepairAssumption, BatchEnds
<1>3. k \in Int /\ BatchSize \in Int /\ Concurrency \in Int
  BY RepairAssumption
<1>4. k * BatchSize \in Int /\ Concurrency * BatchSize \in Int
  BY <1>3
<1> QED
  BY <1>1, <1>2, <1>3, <1>4

\* The batches of a window leave no ledger out.
LEMMA WindowCovers ==
    ASSUME NEW lo \in Int, NEW hi \in Int, NEW l \in Int,
           lo <= l, l < lo + Concurrency * BatchSize, l <= hi
    PROVE  \E b \in Window(lo, hi) : l \in Batch(b, hi)
<1>0. BatchSize \in Nat \ {0} /\ Concurrency \in Nat \ {0} /\ Concurrency * BatchSize \in Int
  BY RepairAssumption
<1>1. l - lo \in Nat /\ l - lo < Concurrency * BatchSize
  BY <1>0
<1>2. PICK k \in 0..(Concurrency - 1) :
          k * BatchSize <= l - lo /\ l - lo < k * BatchSize + BatchSize
  BY <1>0, <1>1, BatchOf, ZenonT(30)
<1> DEFINE b == lo + k * BatchSize
<1>3. k * BatchSize \in Int /\ k * BatchSize >= 0
  BY <1>0
<1>4. b \in Int /\ lo <= b /\ b <= l /\ l < b + BatchSize /\ b <= hi
  BY <1>0, <1>2, <1>3
<1>5. b \in Window(lo, hi)
  BY <1>4 DEF Window
<1> HIDE DEF b
<1>6. l \in Batch(b, hi)
  BY <1>0, <1>4 DEF Batch
<1> QED
  BY <1>5, <1>6

-----------------------------------------------------------------------------
\* Ledger l is indexed, given up by job j, or in a batch that j has in flight.
Covered(j, l) ==
    \/ l \in indexed
    \/ l \in lost[j]
    \/ \E w \in Procs : proc[w].job = j /\ l \in InFlight(w)

Attempted(g) ==
    FromLedger[g]..ToLedger[g] \subseteq
        indexed \cup UNION {lost[j] : j \in {i \in Jobs : job[i].gap = g}}

\* Nothing that was indexed or given up is forgotten.
LEMMA Monotone ==
    ASSUME Shape, [RNext]_rvars
    PROVE  indexed \subseteq indexed' /\ \A j \in Jobs : lost[j] \subseteq lost'[j]
<1>0. lost \in [Jobs -> SUBSET Int]
  BY DEF Shape, RTypeOK
<1>1. CASE UNCHANGED <<indexed, lost>>
  BY <1>1
<1>2. ASSUME NEW w \in Procs, NEW lo, BatchCommits(w, lo) PROVE indexed \subseteq indexed' /\ lost' = lost
  BY <1>2 DEF BatchCommits
<1>3. ASSUME NEW w \in Procs, NEW lo, BatchFails(w, lo)
      PROVE  indexed' = indexed /\ \A j \in Jobs : lost[j] \subseteq lost'[j]
  BY <1>3, <1>0, Zenon DEF BatchFails
<1>4. ASSUME NEW w \in Procs, Crash(w)
      PROVE  indexed' = indexed /\ \A j \in Jobs : lost[j] \subseteq lost'[j]
  BY <1>4, <1>0 DEF Crash
<1>5. ASSUME NEW w \in Procs, BackfillStep(w)
      PROVE  \/ UNCHANGED <<indexed, lost>>
             \/ \E lo \in proc[w].flight : BatchCommits(w, lo) \/ BatchFails(w, lo)
  BY <1>5, ZenonT(30) DEF BackfillStep, CreateJob, NotCreated, Lock, LockKept, LockHeld, ReadCursor,
              SendWindow, Complete, JobFails, rows
<1>6. ASSUME NEW w \in Procs, Cycle(w) \/ RepairStep(w) PROVE UNCHANGED <<indexed, lost>>
  BY <1>6, ZenonT(30) DEF Cycle, FindOpen, RepairStep, Claim, ClaimLost, ClaimFails, ClaimUnread,
        Unconfigured,
              MarkRepaired, NotMarked, MarkFailed, NoVerdict, rows
<1>7. ASSUME NEW w \in Procs, Command(w) PROVE UNCHANGED <<indexed, lost>>
  BY <1>7, ZenonT(30) DEF Command, RepairById, Resume, CheckCancel, Cancel, Disconnect, rows
<1>8. UNCHANGED rvars \/ Poll \/ (\E g \in Gaps : Skip(g)) => UNCHANGED <<indexed, lost>>
  BY DEF rvars, Poll, Skip
<1> QED
  BY <1>1, <1>2, <1>3, <1>4, <1>5, <1>6, <1>7, <1>8 DEF RNext, Procs

\* A ledger that is covered stays covered: a batch in flight is indexed, logged as
\* failed, or lost with its process.
LEMMA CoverKept ==
    ASSUME Shape, Fresh, [RNext]_rvars, NEW j \in Jobs, NEW l \in Int, Covered(j, l)
    PROVE  Covered(j, l)'
<1>0. RTypeOK /\ Located
  BY DEF Shape
<1>1. CASE l \in indexed \/ l \in lost[j]
  BY <1>1, Monotone, Zenon DEF Covered
<1>2. ASSUME NEW v \in Procs, proc[v].job = j, l \in InFlight(v) PROVE Covered(j, l)'
  <2>1. PICK lo \in proc[v].flight : l \in Batch(lo, job[j].end)
    BY <1>2, Zenon DEF InFlight
  <2>2. proc[v].pc = "batches" /\ j <= created
    BY <2>1, <1>2, <1>0 DEF Located, Sound
  <2>3. job'[j].end = job[j].end
    BY <2>2, RowsKept
  <2>4. ASSUME proc'[v].job = j, lo \in proc'[v].flight PROVE Covered(j, l)'
    <3>1. l \in InFlight(v)'
      BY <2>1, <2>3, <2>4 DEF InFlight
    <3> QED
      BY <3>1, <2>4 DEF Covered
  <2>5. CASE proc'[v] = proc[v]
    BY <2>1, <2>4, <2>5, <1>2
  <2>6. ASSUME NEW b \in proc[v].flight, BatchCommits(v, b) PROVE Covered(j, l)'
    <3>1. proc'[v].job = j /\ proc'[v].flight = proc[v].flight \ {b}
      BY <2>6, <1>2, <1>0 DEF BatchCommits, Settling, Inside, RTypeOK
    <3>2. Batch(b, job[j].end) \subseteq indexed'
      BY <2>6, <1>2 DEF BatchCommits
    <3>3. CASE b = lo
      BY <3>2, <3>3, <2>1 DEF Covered
    <3>4. CASE b # lo
      BY <3>1, <3>4, <2>1, <2>4
    <3> QED
      BY <3>3, <3>4
  <2>7. ASSUME NEW b \in proc[v].flight, BatchFails(v, b) PROVE Covered(j, l)'
    <3>1. proc'[v].job = j /\ proc'[v].flight = proc[v].flight \ {b}
      BY <2>7, <1>2, <1>0, Zenon DEF BatchFails, Settling, Inside, RTypeOK
    <3>2. Batch(b, job[j].end) \subseteq lost'[j]
      BY <2>7, <1>2, <1>0, Zenon DEF BatchFails, RTypeOK
    <3>3. CASE b = lo
      BY <3>2, <3>3, <2>1 DEF Covered
    <3>4. CASE b # lo
      BY <3>1, <3>4, <2>1, <2>4
    <3> QED
      BY <3>3, <3>4
  <2>8. CASE Crash(v)
    <3>1. l \in lost'[j]
      BY <2>8, <1>2, <1>0, RepairAssumption DEF Crash, RTypeOK
    <3> QED
      BY <3>1, ZenonT(30) DEF Covered
  <2>9. ASSUME NEW w \in Procs,
               Cycle(w) \/ BackfillStep(w) \/ RepairStep(w) \/ Command(w) \/ Crash(w)
        PROVE  Covered(j, l)'
    <3>1. CASE w # v
      BY <3>1, <2>5, <2>9, OthersStay, Zenon
    <3>2. CASE w = v
      <4>1. BackfillStep(v) =>
              \E b \in proc[v].flight : BatchCommits(v, b) \/ BatchFails(v, b)
        BY <2>1, <2>2, ZenonT(30) DEF BackfillStep, CreateJob, NotCreated, Lock, LockKept, LockHeld,
            ReadCursor, SendWindow, Complete, JobFails, AllSettled, At
      <4>2. ~Cycle(v) /\ ~RepairStep(v)
        BY <2>2 DEF Cycle, FindOpen, RepairStep, Claim, ClaimLost, ClaimFails, ClaimUnread,
        Unconfigured,
            MarkRepaired, NotMarked, MarkFailed, NoVerdict, At
      <4>3. ~Command(v)
        BY <2>2 DEF Command, RepairById, Resume, CheckCancel, Cancel, Disconnect, At
      <4> QED
        BY <3>2, <2>9, <4>1, <4>2, <4>3, <2>6, <2>7, <2>8, Zenon
    <3> QED
      BY <3>1, <3>2
  <2>10. UNCHANGED rvars \/ Poll \/ (\E g \in Gaps : Skip(g)) => proc' = proc
    BY ZenonT(30) DEF rvars, Poll, Skip
  <2> QED
    BY <2>5, <2>9, <2>10 DEF RNext, Procs
<1> QED
  BY <1>1, <1>2 DEF Covered

\* What has been attempted for a gap stays attempted.
LEMMA AttemptedKept ==
    ASSUME Shape, Fresh, [RNext]_rvars, NEW g \in Gaps, Attempted(g)
    PROVE  Attempted(g)'
<1>1. ASSUME NEW j \in Jobs, job[j].gap = g PROVE job'[j].gap = g
  <2>1. j \in Int /\ created \in Int /\ g # None
    BY Numbers, Zenon DEF Shape
  <2>2. j <= created
    BY <1>1, <2>1 DEF Fresh
  <2> QED
    BY <1>1, <2>2, RowsKept
<1> QED
  BY <1>1, Monotone DEF Attempted

Inner == {"lock", "cursor", "batches"}

\* Every ledger up to a job's checkpoint is covered.
Checkpoints ==
    \A j \in Jobs : \A l \in Int :
        job[j].start <= l /\ l <= job[j].checkpoint => Covered(j, l)

\* A run has covered what lies before its next window, its batches end there, and
\* the job of a repair is for its gap.
Going(w) ==
    /\ \A l \in Int : job[proc[w].job].start <= l /\ l < proc[w].next /\ l <= job[proc[w].job].end
                         => Covered(proc[w].job, l)
    /\ \A lo \in proc[w].flight : lo + BatchSize <= proc[w].next
    /\ proc[w].gap # None =>
         /\ job[proc[w].job].gap = proc[w].gap
         /\ job[proc[w].job].start = FromLedger[proc[w].gap]
         /\ job[proc[w].job].end = ToLedger[proc[w].gap]

Marks == \A w \in Procs : proc[w].pc = "mark" => Attempted(proc[w].gap)

Progress ==
    /\ Checkpoints
    /\ \A w \in Procs : proc[w].pc \in Inner => Going(w)
    /\ Marks
    /\ RangesAttempted

\* A run that keeps its place keeps what it has covered.
LEMMA GoingKept ==
    ASSUME Shape, Fresh, [RNext]_rvars, NEW w \in Procs, proc[w].pc \in Inner, Going(w),
           proc'[w].job = proc[w].job, proc'[w].gap = proc[w].gap, proc'[w].next = proc[w].next,
           proc'[w].flight \subseteq proc[w].flight
    PROVE  Going(w)'
<1> DEFINE j == proc[w].job
<1>1. j \in Jobs /\ j <= created
  BY ZenonT(30) DEF Shape, Located, Sound, Inner
<1>2. job'[j].gap = job[j].gap /\ job'[j].start = job[j].start /\ job'[j].end = job[j].end
  BY <1>1, RowsKept, Zenon
<1>3. \A l \in Int : Covered(j, l) => Covered(j, l)'
  BY <1>1, CoverKept, Zenon
<1>4. ASSUME NEW l \in Int, job'[j].start <= l, l < proc'[w].next, l <= job'[j].end
      PROVE  Covered(proc[w].job, l)'
  <2>1. Covered(j, l)
    BY <1>2, <1>4, Zenon DEF Going
  <2>2. Covered(j, l)'
    BY <2>1, <1>3, Zenon
  <2> QED
    BY <2>2, ZenonT(30)
<1> QED
  BY <1>2, <1>4, ZenonT(30) DEF Going

\* When all batches of a run have settled, its range is indexed or given up.
LEMMA RangeSettled ==
    ASSUME Shape, Runs, Progress, NEW w \in Procs, AllSettled(w)
    PROVE  /\ proc[w].job \in Jobs
           /\ job[proc[w].job].start..job[proc[w].job].end \subseteq indexed \cup lost[proc[w].job]
           /\ \A l \in Int : job[proc[w].job].start <= l /\ l <= job[proc[w].job].end
                                => Covered(proc[w].job, l)
<1> DEFINE j == proc[w].job
<1>1. proc[w].pc = "batches" /\ proc[w].flight = {} /\ proc[w].next > job[j].end
  BY DEF AllSettled, At
<1>2. j \in Jobs /\ proc[w].next \in Int /\ job[j].end \in Int /\ job[j].start \in Int
  BY <1>1 DEF Shape, RTypeOK, Located, Sound, ProcState, JobRow
<1>3. \A l \in Int : job[j].start <= l /\ l <= job[j].end => Covered(j, l)
  <2>1. Going(w)
    BY <1>1 DEF Progress, Inner
  <2>2. \A l \in Int : l <= job[j].end => l < proc[w].next
    BY <1>1, <1>2
  <2> QED
    BY <2>1, <2>2 DEF Going
<1>4. ASSUME NEW v \in Procs, proc[v].job = j, NEW l \in InFlight(v) PROVE FALSE
  <2>1. proc[v].flight # {}
    BY <1>4 DEF InFlight
  <2>2. proc[v].pc = "batches"
    BY <2>1, Zenon DEF Shape, Located, Sound
  <2>3. lock[j] = v /\ lock[j] = w
    BY <1>1, <1>4, <2>2 DEF Runs, Executing
  <2> QED
    BY <1>1, <2>1, <2>3
<1>5. ASSUME NEW l \in job[j].start..job[j].end PROVE l \in indexed \cup lost[j]
  <2>1. Covered(j, l)
    BY <1>2, <1>3
  <2> QED
    BY <2>1, <1>4 DEF Covered
<1> QED
  BY <1>2, <1>3, <1>5, Zenon

\* Every step keeps the ledgers up to a checkpoint covered, the commits of a
\* window's batches in any order included.
LEMMA CheckpointsStep ==
    ASSUME Shape, Fresh, Runs, Progress, [RNext]_rvars
    PROVE  Checkpoints'
<1>0. RTypeOK /\ Located /\ created \in 0..MaxJobs /\ MaxJobs \in Nat
  BY RepairAssumption DEF Shape, RTypeOK
<1>1. ASSUME NEW j \in Jobs, NEW l \in Int, job'[j].start = job[j].start,
             job'[j].checkpoint = job[j].checkpoint,
             job'[j].start <= l, l <= job'[j].checkpoint
      PROVE  Covered(j, l)'
  BY <1>1, CoverKept DEF Progress, Checkpoints
<1>2. CASE \A j \in Jobs : job'[j].start = job[j].start /\ job'[j].checkpoint = job[j].checkpoint
  BY <1>1, <1>2 DEF Checkpoints
<1>3. ASSUME NEW w \in Procs, CreateJob(w) PROVE Checkpoints'
  <2> DEFINE g == proc[w].gap
  <2>1. g \in Gaps /\ FromLedger[g] \in Int /\ FromLedger[g] > 0
    <3>1. g \in Gaps
      BY <1>3, <1>0, Zenon DEF CreateJob, At, Located, Sound
    <3> QED
      BY <1>0, <3>1, Numbers, Zenon
  <2>2. \A j \in Jobs : j # created + 1 => job'[j] = job[j]
    BY <1>3, <1>0 DEF CreateJob, RTypeOK
  <2>3. ASSUME NEW j \in Jobs, j = created + 1 PROVE job'[j] = NewJob(g)
    BY <1>3, <1>0, <2>3 DEF CreateJob, RTypeOK
  <2>4. NewJob(g).start = FromLedger[g] /\ NewJob(g).checkpoint = 0
    BY DEF NewJob
  <2>5. ASSUME NEW j \in Jobs, NEW l \in Int, job'[j].start <= l, l <= job'[j].checkpoint
        PROVE  Covered(j, l)'
    <3>1. j # created + 1
      BY <2>1, <2>3, <2>4, <2>5
    <3> QED
      BY <3>1, <2>2, <2>5, <1>1
  <2> QED
    BY <2>5, Zenon DEF Checkpoints
<1>4. ASSUME NEW w \in Procs, NEW lo \in proc[w].flight, BatchCommits(w, lo) PROVE Checkpoints'
  <2> DEFINE i == proc[w].job
  <2>1. i \in Jobs /\ proc[w].pc = "batches" /\ lo \in Int /\ job[i].end \in Int
        /\ proc[w].next \in Int
    BY <1>4, <1>0 DEF BatchCommits, At, Located, Sound, RTypeOK, ProcState, JobRow
  <2>2. PICK max \in Batch(lo, job[i].end) : job' = [job EXCEPT ![i].checkpoint = max]
    BY <1>4, ZenonT(30) DEF BatchCommits
  <2>3. max \in Int /\ max <= job[i].end /\ max < lo + BatchSize
    BY <2>1, BatchBounds
  <2>4. Going(w)
    BY <2>1, Zenon DEF Progress, Inner
  <2>5. lo + BatchSize <= proc[w].next /\ BatchSize \in Int
    BY <2>4, RepairAssumption DEF Going
  <2>6. \A j \in Jobs : job'[j].start = job[j].start /\ (j # i => job'[j] = job[j])
        /\ job'[i].checkpoint = max
    BY <2>1, <2>2, <1>0, ZenonT(30) DEF RTypeOK, JobRow
  <2>7. ASSUME NEW l \in Int, job[i].start <= l, l <= max PROVE Covered(proc[w].job, l)
    <3>1. l < proc[w].next /\ l <= job[i].end
      BY <2>1, <2>3, <2>5, <2>7
    <3> QED
      BY <3>1, <2>4, <2>7 DEF Going
  <2>8. ASSUME NEW j \in Jobs, NEW l \in Int, job'[j].start <= l, l <= job'[j].checkpoint
        PROVE  Covered(j, l)'
    <3>1. CASE j = i
      <4>1. Covered(j, l)
        BY <3>1, <2>6, <2>7, <2>8, Zenon
      <4> QED
        BY <4>1, CoverKept
    <3>2. CASE j # i
      BY <3>2, <2>6, <2>8, <1>1
    <3> QED
      BY <3>1, <3>2
  <2> QED
    BY <2>8 DEF Checkpoints
<1>5. ASSUME NEW w \in Procs, Complete(w) PROVE Checkpoints'
  <2> DEFINE i == proc[w].job
  <2>1. i \in Jobs /\ \A l \in Int : job[i].start <= l /\ l <= job[i].end => Covered(i, l)
    BY <1>5, RangeSettled DEF Complete
  <2>2. job' = [job EXCEPT ![i].status = "Completed", ![i].checkpoint = job[i].end]
    BY <1>5 DEF Complete
  <2>3. \A j \in Jobs : job'[j].start = job[j].start /\ (j # i => job'[j] = job[j])
        /\ job'[i].checkpoint = job[i].end
    BY <2>1, <2>2, <1>0 DEF RTypeOK, JobRow
  <2>4. ASSUME NEW j \in Jobs, NEW l \in Int, job'[j].start <= l, l <= job'[j].checkpoint
        PROVE  Covered(j, l)'
    <3>1. CASE j = i
      <4>1. Covered(j, l)
        BY <3>1, <2>1, <2>3, <2>4
      <4> QED
        BY <4>1, CoverKept
    <3>2. CASE j # i
      BY <3>2, <2>3, <2>4, <1>1
    <3> QED
      BY <3>1, <3>2
  <2> QED
    BY <2>4 DEF Checkpoints
<1>6. ASSUME NEW w \in Procs, Lock(w) \/ JobFails(w) \/ Cancel(w) PROVE Checkpoints'
  <2>1. proc[w].job \in Jobs
    BY <1>6, <1>0, ZenonT(30) DEF Lock, JobFails, Cancel, AllSettled, At, Located, Sound
  <2>2. job' = job \/ \E s : job' = [job EXCEPT ![proc[w].job].status = s]
    BY <1>6, ZenonT(30) DEF Lock, JobFails, Cancel
  <2>3. ASSUME NEW s, job' = [job EXCEPT ![proc[w].job].status = s], NEW j \in Jobs
        PROVE  job'[j].start = job[j].start /\ job'[j].checkpoint = job[j].checkpoint
    BY <2>1, <2>3, <1>0 DEF RTypeOK, JobRow
  <2> QED
    BY <2>2, <2>3, <1>2, ZenonT(30)
<1>7. ASSUME NEW w \in Procs, BackfillStep(w) \/ Command(w)
      PROVE  \/ job' = job
             \/ CreateJob(w) \/ Complete(w) \/ Lock(w) \/ JobFails(w) \/ Cancel(w)
             \/ \E lo \in proc[w].flight : BatchCommits(w, lo)
  BY <1>7, ZenonT(30) DEF BackfillStep, Command, NotCreated, LockKept, LockHeld, ReadCursor, SendWindow,
              BatchFails, RepairById, Resume, CheckCancel, Disconnect, rows
<1>8. ASSUME NEW w \in Procs, Cycle(w) \/ RepairStep(w) \/ Crash(w) PROVE job' = job
  BY <1>8, ZenonT(30) DEF Cycle, RepairStep, FindOpen, Claim, ClaimLost, ClaimFails, ClaimUnread,
        Unconfigured,
              MarkRepaired, NotMarked, MarkFailed, NoVerdict, Crash, rows
<1>9. UNCHANGED rvars \/ Poll \/ (\E g \in Gaps : Skip(g)) => job' = job
  BY DEF rvars, Poll, Skip
<1>10. CASE job' = job
  BY <1>2, <1>10
<1> QED
  BY <1>3, <1>4, <1>5, <1>6, <1>7, <1>8, <1>9, <1>10, Zenon DEF RNext, Procs

\* Where a step takes a process inside a run: in, on, or out.
LEMMA GoingStep ==
    ASSUME Shape, Fresh, Progress, [RNext]_rvars, NEW v \in Procs, proc'[v].pc \in Inner
    PROVE  Going(v)'
<1>0. RTypeOK /\ Located /\ proc \in [Procs -> ProcState] /\ created \in 0..MaxJobs
      /\ MaxJobs \in Nat
  BY RepairAssumption, Zenon DEF Shape, RTypeOK
<1>1. CASE proc'[v] = proc[v]
  BY <1>1, GoingKept, Zenon DEF Progress
<1>2. CASE CreateJob(v)
  <2> DEFINE g == proc[v].gap
             i == created + 1
  <2>1. g \in Gaps /\ i \in Jobs /\ FromLedger[g] \in Int
    <3>1. g \in Gaps
      BY <1>2, <1>0, Zenon DEF CreateJob, At, Located, Sound
    <3>2. i \in Jobs
      BY <1>2, <1>0, Numbers, Zenon DEF CreateJob
    <3> QED
      BY <1>0, <3>1, <3>2, Numbers, Zenon
  <2>2. job'[i] = NewJob(g)
    BY <1>2, <2>1, <1>0, Zenon DEF CreateJob, RTypeOK
  <2>3. proc'[v].job = i /\ proc'[v].gap = g /\ proc'[v].flight = {}
        /\ proc'[v].next = ResumeFrom(NewJob(g))
    BY <1>2, <1>0 DEF CreateJob, Entering, Inside
  <2>4. NewJob(g).start = FromLedger[g] /\ NewJob(g).end = ToLedger[g] /\ NewJob(g).gap = g
        /\ ResumeFrom(NewJob(g)) = FromLedger[g]
    BY NewJobFields, Zenon
  <2>5. job'[proc'[v].job].start = FromLedger[g] /\ proc'[v].next = FromLedger[g]
        /\ job'[proc'[v].job].gap = g /\ job'[proc'[v].job].end = ToLedger[g]
    BY <2>2, <2>3, <2>4, ZenonT(30)
  <2>6. \A l \in Int : ~(FromLedger[g] <= l /\ l < FromLedger[g])
    BY <2>1
  <2> QED
    BY <2>3, <2>5, <2>6 DEF Going
<1>3. ASSUME NEW i \in Jobs, Resume(v, i) PROVE Going(v)'
  <2>1. job' = job /\ proc'[v].job = i /\ proc'[v].gap = None /\ proc'[v].flight = {}
        /\ proc'[v].next = ResumeFrom(job[i])
    BY <1>3, <1>0 DEF Resume, At, Located, Sound, Entering, Inside, rows
  <2>2. job[i].checkpoint \in Int /\ job[i].start \in Int
    BY <1>0 DEF RTypeOK, JobRow
  <2>3. ASSUME NEW l \in Int, job[i].start <= l, l < ResumeFrom(job[i]) PROVE Covered(i, l)'
    <3>1. l <= job[i].checkpoint
      BY <2>2, <2>3 DEF ResumeFrom
    <3>2. Covered(i, l)
      BY <3>1, <2>3 DEF Progress, Checkpoints
    <3> QED
      BY <3>2, CoverKept
  <2>4. \A l \in Int : job'[i].start <= l /\ l < proc'[v].next => Covered(i, l)'
    BY <2>1, <2>3, Zenon
  <2> QED
    BY <2>1, <2>4, Zenon DEF Going
<1>4. CASE Lock(v) \/ ReadCursor(v)
           \/ \E lo \in proc[v].flight : BatchCommits(v, lo) \/ BatchFails(v, lo)
  <2>1. proc[v].pc \in Inner
    BY <1>4, ZenonT(30) DEF Lock, ReadCursor, BatchCommits, BatchFails, At, Inner
  <2>2. proc'[v].job = proc[v].job /\ proc'[v].gap = proc[v].gap /\ proc'[v].next = proc[v].next
        /\ proc'[v].flight \subseteq proc[v].flight
    BY <1>4, <1>0 DEF Lock, ReadCursor, BatchCommits, BatchFails, Looking, Settling, Inside
  <2> QED
    BY <2>1, <2>2, GoingKept DEF Progress
<1>5. CASE SendWindow(v)
  <2> DEFINE i == proc[v].job
             n == proc[v].next
             hi == job[i].end
             m == n + Concurrency * BatchSize
  <2>1. proc[v].pc = "batches" /\ i \in Jobs /\ n \in Int /\ hi \in Int /\ job[i].start \in Int
    BY <1>5, <1>0 DEF SendWindow, At, Located, Sound, ProcState, RTypeOK, JobRow
  <2>2. job' = job /\ proc'[v].job = i /\ proc'[v].gap = proc[v].gap /\ proc'[v].next = m
        /\ proc'[v].flight = Window(n, hi)
    BY <1>5, <1>0 DEF SendWindow, Settling, Inside, rows
  <2>3. Going(v)
    BY <2>1 DEF Progress, Inner
  <2>4. ASSUME NEW l \in Int, job[i].start <= l, l < m, l <= hi PROVE Covered(i, l)'
    <3>1. CASE l < n
      <4>1. Covered(i, l)
        BY <3>1, <2>3, <2>4, Zenon DEF Going
      <4> QED
        BY <4>1, <2>1, <2>2, CoverKept, Zenon
    <3>2. CASE ~(l < n)
      <4>1. n <= l
        BY <3>2, <2>1
      <4>2. PICK b \in Window(n, hi) : l \in Batch(b, hi)
        BY <4>1, <2>1, <2>4, WindowCovers, Zenon
      <4>3. l \in InFlight(v)'
        BY <4>2, <2>2, Zenon DEF InFlight
      <4> QED
        BY <4>3, <2>2 DEF Covered
    <3> QED
      BY <3>1, <3>2
  <2>5. \A b \in Window(n, hi) : b + BatchSize <= m
    BY <2>1, WindowEnds
  <2> HIDE DEF m
  <2> QED
    BY <2>2, <2>3, <2>4, <2>5, ZenonT(30) DEF Going
<1>6. ASSUME Throw(v) PROVE FALSE
  BY <1>6, <1>0, Zenon DEF Throw, Idle, Outside, Inner
<1>7. ASSUME Complete(v) PROVE FALSE
  BY <1>7, <1>0, ZenonT(30) DEF Complete, Idle, Outside, Inner
<1>8. ASSUME Cycle(v) \/ RepairStep(v) \/ Crash(v) PROVE FALSE
  <2>0. CASE Cycle(v)
    BY <2>0, <1>0 DEF Cycle, FindOpen, Outside, Inner
  <2>1. CASE Crash(v)
    <3>1. proc'[v] = Idle
      BY <2>1, <1>0, Zenon DEF Crash, RTypeOK
    <3> QED
      BY <3>1, <1>0 DEF Idle, Outside, Inner
  <2>2. CASE Claim(v) \/ ClaimLost(v) \/ ClaimFails(v) \/ ClaimUnread(v) \/ Unconfigured(v)
    BY <2>2, <1>0 DEF Claim, ClaimLost, ClaimFails, ClaimUnread,
        Unconfigured, Idle, Outside, Inner
  <2>3. CASE MarkRepaired(v) \/ NotMarked(v) \/ MarkFailed(v) \/ NoVerdict(v)
    BY <2>3, <1>0 DEF MarkRepaired, NotMarked, MarkFailed, NoVerdict, Idle, Outside, Inner
  <2> QED
    BY <1>8, <2>0, <2>1, <2>2, <2>3, Zenon DEF RepairStep
<1>9. ASSUME Command(v) PROVE proc'[v] = proc[v] \/ \E i \in Jobs : Resume(v, i)
  BY <1>9, <1>0 DEF Command, RepairById, CheckCancel, Cancel, Disconnect, Inside, Idle, Outside,
      Inner
<1>10. CASE BackfillStep(v)
  BY <1>2, <1>4, <1>5, <1>6, <1>7, <1>10
  DEF BackfillStep, NotCreated, LockKept, LockHeld, JobFails
<1>11. ASSUME NEW w \in Procs, w # v,
              Cycle(w) \/ BackfillStep(w) \/ RepairStep(w) \/ Command(w) \/ Crash(w)
       PROVE  proc'[v] = proc[v]
  BY <1>11, OthersStay
<1>12. UNCHANGED rvars \/ Poll \/ (\E g \in Gaps : Skip(g)) => proc' = proc
  BY Zenon DEF rvars, Poll, Skip
<1> QED
  BY <1>1, <1>3, <1>8, <1>9, <1>10, <1>11, <1>12 DEF RNext, Procs

\* Every step keeps the progress of jobs, runs and gaps.
LEMMA ProgressStep ==
    ASSUME Shape, Fresh, Runs, Progress, [RNext]_rvars
    PROVE  Progress'
<1>0. RTypeOK /\ Located
  BY DEF Shape
<1>1. Checkpoints'
  BY CheckpointsStep
<1>2. \A v \in Procs : (proc[v].pc \in Inner)' => Going(v)'
  BY GoingStep
<1>3. ASSUME NEW v \in Procs, proc'[v].pc = "mark" PROVE Attempted(proc[v].gap)'
  <2>1. CASE proc'[v] = proc[v]
    <3>1. proc[v].gap \in Gaps /\ Attempted(proc[v].gap)
      BY <1>3, <2>1, <1>0, Zenon DEF Progress, Marks, Located, Sound
    <3> QED
      BY <3>1, <2>1, AttemptedKept, Zenon
  <2>2. CASE Complete(v)
    <3> DEFINE j == proc[v].job
               g == proc[v].gap
    <3>1. AllSettled(v) /\ proc[v].pc \in Inner
      BY <2>2, Zenon DEF Complete, AllSettled, At, Inner
    <3>2. j \in Jobs /\ job[j].start..job[j].end \subseteq indexed \cup lost[j]
      BY <3>1, RangeSettled, Zenon
    <3>3. g # None /\ g \in Gaps /\ proc'[v].gap = g
      BY <1>3, <2>2, <1>0 DEF Complete, Idle, Outside, RTypeOK, ProcState
    <3>4. job[j].gap = g /\ job[j].start = FromLedger[g] /\ job[j].end = ToLedger[g]
      BY <3>1, <3>3, ZenonT(30) DEF Progress, Going
    <3>5. Attempted(g)
      BY <3>2, <3>4 DEF Attempted
    <3> QED
      BY <3>3, <3>5, AttemptedKept
  <2> QED
    BY <1>3, <2>1, <2>2, CompletedBy, Zenon
<1>4. ASSUME NEW j \in Jobs, job'[j].status = "Completed"
      PROVE  job'[j].start..job'[j].end \subseteq indexed' \cup lost'[j]
  <2>1. indexed \subseteq indexed' /\ lost[j] \subseteq lost'[j]
    BY Monotone, Zenon
  <2>2. ASSUME j <= created, job[j].start..job[j].end \subseteq indexed \cup lost[j]
        PROVE  job'[j].start..job'[j].end \subseteq indexed' \cup lost'[j]
    BY <2>1, <2>2, RowsKept
  <2>3. CASE job[j].status = "Completed"
    <3>1. j <= created
      <4>1. j \in Int /\ created \in Int
        BY <1>0, Numbers, Zenon
      <4> QED
        BY <2>3, <4>1 DEF Fresh
    <3> QED
      BY <2>2, <2>3, <3>1 DEF Progress, RangesAttempted
  <2>4. ASSUME NEW w \in Procs, Complete(w), proc[w].job = j
        PROVE  job'[j].start..job'[j].end \subseteq indexed' \cup lost'[j]
    <3>1. AllSettled(w) /\ j <= created
      BY <2>4, <1>0 DEF Complete, Located, Sound
    <3> QED
      BY <2>2, <2>4, <3>1, RangeSettled
  <2>5. job[j].status = "Completed" \/ \E w \in Procs : Complete(w) /\ proc[w].job = j
    BY <1>4, CompletedBy, Zenon
  <2> QED
    BY <2>3, <2>4, <2>5, Zenon
<1>5. ASSUME NEW g \in Gaps, gap'[g] = "Repaired" PROVE Attempted(g)'
  <2>1. Attempted(g)
    <3>1. CASE gap[g] = "Repaired"
      BY <3>1, Zenon DEF Progress, RangesAttempted, Attempted
    <3>2. ASSUME NEW w \in Procs, At(w, "mark"), proc[w].gap = g PROVE Attempted(g)
      BY <3>2 DEF Progress, Marks, At
    <3> QED
      BY <1>5, <3>1, <3>2, CompletedBy, Zenon
  <2> QED
    BY <2>1, AttemptedKept, Zenon
<1>6. Marks'
  BY <1>3 DEF Marks
<1>7. RangesAttempted'
  BY <1>4, <1>5 DEF RangesAttempted, Attempted
<1> QED
  BY <1>1, <1>2, <1>6, <1>7 DEF Progress

\* A Completed job and a Repaired gap have been attempted from end to end, for any
\* batch size, window and order of commits, failures, deaths and resumes.
THEOREM RangesAreAttempted == RSpec => []RangesAttempted
<1> DEFINE I == Shape /\ Fresh /\ Runs /\ Progress
<1>1. RInit => I
  <2> SUFFICES ASSUME RInit PROVE I
    OBVIOUS
  <2>1. Fresh
    BY DEF RInit, Fresh, NoJob
  <2>2. Runs
    BY DEF RInit, Runs, Executing, Idle, Outside
  <2>3. Checkpoints
    <3>1. ASSUME NEW j \in Jobs, NEW l \in Int, job[j].start <= l, l <= job[j].checkpoint
          PROVE  FALSE
      BY <3>1 DEF RInit, NoJob
    <3> QED
      BY <3>1 DEF Checkpoints
  <2>4. \A w \in Procs : proc[w].pc = "idle"
    BY DEF RInit, Idle, Outside
  <2>5. RangesAttempted
    BY DEF RInit, RangesAttempted, NoJob
  <2> QED
    BY <2>1, <2>2, <2>3, <2>4, <2>5, ShapeInit DEF Progress, Marks, Inner
<1>2. I /\ [RNext]_rvars => I'
  BY ShapeStep, RowsKept, RunsStep, ProgressStep
<1>3. I => RangesAttempted
  BY DEF Progress
<1> QED
  BY <1>1, <1>2, <1>3, PTL DEF RSpec
============================================================================
