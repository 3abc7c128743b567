---------------------------- MODULE TxLifecycle ----------------------------
(***************************************************************************)
(* The frontend's transaction lifecycle (hooks/useTxLifecycle.ts) with the *)
(* intent registry (lib/txIntentDedup.ts) that keeps one purchase from     *)
(* being submitted twice.  Hook instances live on pages (browser tabs);    *)
(* the registry is shared by the pages through localStorage, a page        *)
(* remembers a submitted hash in sessionStorage, and a run of an instance  *)
(* goes on after its instance was reset or unmounted.  The model follows   *)
(* one intent; the hash of run r is r.                                     *)
(***************************************************************************)
EXTENDS Integers

CONSTANTS Pages,      \* browser tabs
          Instances,  \* hook instances, each mounted once, on some page
          MaxRuns,    \* bound: runs started
          None

Runs == 1..MaxRuns

ASSUME TxAssumption ==
    /\ MaxRuns \in Nat
    /\ None \notin Runs
    /\ None \notin Pages \cup Instances

VARIABLES
    inst,        \* instance -> what it shows and its refs
    runs,        \* run -> its instance, its stage, its AbortSignal and its hash
    started,     \* runs started so far
    tx,          \* run -> the fate of the transaction its fn() sends
    reg,         \* the registry entry of the intent
    saved,       \* page -> the hash in its sessionStorage
    told,        \* page -> a registry change is being announced to it
    remover,     \* the page that removed the entry, while there is none
    overridden   \* a live run lost its slot: reset, window over, registration raced,
                 \* or localStorage refused

tvars == <<inst, runs, started, tx, reg, saved, told, remover, overridden>>

-----------------------------------------------------------------------------

NewInstance == [at |-> "new", page |-> None, state |-> "idle", hash |-> None, running |-> FALSE,
                aborted |-> FALSE, ctl |-> None, scope |-> FALSE, watch |-> FALSE,
                registering |-> FALSE]

Mounted(i) == inst[i].at = "mounted"
PageOf(i) == inst[i].page

\* JavaScript of a page does not interleave with the rest of beginIntent.
Awake(p) == \A i \in Instances : PageOf(i) = p => ~inst[i].registering

Live(r) == runs[r].pc \in {"yield", "sign", "confirm", "wait"}
LiveRuns == {r \in Runs : Live(r)}
Where(r) == PageOf(runs[r].inst)

\* pruneExpired: only a pending entry inside its window counts.
Pending == reg.has /\ reg.fresh

\* saveScope at page p: storage event and broadcast channel reach the other pages,
\* where a mounted instance may listen.
Announce(p) ==
    told' = [q \in Pages |-> told[q] \/ (q # p /\ \E i \in Instances : Mounted(i) /\ PageOf(i) = q)]

NoEntry == [has |-> FALSE, fresh |-> FALSE, hash |-> None]

\* Mutant: the entry is removed without saveScope's announcement.
RemoveEntrySilently(p) ==
    \/ /\ reg.has
       /\ reg' = NoEntry
       /\ remover' = p
       /\ UNCHANGED told
    \/ UNCHANGED <<reg, told, remover>>

\* clearIntent, and updateIntentStatus with a terminal status; nothing happens
\* without an entry or when localStorage refuses.
RemoveEntry(p) ==
    \/ /\ reg.has
       /\ reg' = NoEntry
       /\ Announce(p)
       /\ remover' = p
    \/ UNCHANGED <<reg, told, remover>>

\* finalizeDedupe: whichever intent the instance's ref names now.
FinalizeDedupe(i) ==
    IF inst[i].scope THEN RemoveEntry(PageOf(i)) ELSE UNCHANGED <<reg, told, remover>>

-----------------------------------------------------------------------------
(* The instances.                                                           *)

\* The mount effect restores a persisted hash.
Mount(i, p) ==
    /\ inst[i].at = "new"
    /\ Awake(p)
    /\ inst' = [inst EXCEPT ![i].at = "mounted", ![i].page = p, ![i].hash = saved[p],
                            ![i].state = IF saved[p] = None THEN "idle" ELSE "indexer_pending"]
    /\ UNCHANGED <<runs, started, tx, reg, saved, told, remover, overridden>>

\* The unmount effect drops the watcher; a run goes on with the refs, but what
\* it shows from now on nobody sees.
Unmount(i) ==
    /\ Mounted(i)
    /\ Awake(PageOf(i))
    /\ inst' = [inst EXCEPT ![i].at = "gone", ![i].watch = FALSE,
                            ![i].state = "idle", ![i].hash = None]
    /\ UNCHANGED <<runs, started, tx, reg, saved, told, remover, overridden>>

\* The page is reloaded: its instances and their runs are no more.
Reload(p) ==
    /\ \E i \in Instances : PageOf(i) = p
    /\ inst' = [i \in Instances |-> IF PageOf(i) = p THEN [NewInstance EXCEPT !.at = "gone"]
                                    ELSE inst[i]]
    /\ runs' = [r \in Runs |-> IF Live(r) /\ Where(r) = p
                               THEN [runs[r] EXCEPT !.pc = "gone"] ELSE runs[r]]
    /\ told' = [told EXCEPT ![p] = FALSE]
    /\ UNCHANGED <<started, tx, reg, saved, remover, overridden>>

\* run() finds the intent in flight elsewhere: recover its hash and watch it.
RunDuplicate(i) ==
    /\ Mounted(i) /\ Awake(PageOf(i))
    /\ ~inst[i].running
    /\ Pending
    /\ inst' = [inst EXCEPT ![i].state = IF reg.hash = None THEN "signing" ELSE "confirming",
                            ![i].hash = reg.hash, ![i].watch = TRUE]
    /\ UNCHANGED <<runs, started, tx, reg, saved, told, remover, overridden>>

\* Mutant: run() does not look for a pending entry.
RunUnchecked(i) ==
    /\ Mounted(i) /\ Awake(PageOf(i))
    /\ started < MaxRuns
    /\ ~inst[i].running
    /\ inst' = [inst EXCEPT ![i].registering = TRUE]
    /\ UNCHANGED <<runs, started, tx, reg, saved, told, remover, overridden>>

\* run() reads no pending entry ...
RunFirst(i) ==
    /\ Mounted(i) /\ Awake(PageOf(i))
    /\ started < MaxRuns
    /\ ~inst[i].running
    /\ ~Pending
    /\ inst' = [inst EXCEPT ![i].registering = TRUE]
    /\ UNCHANGED <<runs, started, tx, reg, saved, told, remover, overridden>>

\* localStorage refuses (quota, private mode), and a pending entry is not seen.
RunUnread(i) ==
    /\ Mounted(i) /\ Awake(PageOf(i))
    /\ started < MaxRuns
    /\ ~inst[i].running
    /\ Pending
    /\ inst' = [inst EXCEPT ![i].registering = TRUE]
    /\ overridden' = TRUE
    /\ UNCHANGED <<runs, started, tx, reg, saved, told, remover>>

\* ... writes its own, or cannot, and goes on to "simulating"; nothing locks the
\* registry between the two against the other pages.
Register(i) ==
    LET r == started + 1
    IN  /\ inst[i].registering
        /\ started < MaxRuns
        /\ started' = r
        /\ inst' = [inst EXCEPT ![i] = [@ EXCEPT !.registering = FALSE, !.state = "simulating",
                       !.hash = None, !.running = TRUE, !.aborted = FALSE, !.ctl = r,
                       !.scope = TRUE, !.watch = FALSE]]
        /\ runs' = [runs EXCEPT ![r] = [inst |-> i, pc |-> "yield", signal |-> FALSE,
                                        hash |-> None]]
        /\ \/ /\ reg' = [has |-> TRUE, fresh |-> TRUE, hash |-> None]
              /\ Announce(PageOf(i))
              /\ remover' = None
              /\ overridden' = (overridden \/ \E j \in Instances \ {i} : inst[j].registering)
           \/ /\ overridden' = TRUE
              /\ UNCHANGED <<reg, told, remover>>
        /\ UNCHANGED <<tx, saved>>

\* abort().
Abort(i) ==
    /\ Mounted(i) /\ Awake(PageOf(i))
    /\ inst[i].running
    /\ inst' = [inst EXCEPT ![i].aborted = TRUE]
    /\ runs' = [r \in Runs |-> IF r = inst[i].ctl THEN [runs[r] EXCEPT !.signal = TRUE]
                               ELSE runs[r]]
    /\ UNCHANGED <<started, tx, reg, saved, told, remover, overridden>>

\* reset(), also in the middle of a run (CheckoutModal resets when it closes), and
\* with the scope of an aborted run whose slot another run holds by now.
Reset(i) ==
    /\ Mounted(i) /\ Awake(PageOf(i))
    /\ FinalizeDedupe(i)
    /\ inst' = [inst EXCEPT ![i] = [NewInstance EXCEPT !.at = "mounted", !.page = PageOf(i)]]
    /\ runs' = [r \in Runs |-> IF r = inst[i].ctl THEN [runs[r] EXCEPT !.signal = TRUE]
                               ELSE runs[r]]
    /\ saved' = [saved EXCEPT ![PageOf(i)] = None]
    /\ overridden' = (overridden \/ (inst[i].scope /\ LiveRuns # {}))
    /\ UNCHANGED <<started, tx>>

-----------------------------------------------------------------------------
(* The rest of run(), one action per await.                                 *)

At(r, pc) == runs[r].pc = pc /\ Awake(Where(r))
Goto(r, pc) == runs' = [runs EXCEPT ![r].pc = pc]

\* setTxState by a run's instance s.
Shown(s, state, hash) ==
    IF s.at = "mounted" THEN [s EXCEPT !.state = state, !.hash = hash] ELSE s

Show(r, state, hash) == inst' = [inst EXCEPT ![runs[r].inst] = Shown(@, state, hash)]

\* The run is over: guard released, dedup slot freed, outcome shown.  ctl is what
\* it leaves in the instance's controller ref.
Finish(r, state, hash, ctl) ==
    LET i == runs[r].inst
    IN  /\ FinalizeDedupe(i)
        /\ inst' = [inst EXCEPT ![i] = Shown([@ EXCEPT !.running = FALSE, !.ctl = ctl,
                                                       !.scope = FALSE], state, hash)]
        /\ Goto(r, "done")
        /\ UNCHANGED <<started, tx, overridden>>

ForgetHash(r) == saved' = [saved EXCEPT ![Where(r)] = None]

\* After the yield: cancelled, ...
CancelEarly(r) ==
    /\ At(r, "yield")
    /\ inst[runs[r].inst].aborted
    /\ Finish(r, "error", inst[runs[r].inst].hash, inst[runs[r].inst].ctl)
    /\ UNCHANGED saved

\* ... or on to signing.
Sign(r) ==
    /\ At(r, "yield")
    /\ ~inst[runs[r].inst].aborted
    /\ Show(r, "signing", inst[runs[r].inst].hash)
    /\ Goto(r, "sign")
    /\ UNCHANGED <<started, tx, reg, saved, told, remover, overridden>>

\* fn() sends the transaction, as far as it gets to that.
Submit(r) ==
    /\ runs[r].pc = "sign"
    /\ tx[r] = "none"
    /\ tx' = [tx EXCEPT ![r] = "pending"]
    /\ UNCHANGED <<inst, runs, started, reg, saved, told, remover, overridden>>

\* A validator includes it.
Include(r) ==
    /\ tx[r] = "pending"
    /\ \E fate \in {"ok", "failed"} : tx' = [tx EXCEPT ![r] = fate]
    /\ UNCHANGED <<inst, runs, started, reg, saved, told, remover, overridden>>

\* fn() throws, before or after submission, or returns to an aborted run.
FnFails(r) ==
    /\ At(r, "sign")
    /\ Finish(r, "error", inst[runs[r].inst].hash, None)
    /\ UNCHANGED saved

\* fn() returns a result with a hash: persist it, mirror it, poll for it.  The
\* mirror is missing when the entry is gone or localStorage refuses.
FnReturnsHash(r) ==
    LET i == runs[r].inst
    IN  /\ At(r, "sign")
        /\ ~inst[i].aborted
        /\ tx[r] # "none"
        /\ Show(r, "confirming", r)
        /\ saved' = [saved EXCEPT ![Where(r)] = r]
        /\ \/ /\ inst[i].scope /\ reg.has
              /\ reg' = [reg EXCEPT !.hash = r]
              /\ Announce(PageOf(i))
           \/ UNCHANGED <<reg, told>>
        /\ runs' = [runs EXCEPT ![r].pc = "confirm", ![r].hash = r]
        /\ UNCHANGED <<started, tx, remover, overridden>>

\* fn() returns one without: no confirmation, straight to the indexer wait.
FnReturnsNoHash(r) ==
    /\ At(r, "sign")
    /\ ~inst[runs[r].inst].aborted
    /\ Show(r, "indexer_pending", None)
    /\ Goto(r, "wait")
    /\ UNCHANGED <<started, tx, reg, saved, told, remover, overridden>>

\* Mutant: the early return of an aborted poll keeps the guard.
ConfirmAbortedGuarded(r) ==
    /\ At(r, "confirm")
    /\ runs[r].signal
    /\ Goto(r, "done")
    /\ UNCHANGED <<inst, started, tx, reg, saved, told, remover, overridden>>

\* pollRpcForConfirmation under a fired signal: guard released, all else kept.
ConfirmAborted(r) ==
    /\ At(r, "confirm")
    /\ runs[r].signal
    /\ inst' = [inst EXCEPT ![runs[r].inst].running = FALSE, ![runs[r].inst].ctl = None]
    /\ Goto(r, "done")
    /\ UNCHANGED <<started, tx, reg, saved, told, remover, overridden>>

ConfirmSuccess(r) ==
    /\ At(r, "confirm")
    /\ ~runs[r].signal
    /\ tx[r] = "ok"
    /\ Show(r, "indexer_pending", r)
    /\ Goto(r, "wait")
    /\ UNCHANGED <<started, tx, reg, saved, told, remover, overridden>>

ConfirmFailed(r) ==
    /\ At(r, "confirm")
    /\ ~runs[r].signal
    /\ tx[r] = "failed"
    /\ Finish(r, "error", r, None)
    /\ ForgetHash(r)

\* Mutant: a poll that ran out falls through to the indexer wait.
TimeoutFallsThrough(r) ==
    /\ At(r, "confirm")
    /\ ~runs[r].signal
    /\ Show(r, "indexer_pending", r)
    /\ Goto(r, "wait")
    /\ UNCHANGED <<started, tx, reg, saved, told, remover, overridden>>

\* Every attempt answered NOT_FOUND, or one of them failed.
ConfirmTimeout(r) ==
    /\ At(r, "confirm")
    /\ ~runs[r].signal
    /\ Finish(r, "error", r, None)
    /\ ForgetHash(r)

\* The indexer timeout ends the run, aborted or not.
Succeed(r) ==
    /\ At(r, "wait")
    /\ Finish(r, "success", runs[r].hash, None)
    /\ ForgetHash(r)

-----------------------------------------------------------------------------
(* The registry.                                                            *)

\* The validity window of the entry passes.
Expire ==
    /\ Pending
    /\ reg' = [reg EXCEPT !.fresh = FALSE]
    /\ overridden' = (overridden \/ LiveRuns # {})
    /\ UNCHANGED <<inst, runs, started, tx, saved, told, remover>>

\* A change is announced to page p, over the channel, the storage event or both:
\* each watcher reads the entry and follows it, or is released when it reads none.
Notice(p) ==
    /\ told[p] /\ Awake(p)
    /\ told' \in {told, [told EXCEPT ![p] = FALSE]}
    /\ \E read \in {Pending, FALSE} :
         inst' = [i \in Instances |->
           IF ~(PageOf(i) = p /\ inst[i].watch) THEN inst[i]
           ELSE IF ~read
                THEN [inst[i] EXCEPT !.watch = FALSE, !.state = "idle", !.hash = None]
                ELSE IF reg.hash = None THEN inst[i]
                     ELSE [inst[i] EXCEPT !.state = "confirming", !.hash = reg.hash]]
    /\ UNCHANGED <<runs, started, tx, reg, saved, remover, overridden>>

-----------------------------------------------------------------------------

TInit ==
    /\ inst = [i \in Instances |-> NewInstance]
    /\ runs = [r \in Runs |-> [inst |-> None, pc |-> "none", signal |-> FALSE, hash |-> None]]
    /\ started = 0
    /\ tx = [r \in Runs |-> "none"]
    /\ reg = NoEntry
    /\ saved = [p \in Pages |-> None]
    /\ told = [p \in Pages |-> FALSE]
    /\ remover = None
    /\ overridden = FALSE

InstanceStep(i) ==
    \/ (\E p \in Pages : Mount(i, p)) \/ Unmount(i) \/ RunDuplicate(i) \/ RunFirst(i)
    \/ RunUnread(i) \/ Register(i) \/ Abort(i) \/ Reset(i)

RunStep(r) ==
    \/ CancelEarly(r) \/ Sign(r) \/ Submit(r) \/ Include(r) \/ FnFails(r)
    \/ FnReturnsHash(r) \/ FnReturnsNoHash(r) \/ ConfirmAborted(r)
    \/ ConfirmSuccess(r) \/ ConfirmFailed(r) \/ ConfirmTimeout(r) \/ Succeed(r)

TNext ==
    \/ \E i \in Instances : InstanceStep(i)
    \/ \E r \in Runs : RunStep(r)
    \/ \E p \in Pages : Reload(p) \/ Notice(p)
    \/ Expire

TSpec == TInit /\ [][TNext]_tvars

-----------------------------------------------------------------------------
(* Properties.                                                              *)

\* The duplicate-submission guard is held only for a run that is still going and
\* whose controller the instance holds: no sequence of abort, reset, unmount,
\* new runs and stale runs finishing late leaves the button dead (runningRef).
GuardHeldByLiveRun ==
    \A i \in Instances : inst[i].running =>
        \E r \in LiveRuns : runs[r].inst = i /\ inst[i].ctl = r

\* What a screen says of a hash is so, whoever wrote it, this run, a stale one or
\* the watcher: it was sent; a success was included with success; and the
\* instance that ran it says indexer_pending, "confirmed on-chain", only then
\* (useTxLifecycle.ts:55).  A page that restores the hash of an earlier instance
\* says so of any hash that was sent.  Session and registry hold sent ones only.
ScreenTellsChain ==
    /\ \A i \in Instances : LET h == inst[i].hash IN h # None =>
           /\ tx[h] # "none"
           /\ inst[i].state = "success" => tx[h] = "ok"
           /\ inst[i].state = "indexer_pending" /\ runs[h].inst = i => tx[h] = "ok"
    /\ \A p \in Pages : saved[p] # None => tx[saved[p]] # "none"
    /\ reg.hash # None => tx[reg.hash] # "none"

\* Unless a reset frees its slot, its window passes, two pages register at the same
\* moment or localStorage refuses, the intent has one live run at a time, over all
\* instances, remounts, reloads and pages (beginIntent, finalizeDedupe, abort).
OneRunInFlight == ~overridden => \A r, q \in LiveRuns : r = q

Untold(i) == inst[i].watch /\ ~told[PageOf(i)]

\* When the entry is gone, an instance that still waits for it and is not being
\* told is on the page that removed it: every other page was told, and nothing
\* swallowed that (saveScope, watchDuplicateIntent).
OtherPagesTold ==
    ~reg.has => \A i \in Instances : Untold(i) => PageOf(i) = remover

=============================================================================
