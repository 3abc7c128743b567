------------------------------- MODULE Keeper -------------------------------
(***************************************************************************)
(* The keeper of the indexer (keeper/runner.ts, tx-pipeline.ts,            *)
(* idempotency.ts, candidates.ts): a process that finds listings, auctions *)
(* and offers past their deadline in the indexer's database and closes     *)
(* them on chain, keeping one KeeperAction row per target.                 *)
(*                                                                         *)
(* A step is what the process does between two awaits: one query, one RPC  *)
(* call or one row update.  The process may crash between any two of them  *)
(* and forgets everything but the rows.  The chain, the database           *)
(* projection and the clocks move on their own in the meantime.            *)
(***************************************************************************)
EXTENDS Integers, Sequences, FiniteSets

CONSTANTS
  Keepers,     \* keeper processes; they share the account and the database
  Targets,     \* listings, auctions and offers
  Auctions,    \* the targets that are auctions
  None,        \* no current candidate
  MaxActions,  \* KEEPER_MAX_ACTIONS_PER_CYCLE
  MaxBumps,    \* KEEPER_FEE_BUMP_MAX_RETRIES
  MaxTime,     \* bound on both clocks and on the first deadlines
  MaxTx        \* bound on the number of transactions ever signed

ASSUME KeeperAssumption ==
  /\ Auctions \subseteq Targets /\ None \notin Targets
  /\ MaxActions \in Nat \ {0} /\ MaxBumps \in Nat
  /\ MaxTime \in Nat /\ MaxTx \in Nat

VARIABLES
  wall,     \* Date.now() of the keeper
  ledger,   \* the ledger timestamp the contract reads
  chain,    \* the targets as the contract holds them
  db,       \* the targets as the indexer has projected them
  actions,  \* KeeperAction rows
  txs,      \* the transactions handed to the network, in order of sending
  account,  \* sequence number of the keeper's account
  keeper,   \* what each process is doing
  dryRun    \* KEEPER_DRY_RUN

envVars == <<wall, ledger, chain, db>>
vars == <<wall, ledger, chain, db, actions, txs, account, keeper, dryRun>>

TargetStates == [open : BOOLEAN, deadline : 0..(MaxTime + 1)]

Statuses == {"None", "Pending", "Submitted", "Succeeded", "Failed", "Skipped"}
Rows == [status : Statuses, attempts : Nat, txHash : Nat]
NoRow == [status |-> "None", attempts |-> 0, txHash |-> 0]

(* A transaction is in the pool of the network, lost before it got there, or *)
(* included with a result.  A fee bump shares the sequence number of the     *)
(* transaction it wraps and has a hash of its own.                           *)
Transactions ==
  [target : Targets, seq : Nat, status : {"pool", "lost", "success", "failed"}]

Stages == {"idle", "resume", "check", "create", "build", "send", "poll",
           "submitted", "succeeded", "failed", "skipped"}
Processes ==
  [pc : Stages, todo : SUBSET Targets, cur : Targets \cup {None},
   seq : Nat, tx : Nat, bump : 0..MaxBumps]
Between(stage, rest) ==
  [pc |-> stage, todo |-> rest, cur |-> None, seq |-> 0, tx |-> 0, bump |-> 0]
Idle == Between("idle", {})

Init ==
  /\ wall = 0 /\ ledger = 0
  /\ chain \in [Targets -> [open : {TRUE}, deadline : 0..MaxTime]]
  /\ db = chain
  /\ actions = [t \in Targets |-> NoRow]
  /\ txs = <<>>
  /\ account = 0
  /\ keeper = [k \in Keepers |-> Idle]
  /\ dryRun \in BOOLEAN

Cur(k) == keeper[k].cur
Goto(k, stage) == keeper' = [keeper EXCEPT ![k].pc = stage]

(* On to the next target of the list that the process is working through. *)
Proceed(k, stage) ==
  keeper' = [keeper EXCEPT ![k] = Between(stage, keeper[k].todo \ {Cur(k)})]

----------------------------------------------------------------------------
(* The chain, as the keeper uses it *)

(* expire_listing, finalize_auction and reclaim_offer accept a target only  *)
(* while it is open and the ledger has reached its deadline; a pause or any *)
(* other revert of the contract may refuse it even then.                    *)
Accepts(t) == chain[t].open /\ ledger >= chain[t].deadline

TickWall ==
  /\ wall < MaxTime
  /\ wall' = wall + 1
  /\ UNCHANGED <<ledger, chain, db, actions, txs, account, keeper, dryRun>>

(* Ledgers close behind the wall clock. *)
TickLedger ==
  /\ ledger < wall
  /\ ledger' = ledger + 1
  /\ UNCHANGED <<wall, chain, db, actions, txs, account, keeper, dryRun>>

(* A bid near the end of an auction moves its end. *)
Extend(t) ==
  /\ t \in Auctions
  /\ chain[t].open /\ ledger < chain[t].deadline /\ chain[t].deadline <= MaxTime
  /\ chain' = [chain EXCEPT ![t].deadline = @ + 1]
  /\ UNCHANGED <<wall, ledger, db, actions, txs, account, keeper, dryRun>>

(* Somebody else buys, cancels, withdraws or finalises. *)
CloseElsewhere(t) ==
  /\ chain[t].open
  /\ chain' = [chain EXCEPT ![t].open = FALSE]
  /\ UNCHANGED <<wall, ledger, db, actions, txs, account, keeper, dryRun>>

(* The indexer catches up with the events of one target. *)
Index(t) ==
  /\ db[t] # chain[t]
  /\ db' = [db EXCEPT ![t] = chain[t]]
  /\ UNCHANGED <<wall, ledger, chain, actions, txs, account, keeper, dryRun>>

(* A ledger includes the pooled transaction that is next in sequence. *)
Include(i) ==
  LET t == txs[i].target IN
  /\ txs[i].status = "pool" /\ txs[i].seq = account + 1
  /\ account' = account + 1
  /\ \/ /\ Accepts(t)
        /\ txs' = [txs EXCEPT ![i].status = "success"]
        /\ chain' = [chain EXCEPT ![t].open = FALSE]
     \/ /\ txs' = [txs EXCEPT ![i].status = "failed"]
        /\ UNCHANGED chain
  /\ UNCHANGED <<wall, ledger, db, actions, keeper, dryRun>>

----------------------------------------------------------------------------
(* keeper/idempotency.ts *)

MarkSubmitted(t, hash) ==
  actions' = [actions EXCEPT ![t] =
    [status |-> "Submitted", attempts |-> @.attempts + 1, txHash |-> hash]]

MarkSucceeded(t, hash) ==
  actions' = [actions EXCEPT ![t].status = "Succeeded", ![t].txHash = hash]

MarkFailed(t) == actions' = [actions EXCEPT ![t].status = "Failed"]

MarkSkipped(t) == actions' = [actions EXCEPT ![t].status = "Skipped"]

CreateOrSkipAction(t) ==
  actions' = [actions EXCEPT ![t] =
    IF @.status = "None" THEN [NoRow EXCEPT !.status = "Pending"] ELSE @]

----------------------------------------------------------------------------
(* A cycle: resume, discover, then one candidate after the other *)

StartCycle(k) ==
  /\ keeper[k].pc = "idle"
  /\ keeper' = [keeper EXCEPT ![k] =
       Between("resume", {t \in Targets : actions[t].status = "Submitted"})]
  /\ UNCHANGED <<envVars, actions, txs, account, dryRun>>

(* resumeSubmittedActions asks for the recorded hash; an unknown hash or a *)
(* failed request leaves the row for the next cycle.                       *)
ResumeAnswered(k, t) ==
  /\ keeper[k].pc = "resume" /\ t \in keeper[k].todo
  /\ actions[t].txHash \in DOMAIN txs
  /\ LET hash == actions[t].txHash
         result == txs[hash].status
     IN  /\ result \in {"success", "failed"}
         /\ IF result = "success" THEN MarkSucceeded(t, hash) ELSE MarkFailed(t)
  /\ keeper' = [keeper EXCEPT ![k].todo = @ \ {t}]
  /\ UNCHANGED <<envVars, txs, account, dryRun>>

ResumeUnanswered(k, t) ==
  /\ keeper[k].pc = "resume" /\ t \in keeper[k].todo
  /\ keeper' = [keeper EXCEPT ![k].todo = @ \ {t}]
  /\ UNCHANGED <<envVars, actions, txs, account, dryRun>>

(* The deadline of an auction comes from the database, that of a listing or *)
(* an offer from a view call, which may fail.                               *)
Candidates ==
  {t \in Targets :
     db[t].open /\ wall >= (IF t \in Auctions THEN db[t] ELSE chain[t]).deadline}

Discover(k) ==
  /\ keeper[k].pc = "resume" /\ keeper[k].todo = {}
  /\ \E found \in SUBSET Candidates, capped \in SUBSET Candidates :
       /\ Candidates \cap Auctions \subseteq found
       /\ capped \subseteq found
       /\ Cardinality(capped) = IF Cardinality(found) > MaxActions
                                  THEN MaxActions ELSE Cardinality(found)
       /\ keeper' = [keeper EXCEPT ![k] = Between("check", capped)]
  /\ UNCHANGED <<envVars, actions, txs, account, dryRun>>

EndCycle(k) ==
  /\ keeper[k].pc = "check" /\ keeper[k].todo = {}
  /\ Goto(k, "idle")
  /\ UNCHANGED <<envVars, actions, txs, account, dryRun>>

(* The idempotency check of processCandidate. *)
Eligible(t) ==
  /\ actions[t].status \notin {"Succeeded", "Skipped", "Submitted"}
  /\ ~(actions[t].status = "Failed" /\ actions[t].attempts >= MaxBumps + 1)

CheckForRowOnly(k, t) ==
  /\ keeper[k].pc = "check" /\ t \in keeper[k].todo
  /\ keeper' = [keeper EXCEPT ![k].cur = t,
                  ![k].pc = IF actions[t].status = "None" THEN "create" ELSE "build"]
  /\ UNCHANGED <<envVars, actions, txs, account, dryRun>>

CheckAction(k, t) ==
  /\ keeper[k].pc = "check" /\ t \in keeper[k].todo
  /\ IF Eligible(t)
       THEN keeper' = [keeper EXCEPT ![k].pc = "create", ![k].cur = t]
       ELSE keeper' = [keeper EXCEPT ![k].todo = @ \ {t}]
  /\ UNCHANGED <<envVars, actions, txs, account, dryRun>>

Create(k) ==
  /\ keeper[k].pc = "create"
  /\ CreateOrSkipAction(Cur(k))
  /\ IF actions[Cur(k)].status \in {"Submitted", "Succeeded", "Skipped"}
       THEN Proceed(k, "check") ELSE Goto(k, "build")
  /\ UNCHANGED <<envVars, txs, account, dryRun>>

----------------------------------------------------------------------------
(* executeTransaction *)

(* Load the account, build and simulate.  The simulation runs against the  *)
(* current ledger.  A refusal is classified permanent: the target is closed *)
(* or not due, or the contract is paused or reverts for another reason.    *)
Simulate(k) ==
  /\ keeper[k].pc = "build"
  /\ \/ Goto(k, "skipped")
     \/ Accepts(Cur(k)) /\ dryRun /\ Proceed(k, "check")
     \/ /\ Accepts(Cur(k)) /\ ~dryRun
        /\ keeper' = [keeper EXCEPT ![k].pc = "send", ![k].seq = account + 1]
  /\ UNCHANGED <<envVars, actions, txs, account, dryRun>>

(* The simulation request fails, or the contract refuses for a reason that  *)
(* the classifier does not know: a transient failure.  If loading the       *)
(* account fails, the candidate is left as it is and the cycle continues.   *)
BuildFails(k) ==
  /\ keeper[k].pc = "build"
  /\ Goto(k, "failed") \/ Proceed(k, "check")
  /\ UNCHANGED <<envVars, actions, txs, account, dryRun>>

(* sendTransaction answers: the transaction is pooled, or it was turned     *)
(* away with TRY_AGAIN_LATER, which the pipeline does not tell apart.       *)
Send(k) ==
  /\ keeper[k].pc = "send" /\ Len(txs) < MaxTx
  /\ \E s \in {"pool", "lost"} :
       txs' = Append(txs, [target |-> Cur(k), seq |-> keeper[k].seq, status |-> s])
  /\ keeper' = [keeper EXCEPT ![k].pc = "poll", ![k].tx = Len(txs) + 1]
  /\ UNCHANGED <<envVars, actions, account, dryRun>>

(* sendTransaction throws or reports an error: permanent if it names a      *)
(* refusal of the contract, transient otherwise.  The request may have      *)
(* arrived all the same.                                                    *)
SendFails(k) ==
  /\ keeper[k].pc = "send"
  /\ \/ UNCHANGED txs
     \/ /\ Len(txs) < MaxTx
        /\ txs' = Append(txs, [target |-> Cur(k), seq |-> keeper[k].seq,
                               status |-> "pool"])
  /\ Goto(k, "failed") \/ Goto(k, "skipped")
  /\ UNCHANGED <<envVars, actions, account, dryRun>>

(* tx_bad_seq on the first submission: the pipeline starts over. *)
SendCollides(k) ==
  /\ keeper[k].pc = "send" /\ keeper[k].seq <= account /\ keeper[k].bump = 0
  /\ Goto(k, "build")
  /\ UNCHANGED <<envVars, actions, txs, account, dryRun>>

PollAnswered(k) ==
  /\ keeper[k].pc = "poll"
  /\ \/ txs[keeper[k].tx].status = "success" /\ Goto(k, "submitted")
     \/ txs[keeper[k].tx].status = "failed" /\ (Goto(k, "failed") \/ Goto(k, "skipped"))
  /\ UNCHANGED <<envVars, actions, txs, account, dryRun>>

PollWithoutDeadline(k) ==
  /\ keeper[k].pc = "poll"
  /\ txs[keeper[k].tx].status \in {"success", "failed"}
  /\ Goto(k, "failed")
  /\ UNCHANGED <<envVars, actions, txs, account, dryRun>>

TimeoutTakenForSuccess(k) ==
  /\ keeper[k].pc = "poll"
  /\ Goto(k, "submitted")
  /\ UNCHANGED <<envVars, actions, txs, account, dryRun>>

(* The deadline passes, or a poll request fails: bump the fee and send the *)
(* wrapped transaction, up to the configured number of times.              *)
PollTimesOut(k) ==
  /\ keeper[k].pc = "poll"
  /\ IF keeper[k].bump < MaxBumps
       THEN keeper' = [keeper EXCEPT ![k].pc = "send", ![k].bump = @ + 1]
       ELSE Goto(k, "failed")
  /\ UNCHANGED <<envVars, actions, txs, account, dryRun>>

----------------------------------------------------------------------------
(* processCandidate records the outcome *)

RecordSubmitted(k) ==
  /\ keeper[k].pc = "submitted"
  /\ MarkSubmitted(Cur(k), keeper[k].tx)
  /\ Goto(k, "succeeded")
  /\ UNCHANGED <<envVars, txs, account, dryRun>>

RecordSucceeded(k) ==
  /\ keeper[k].pc = "succeeded"
  /\ MarkSucceeded(Cur(k), keeper[k].tx)
  /\ Proceed(k, "check")
  /\ UNCHANGED <<envVars, txs, account, dryRun>>

RecordFailed(k) ==
  /\ keeper[k].pc = "failed"
  /\ MarkFailed(Cur(k))
  /\ Proceed(k, "check")
  /\ UNCHANGED <<envVars, txs, account, dryRun>>

RecordSkipped(k) ==
  /\ keeper[k].pc = "skipped"
  /\ MarkSkipped(Cur(k))
  /\ Proceed(k, "check")
  /\ UNCHANGED <<envVars, txs, account, dryRun>>

(* The process dies and is started again. *)
Crash(k) ==
  /\ keeper[k].pc # "idle"
  /\ keeper' = [keeper EXCEPT ![k] = Idle]
  /\ UNCHANGED <<envVars, actions, txs, account, dryRun>>

----------------------------------------------------------------------------
CycleStep(k) ==
  \/ \E t \in Targets : ResumeAnswered(k, t) \/ ResumeUnanswered(k, t) \/ CheckAction(k, t)
  \/ Discover(k) \/ EndCycle(k) \/ Create(k)
  \/ Simulate(k) \/ BuildFails(k)
  \/ Send(k) \/ SendFails(k) \/ SendCollides(k)
  \/ PollAnswered(k) \/ PollTimesOut(k)
  \/ RecordSubmitted(k) \/ RecordSucceeded(k) \/ RecordFailed(k) \/ RecordSkipped(k)

Environment ==
  \/ TickWall \/ TickLedger
  \/ \E t \in Targets : Extend(t) \/ CloseElsewhere(t) \/ Index(t)
  \/ \E i \in DOMAIN txs : Include(i)

Next ==
  \/ \E k \in Keepers : StartCycle(k) \/ CycleStep(k) \/ Crash(k)
  \/ Environment

Spec == Init /\ [][Next]_vars

(* The event loop of a running process takes its next step eventually: every *)
(* await of a cycle is answered, refused or timed out.                       *)
FairSpec == Spec /\ \A k \in Keepers : WF_vars(CycleStep(k))

----------------------------------------------------------------------------
KTypeOK ==
  /\ wall \in 0..MaxTime /\ ledger \in 0..wall
  /\ chain \in [Targets -> TargetStates] /\ db \in [Targets -> TargetStates]
  /\ actions \in [Targets -> Rows]
  /\ txs \in Seq(Transactions)
  /\ account \in Nat
  /\ keeper \in [Keepers -> Processes]
  /\ dryRun \in BOOLEAN

(* Whenever a row says Submitted or Succeeded, its hash is that of a         *)
(* transaction for this very target that succeeded, and the target is closed *)
(* on chain: neither a crash between the two updates nor a late answer makes *)
(* the keeper's books claim what did not happen.                             *)
RecordsTellChain ==
  \A t \in Targets : actions[t].status \in {"Submitted", "Succeeded"} =>
    /\ actions[t].txHash \in DOMAIN txs
    /\ txs[actions[t].txHash].target = t
    /\ txs[actions[t].txHash].status = "success"
    /\ ~chain[t].open

FinishedLeftAlone ==
  /\ \A t \in Targets :
       actions[t].status \in {"Succeeded", "Skipped"} => actions'[t] = actions[t]
  /\ Len(txs') > Len(txs) =>
       actions[txs'[Len(txs')].target].status
         \notin {"Submitted", "Succeeded", "Skipped"}

(* With one keeper process, Succeeded and Skipped are final and no new        *)
(* transaction is signed for a target whose row is Submitted, Succeeded or    *)
(* Skipped, restarts included.                                                *)
FinishedTargetsLeftAlone == [][FinishedLeftAlone]_vars

(* Every cycle ends: no candidate, whatever the network answers or fails to  *)
(* answer, keeps the keeper from the targets after it.                       *)
CyclesEnd == \A k \in Keepers : keeper[k].pc # "idle" ~> keeper[k].pc = "idle"

=============================================================================
