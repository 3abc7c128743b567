---------------------------- MODULE KeeperProofs ----------------------------
(***************************************************************************)
(* Proofs about the keeper, for any number of targets, fee bumps and       *)
(* transactions.                                                           *)
(*                                                                         *)
(* RecordsTellChain is not inductive: that the hash about to be recorded   *)
(* is that of a successful transaction for the current target depends on   *)
(* where the process is (StagesSound), a row may keep its hash after its   *)
(* status has moved on (HashesSound), and a success closes its target for  *)
(* good (SuccessCloses).                                                   *)
(***************************************************************************)
EXTENDS Keeper, TLAPS

Succeeded(h, t) ==
  h \in DOMAIN txs /\ txs[h].target = t /\ txs[h].status = "success"

SuccessCloses ==
  \A i \in DOMAIN txs : txs[i].status = "success" => ~chain[txs[i].target].open

HashesSound ==
  \A t \in Targets :
    /\ actions[t].txHash # 0 => Succeeded(actions[t].txHash, t)
    /\ actions[t].status \in {"Submitted", "Succeeded"} => actions[t].txHash # 0

Working == {"create", "build", "send", "poll", "submitted", "succeeded",
            "failed", "skipped"}

StagesSound ==
  \A k \in Keepers :
    /\ keeper[k].pc \in Working => keeper[k].cur \in Targets
    /\ keeper[k].pc = "poll" =>
         keeper[k].tx \in DOMAIN txs /\ txs[keeper[k].tx].target = keeper[k].cur
    /\ keeper[k].pc \in {"submitted", "succeeded"} =>
         Succeeded(keeper[k].tx, keeper[k].cur)

IInv == KTypeOK /\ SuccessCloses /\ HashesSound /\ StagesSound

----------------------------------------------------------------------------
(* Steps that only move one process: the rest of the state stays. *)
Local == UNCHANGED <<wall, ledger, chain, db, actions, txs, account, dryRun>>

(* Every action of a process replaces its own entry of keeper and no other. *)
Moves(k, p) == keeper' = [keeper EXCEPT ![k] = p]

(* The entry that a process moves to is sound on its own. *)
Sound(p) ==
  /\ p \in Processes
  /\ p.pc \in Working => p.cur \in Targets
  /\ p.pc = "poll" => p.tx \in DOMAIN txs /\ txs[p.tx].target = p.cur
  /\ p.pc \in {"submitted", "succeeded"} => Succeeded(p.tx, p.cur)

(* Initially nothing is recorded and nothing is under way. *)
LEMMA InvInit == Init => IInv
<1> SUFFICES ASSUME Init PROVE IInv
  OBVIOUS
<1> USE KeeperAssumption
<1>1. Idle \in Processes
  BY DEF Idle, Between, Processes, Stages
<1>2. NoRow \in Rows
  BY DEF NoRow, Rows, Statuses
<1>3. keeper \in [Keepers -> Processes] /\ actions \in [Targets -> Rows]
  BY <1>1, <1>2 DEF Init
<1>4. chain \in [Targets -> TargetStates]
  <2>1. 0..MaxTime \subseteq 0..(MaxTime + 1)
    OBVIOUS
  <2>2. [open : {TRUE}, deadline : 0..MaxTime] \subseteq TargetStates
    BY <2>1, ZenonT(30) DEF TargetStates
  <2> QED
    BY <2>2, ZenonT(30) DEF Init
<1>5. txs = <<>> /\ txs \in Seq(Transactions) /\ DOMAIN txs = {}
  BY DEF Init
<1>6. KTypeOK
  BY <1>3, <1>4, <1>5 DEF Init, KTypeOK
<1>7. SuccessCloses
  BY <1>5 DEF SuccessCloses
<1>8. HashesSound
  BY DEF Init, HashesSound, NoRow
<1>9. StagesSound
  BY DEF Init, StagesSound, Idle, Between, Working
<1> QED
  BY <1>6, <1>7, <1>8, <1>9 DEF IInv

(* A step that moves one process to a sound entry and leaves everything else *)
(* alone preserves the invariant.                                            *)
LEMMA LocalKeepsInv ==
  ASSUME IInv, NEW k \in Keepers, NEW p, Sound(p), Moves(k, p), Local
  PROVE  IInv'
<1>1. keeper \in [Keepers -> Processes]
  BY DEF IInv, KTypeOK
<1>2. keeper' \in [Keepers -> Processes]
  BY <1>1 DEF Sound, Moves
<1>3. KTypeOK'
  BY <1>2 DEF IInv, KTypeOK, Local
<1>4. SuccessCloses' /\ HashesSound'
  BY DEF IInv, SuccessCloses, HashesSound, Succeeded, Local
<1>5. StagesSound'
  <2> SUFFICES ASSUME NEW j \in Keepers
               PROVE  /\ keeper'[j].pc \in Working => keeper'[j].cur \in Targets
                      /\ keeper'[j].pc = "poll" =>
                           keeper'[j].tx \in DOMAIN txs /\ txs[keeper'[j].tx].target = keeper'[j].cur
                      /\ keeper'[j].pc \in {"submitted", "succeeded"} =>
                           Succeeded(keeper'[j].tx, keeper'[j].cur)
    BY DEF StagesSound, Succeeded, Local
  <2>1. CASE j = k
    BY <2>1, <1>1 DEF Moves, Sound
  <2>2. CASE j # k
    <3>1. keeper'[j] = keeper[j]
      BY <2>2, <1>1 DEF Moves
    <3> QED
      BY <3>1 DEF IInv, StagesSound
  <2> QED
    BY <2>1, <2>2
<1> QED
  BY <1>3, <1>4, <1>5 DEF IInv

(* A step that also rewrites one row preserves the invariant if the new row *)
(* carries a hash only of a successful transaction for its target.          *)
RowSound(t, r) ==
  /\ r \in Rows
  /\ r.txHash # 0 => Succeeded(r.txHash, t)
  /\ r.status \in {"Submitted", "Succeeded"} => r.txHash # 0

LEMMA RowKeepsInv ==
  ASSUME IInv, NEW k \in Keepers, NEW p, Sound(p), Moves(k, p),
         NEW t \in Targets, NEW r, RowSound(t, r),
         actions' = [actions EXCEPT ![t] = r],
         UNCHANGED <<wall, ledger, chain, db, txs, account, dryRun>>
  PROVE  IInv'
<1>1. keeper \in [Keepers -> Processes] /\ actions \in [Targets -> Rows]
  BY DEF IInv, KTypeOK
<1>2. keeper' \in [Keepers -> Processes] /\ actions' \in [Targets -> Rows]
  BY <1>1 DEF Sound, Moves, RowSound
<1>3. KTypeOK'
  BY <1>2 DEF IInv, KTypeOK
<1>4. SuccessCloses'
  BY DEF IInv, SuccessCloses
<1>5. HashesSound'
  <2> SUFFICES ASSUME NEW u \in Targets
               PROVE  /\ actions'[u].txHash # 0 => Succeeded(actions'[u].txHash, u)
                      /\ actions'[u].status \in {"Submitted", "Succeeded"} =>
                           actions'[u].txHash # 0
    BY DEF HashesSound, Succeeded
  <2>1. CASE u = t
    BY <2>1, <1>1 DEF RowSound
  <2>2. CASE u # t
    <3>1. actions'[u] = actions[u]
      BY <2>2, <1>1
    <3> QED
      BY <3>1 DEF IInv, HashesSound
  <2> QED
    BY <2>1, <2>2
<1>6. StagesSound'
  <2> SUFFICES ASSUME NEW j \in Keepers
               PROVE  /\ keeper'[j].pc \in Working => keeper'[j].cur \in Targets
                      /\ keeper'[j].pc = "poll" =>
                           keeper'[j].tx \in DOMAIN txs /\ txs[keeper'[j].tx].target = keeper'[j].cur
                      /\ keeper'[j].pc \in {"submitted", "succeeded"} =>
                           Succeeded(keeper'[j].tx, keeper'[j].cur)
    BY DEF StagesSound, Succeeded
  <2>1. CASE j = k
    BY <2>1, <1>1 DEF Moves, Sound
  <2>2. CASE j # k
    <3>1. keeper'[j] = keeper[j]
      BY <2>2, <1>1 DEF Moves
    <3> QED
      BY <3>1 DEF IInv, StagesSound
  <2> QED
    BY <2>1, <2>2
<1> QED
  BY <1>3, <1>4, <1>5, <1>6 DEF IInv

(* What the invariant says of one process. *)
LEMMA ProcessFacts ==
  ASSUME IInv, NEW k \in Keepers
  PROVE  /\ keeper[k] \in Processes
         /\ keeper[k].pc \in Working => keeper[k].cur \in Targets
         /\ keeper[k].pc = "poll" =>
              keeper[k].tx \in DOMAIN txs /\ txs[keeper[k].tx].target = keeper[k].cur
         /\ keeper[k].pc \in {"submitted", "succeeded"} =>
              Succeeded(keeper[k].tx, keeper[k].cur)
BY DEF IInv, KTypeOK, StagesSound

(* A process between two targets is sound. *)
LEMMA BetweenSound ==
  ASSUME NEW S \in SUBSET Targets, NEW stage \in {"idle", "resume", "check"}
  PROVE  Sound(Between(stage, S))
<1>1. 0 \in 0..MaxBumps /\ stage \in Stages
  BY KeeperAssumption DEF Stages
<1>2. Between(stage, S) \in Processes
  BY <1>1 DEF Between, Processes
<1>3. Between(stage, S).pc = stage
  BY DEF Between
<1>4. stage \notin Working \cup {"poll", "submitted", "succeeded"}
  BY DEF Working
<1> QED
  BY <1>2, <1>3, <1>4 DEF Sound

(* The steps of a cycle that touch neither rows nor transactions. *)
QuietStep(k) ==
  \/ StartCycle(k) \/ Crash(k) \/ Discover(k) \/ EndCycle(k)
  \/ \E t \in Targets : ResumeUnanswered(k, t) \/ CheckAction(k, t)
  \/ Simulate(k) \/ BuildFails(k) \/ SendCollides(k)
  \/ PollAnswered(k) \/ PollTimesOut(k)

LEMMA QuietKeepsInv ==
  ASSUME IInv, NEW k \in Keepers, QuietStep(k)
  PROVE  IInv'
<1> USE KeeperAssumption
<1> DEFINE P == keeper[k]
<1>0. /\ P \in Processes
      /\ P.pc \in Working => P.cur \in Targets
      /\ P.pc = "poll" => P.tx \in DOMAIN txs /\ txs[P.tx].target = P.cur
      /\ P.pc \in {"submitted", "succeeded"} => Succeeded(P.tx, P.cur)
  BY ProcessFacts
<1>a. ASSUME NEW p, Sound(p), Moves(k, p), Local PROVE IInv'
  BY <1>a, LocalKeepsInv
<1>f. ASSUME NEW S \in SUBSET Targets, NEW stage \in {"idle", "resume", "check"},
             keeper' = [keeper EXCEPT ![k] = Between(stage, S)], Local
      PROVE  IInv'
  BY <1>f, <1>a, BetweenSound, ZenonT(30) DEF Moves
<1>g. ASSUME NEW stage \in {"build", "failed", "skipped"}, P.pc \in Working,
             Goto(k, stage), Local
      PROVE  IInv'
  <2>1. Sound([P EXCEPT !.pc = stage])
    BY <1>g, <1>0 DEF Sound, Processes, Stages, Working
  <2>2. Moves(k, [P EXCEPT !.pc = stage])
    BY <1>g DEF Moves, Goto
  <2> QED
    BY <2>1, <2>2, <1>g, <1>a
<1>p. ASSUME Proceed(k, "check"), Local PROVE IInv'
  <2>1. P.todo \ {P.cur} \in SUBSET Targets
    BY <1>0 DEF Processes
  <2> QED
    BY <2>1, <1>p, <1>f, ZenonT(30) DEF Proceed, Cur
<1>t. ASSUME NEW t \in Targets, keeper' = [keeper EXCEPT ![k].todo = @ \ {t}],
             P.pc \in {"resume", "check"}, Local
      PROVE  IInv'
  <2>1. Sound([P EXCEPT !.todo = P.todo \ {t}])
    BY <1>t, <1>0 DEF Sound, Processes, Working
  <2>2. Moves(k, [P EXCEPT !.todo = P.todo \ {t}])
    BY <1>t DEF Moves
  <2> QED
    BY <2>1, <2>2, <1>t, <1>a
<1>1. CASE StartCycle(k)
  BY <1>1, <1>f, ZenonT(30) DEF StartCycle, Local, envVars
<1>2. CASE Crash(k)
  <2>1. Sound(Idle)
    BY BetweenSound DEF Idle
  <2> QED
    BY <1>2, <2>1, <1>a, ZenonT(30) DEF Crash, Local, envVars, Moves
<1>3. CASE Discover(k)
  <2>1. PICK capped \in SUBSET Candidates :
          keeper' = [keeper EXCEPT ![k] = Between("check", capped)]
    BY <1>3, ZenonT(30) DEF Discover
  <2>2. capped \in SUBSET Targets
    BY <2>1 DEF Candidates
  <2> QED
    BY <1>3, <2>1, <2>2, <1>f, ZenonT(30) DEF Discover, Local, envVars
<1>4. CASE EndCycle(k)
  <2>1. Sound([P EXCEPT !.pc = "idle"])
    BY <1>0 DEF Sound, Processes, Stages, Working
  <2>2. Moves(k, [P EXCEPT !.pc = "idle"])
    BY <1>4 DEF Moves, EndCycle, Goto
  <2> QED
    BY <1>4, <2>1, <2>2, <1>a DEF EndCycle, Local, envVars
<1>5. ASSUME NEW t \in Targets, ResumeUnanswered(k, t) PROVE IInv'
  BY <1>5, <1>t, ZenonT(30) DEF ResumeUnanswered, Local, envVars
<1>6. ASSUME NEW t \in Targets, CheckAction(k, t) PROVE IInv'
  <2>1. CASE Eligible(t)
    <3>1. Sound([P EXCEPT !.pc = "create", !.cur = t])
      BY <1>0, ZenonT(30) DEF Sound, Processes, Stages, Working
    <3>2. Moves(k, [P EXCEPT !.pc = "create", !.cur = t])
      BY <1>6, <2>1, ZenonT(30) DEF Moves, CheckAction
    <3> QED
      BY <1>6, <3>1, <3>2, <1>a DEF CheckAction, Local, envVars
  <2>2. CASE ~Eligible(t)
    BY <1>6, <2>2, <1>t DEF CheckAction, Local, envVars
  <2> QED
    BY <2>1, <2>2
<1>7. CASE Simulate(k)
  <2>0. P.pc \in Working /\ Local
    BY <1>7 DEF Simulate, Local, envVars, Working
  <2>1. CASE Goto(k, "skipped")
    BY <2>0, <2>1, <1>g
  <2>2. CASE Proceed(k, "check")
    BY <2>0, <2>2, <1>p
  <2>3. CASE keeper' = [keeper EXCEPT ![k].pc = "send", ![k].seq = account + 1]
    <3>1. account + 1 \in Nat
      BY DEF IInv, KTypeOK
    <3>2. Sound([P EXCEPT !.pc = "send", !.seq = account + 1])
      BY <1>0, <2>0, <3>1, ZenonT(30) DEF Sound, Processes, Stages, Working
    <3>3. Moves(k, [P EXCEPT !.pc = "send", !.seq = account + 1])
      BY <2>3, ZenonT(30) DEF Moves
    <3> QED
      BY <2>0, <3>2, <3>3, <1>a
  <2> QED
    BY <1>7, <2>1, <2>2, <2>3 DEF Simulate
<1>8. CASE BuildFails(k)
  <2>1. P.pc \in Working /\ Local
    BY <1>8 DEF BuildFails, Local, envVars, Working
  <2> QED
    BY <1>8, <2>1, <1>g, <1>p DEF BuildFails
<1>9. CASE SendCollides(k)
  <2>1. P.pc \in Working /\ Local
    BY <1>9 DEF SendCollides, Local, envVars, Working
  <2> QED
    BY <1>9, <2>1, <1>g DEF SendCollides
<1>10. CASE PollAnswered(k)
  <2>0. P.pc = "poll" /\ P.pc \in Working /\ Local
    BY <1>10 DEF PollAnswered, Local, envVars, Working
  <2>1. CASE Goto(k, "failed") \/ Goto(k, "skipped")
    BY <2>0, <2>1, <1>g
  <2>2. CASE txs[P.tx].status = "success" /\ Goto(k, "submitted")
    <3>1. Succeeded(P.tx, P.cur)
      BY <1>0, <2>0, <2>2 DEF Succeeded
    <3>2. Sound([P EXCEPT !.pc = "submitted"])
      BY <1>0, <2>0, <3>1 DEF Sound, Processes, Stages, Working
    <3>3. Moves(k, [P EXCEPT !.pc = "submitted"])
      BY <2>2 DEF Moves, Goto
    <3> QED
      BY <2>0, <3>2, <3>3, <1>a
  <2> QED
    BY <1>10, <2>1, <2>2 DEF PollAnswered
<1>11. CASE PollTimesOut(k)
  <2>0. P.pc = "poll" /\ P.pc \in Working /\ Local
    BY <1>11 DEF PollTimesOut, Local, envVars, Working
  <2>1. CASE P.bump < MaxBumps
    <3>1. P.bump + 1 \in 0..MaxBumps
      BY <1>0, <2>1 DEF Processes
    <3>2. Sound([P EXCEPT !.pc = "send", !.bump = P.bump + 1])
      BY <1>0, <2>0, <3>1, ZenonT(30) DEF Sound, Processes, Stages, Working
    <3>3. Moves(k, [P EXCEPT !.pc = "send", !.bump = P.bump + 1])
      BY <1>11, <2>1, ZenonT(30) DEF Moves, PollTimesOut
    <3> QED
      BY <2>0, <3>2, <3>3, <1>a
  <2>2. CASE ~(P.bump < MaxBumps)
    BY <1>11, <2>0, <2>2, <1>g DEF PollTimesOut
  <2> QED
    BY <2>1, <2>2
<1> QED
  BY <1>1, <1>2, <1>3, <1>4, <1>5, <1>6, <1>7, <1>8, <1>9, <1>10, <1>11 DEF QuietStep

----------------------------------------------------------------------------
(* The steps of a cycle that rewrite a row. *)
RowStep(k) ==
  \/ \E t \in Targets : ResumeAnswered(k, t)
  \/ Create(k) \/ RecordSubmitted(k) \/ RecordSucceeded(k)
  \/ RecordFailed(k) \/ RecordSkipped(k)

(* What the invariant says of one row. *)
LEMMA RowFacts ==
  ASSUME IInv, NEW t \in Targets
  PROVE  RowSound(t, actions[t])
BY DEF IInv, KTypeOK, HashesSound, RowSound

(* A row that moves to a status without a claim keeps its hash. *)
LEMMA UnclaimedRowSound ==
  ASSUME IInv, NEW t \in Targets, NEW s \in {"Pending", "Failed", "Skipped"}
  PROVE  RowSound(t, [actions[t] EXCEPT !.status = s])
<1>1. RowSound(t, actions[t])
  BY RowFacts
<1> QED
  BY <1>1 DEF RowSound, Rows, Statuses

(* A row may claim success with the hash of a success for its target. *)
LEMMA ClaimedRowSound ==
  ASSUME IInv, NEW t \in Targets, NEW s \in {"Submitted", "Succeeded"},
         NEW h, Succeeded(h, t), NEW n \in Nat
  PROVE  RowSound(t, [status |-> s, attempts |-> n, txHash |-> h])
<1>1. h \in Nat /\ h # 0
  BY DEF Succeeded, IInv, KTypeOK
<1> QED
  BY <1>1 DEF RowSound, Rows, Statuses

LEMMA SucceededRowSound ==
  ASSUME IInv, NEW t \in Targets, NEW h, Succeeded(h, t)
  PROVE  RowSound(t, [actions[t] EXCEPT !.status = "Succeeded", !.txHash = h])
<1>1. h \in Nat /\ h # 0
  BY DEF Succeeded, IInv, KTypeOK
<1>2. actions[t] \in Rows
  BY DEF IInv, KTypeOK
<1> QED
  BY <1>1, <1>2, ZenonT(30) DEF RowSound, Rows, Statuses

LEMMA RowStepKeepsInv ==
  ASSUME IInv, NEW k \in Keepers, RowStep(k)
  PROVE  IInv'
<1> DEFINE P == keeper[k]
<1>0. /\ P \in Processes
      /\ P.pc \in Working => P.cur \in Targets
      /\ P.pc \in {"submitted", "succeeded"} => Succeeded(P.tx, P.cur)
  BY ProcessFacts
<1>1. /\ P.todo \ {P.cur} \in SUBSET Targets
      /\ Sound(Between("check", P.todo \ {P.cur}))
  BY <1>0, BetweenSound DEF Processes
<1>p. ASSUME Proceed(k, "check")
      PROVE  Moves(k, Between("check", P.todo \ {P.cur}))
  BY <1>p DEF Proceed, Moves, Cur
<1>r. \A t \in Targets : actions[t] \in Rows
  BY DEF IInv, KTypeOK
<1>2. ASSUME NEW t \in Targets, ResumeAnswered(k, t) PROVE IInv'
  <2> DEFINE hash == actions[t].txHash
  <2>1. Sound([P EXCEPT !.todo = P.todo \ {t}])
    BY <1>2, <1>0 DEF Sound, Processes, Working, ResumeAnswered
  <2>2. Moves(k, [P EXCEPT !.todo = P.todo \ {t}])
    BY <1>2 DEF Moves, ResumeAnswered
  <2>3. UNCHANGED <<wall, ledger, chain, db, txs, account, dryRun>>
    BY <1>2 DEF ResumeAnswered, envVars
  <2>4. Succeeded(hash, t)
    <3>1. hash \in DOMAIN txs
      BY <1>2 DEF ResumeAnswered
    <3>2. hash # 0
      BY <3>1 DEF IInv, KTypeOK
    <3> QED
      BY <3>2 DEF IInv, HashesSound
  <2>5. CASE MarkSucceeded(t, hash)
    <3>1. actions' = [actions EXCEPT ![t] =
            [actions[t] EXCEPT !.status = "Succeeded", !.txHash = hash]]
      BY <2>5, ZenonT(30) DEF MarkSucceeded
    <3>2. RowSound(t, [actions[t] EXCEPT !.status = "Succeeded", !.txHash = hash])
      BY <2>4, SucceededRowSound, ZenonT(30)
    <3> QED
      BY <2>1, <2>2, <2>3, <3>1, <3>2, RowKeepsInv, ZenonT(30)
  <2>6. CASE MarkFailed(t)
    <3>1. actions' = [actions EXCEPT ![t] = [actions[t] EXCEPT !.status = "Failed"]]
      BY <2>6 DEF MarkFailed
    <3> QED
      BY <2>1, <2>2, <2>3, <3>1, UnclaimedRowSound, RowKeepsInv, ZenonT(30)
  <2> QED
    BY <1>2, <2>5, <2>6 DEF ResumeAnswered
<1>3. CASE Create(k)
  <2> DEFINE t == P.cur
             r == IF actions[t].status = "None" THEN [NoRow EXCEPT !.status = "Pending"]
                  ELSE actions[t]
  <2>1. t \in Targets
    BY <1>3, <1>0 DEF Create, Working
  <2>2. RowSound(t, r)
    <3>1. RowSound(t, [NoRow EXCEPT !.status = "Pending"])
      BY DEF RowSound, NoRow, Rows, Statuses
    <3> QED
      BY <2>1, <3>1, RowFacts
  <2>3. actions' = [actions EXCEPT ![t] = r]
    BY <1>3 DEF Create, CreateOrSkipAction, Cur
  <2>4. UNCHANGED <<wall, ledger, chain, db, txs, account, dryRun>>
    BY <1>3 DEF Create, envVars
  <2>5. ASSUME NEW p, Sound(p), Moves(k, p) PROVE IInv'
    <3> HIDE DEF r, t
    <3> QED
      BY <2>1, <2>2, <2>3, <2>4, <2>5, RowKeepsInv, ZenonT(30)
  <2>6. CASE Proceed(k, "check")
    BY <2>6, <1>p, <1>1, <2>5
  <2>7. CASE Goto(k, "build")
    <3>1. Sound([P EXCEPT !.pc = "build"])
      BY <2>1, <1>0 DEF Sound, Processes, Stages, Working
    <3>2. Moves(k, [P EXCEPT !.pc = "build"])
      BY <2>7 DEF Moves, Goto
    <3> QED
      BY <3>1, <3>2, <2>5
  <2> QED
    BY <1>3, <2>6, <2>7 DEF Create
<1>4. CASE RecordSubmitted(k)
  <2> DEFINE r == [status |-> "Submitted", attempts |-> actions[P.cur].attempts + 1,
                   txHash |-> P.tx]
  <2>0. P.cur \in Targets /\ Succeeded(P.tx, P.cur) /\ P.pc = "submitted"
    BY <1>4, <1>0 DEF RecordSubmitted, Working
  <2>1. RowSound(P.cur, r)
    <3>1. actions[P.cur].attempts + 1 \in Nat
      BY <2>0, <1>r DEF Rows
    <3> QED
      BY <2>0, <3>1, ClaimedRowSound
  <2>2. actions' = [actions EXCEPT ![P.cur] = r]
    BY <1>4 DEF RecordSubmitted, MarkSubmitted, Cur
  <2>3. Sound([P EXCEPT !.pc = "succeeded"])
    BY <2>0, <1>0 DEF Sound, Processes, Stages, Working
  <2>4. Moves(k, [P EXCEPT !.pc = "succeeded"])
    BY <1>4 DEF RecordSubmitted, Moves, Goto
  <2>5. UNCHANGED <<wall, ledger, chain, db, txs, account, dryRun>>
    BY <1>4 DEF RecordSubmitted, envVars
  <2> HIDE DEF r
  <2> QED
    BY <2>0, <2>1, <2>2, <2>3, <2>4, <2>5, RowKeepsInv, ZenonT(30)
<1>5. CASE RecordSucceeded(k)
  <2> DEFINE r == [actions[P.cur] EXCEPT !.status = "Succeeded", !.txHash = P.tx]
  <2>0. P.cur \in Targets /\ Succeeded(P.tx, P.cur)
    BY <1>5, <1>0 DEF RecordSucceeded, Working
  <2>1. RowSound(P.cur, r)
    BY <2>0, SucceededRowSound, ZenonT(30)
  <2>2. actions' = [actions EXCEPT ![P.cur] = r]
    BY <1>5, ZenonT(30) DEF RecordSucceeded, MarkSucceeded, Cur
  <2>3. Moves(k, Between("check", P.todo \ {P.cur}))
    BY <1>5, <1>p DEF RecordSucceeded
  <2>4. UNCHANGED <<wall, ledger, chain, db, txs, account, dryRun>>
    BY <1>5 DEF RecordSucceeded, envVars
  <2> HIDE DEF r
  <2> QED
    BY <2>0, <2>1, <2>2, <2>3, <2>4, <1>1, RowKeepsInv, ZenonT(30)
<1>6. ASSUME NEW s \in {"Failed", "Skipped"}, P.cur \in Targets,
             actions' = [actions EXCEPT ![P.cur].status = s], Proceed(k, "check"),
             UNCHANGED <<wall, ledger, chain, db, txs, account, dryRun>>
      PROVE  IInv'
  <2>1. actions' = [actions EXCEPT ![P.cur] = [actions[P.cur] EXCEPT !.status = s]]
    BY <1>6
  <2> QED
    BY <1>6, <2>1, <1>1, <1>p, UnclaimedRowSound, RowKeepsInv, ZenonT(30)
<1>7. CASE RecordFailed(k)
  <2>1. P.cur \in Targets
    BY <1>7, <1>0 DEF RecordFailed, Working
  <2> QED
    BY <1>7, <2>1, <1>6 DEF RecordFailed, MarkFailed, Cur, envVars
<1>8. CASE RecordSkipped(k)
  <2>1. P.cur \in Targets
    BY <1>8, <1>0 DEF RecordSkipped, Working
  <2> QED
    BY <1>8, <2>1, <1>6 DEF RecordSkipped, MarkSkipped, Cur, envVars
<1> QED
  BY <1>2, <1>3, <1>4, <1>5, <1>7, <1>8 DEF RowStep

----------------------------------------------------------------------------
(* Steps of the network: transactions are added, or included *)

(* StagesSound, for one process. *)
StageSound(k) ==
  /\ keeper[k].pc \in Working => keeper[k].cur \in Targets
  /\ keeper[k].pc = "poll" =>
       keeper[k].tx \in DOMAIN txs /\ txs[keeper[k].tx].target = keeper[k].cur
  /\ keeper[k].pc \in {"submitted", "succeeded"} =>
       Succeeded(keeper[k].tx, keeper[k].cur)

(* No transaction goes away, changes its target or loses its success. *)
TxsGrow ==
  \A i \in DOMAIN txs :
    /\ i \in DOMAIN txs' /\ txs'[i].target = txs[i].target
    /\ txs[i].status = "success" => txs'[i].status = "success"

LEMMA NetworkKeepsInv ==
  ASSUME IInv, KTypeOK', SuccessCloses', TxsGrow, UNCHANGED actions,
         \A j \in Keepers : keeper'[j] = keeper[j] \/ StageSound(j)'
  PROVE  IInv'
<1>1. ASSUME NEW h, NEW t, Succeeded(h, t) PROVE Succeeded(h, t)'
  BY <1>1 DEF Succeeded, TxsGrow
<1>2. HashesSound'
  BY <1>1 DEF IInv, HashesSound
<1>3. ASSUME NEW j \in Keepers PROVE StageSound(j)'
  <2>1. StageSound(j)
    BY DEF IInv, StagesSound, StageSound
  <2>2. CASE keeper'[j] = keeper[j]
    BY <2>1, <2>2, <1>1 DEF StageSound, TxsGrow
  <2> QED
    BY <2>2
<1>4. StagesSound'
  BY <1>3 DEF StageSound, StagesSound
<1> QED
  BY <1>2, <1>4 DEF IInv

(* What appending a transaction does to the sequence. *)
LEMMA AppendGrows ==
  ASSUME IInv, NEW x \in Transactions, x.status # "success", txs' = Append(txs, x),
         UNCHANGED chain
  PROVE  /\ TxsGrow /\ SuccessCloses'
         /\ txs' \in Seq(Transactions)
         /\ Len(txs) + 1 \in DOMAIN txs' /\ txs'[Len(txs) + 1] = x
         /\ Len(txs) + 1 \in Nat
<1>1. txs \in Seq(Transactions) /\ Len(txs) \in Nat /\ DOMAIN txs = 1..Len(txs)
  BY DEF IInv, KTypeOK
<1>2. txs' \in Seq(Transactions) /\ DOMAIN txs' = 1..(Len(txs) + 1)
  BY <1>1
<1>3. txs'[Len(txs) + 1] = x /\ \A i \in DOMAIN txs : txs'[i] = txs[i]
  BY <1>1
<1>4. \A i \in DOMAIN txs' : i \in DOMAIN txs \/ i = Len(txs) + 1
  BY <1>1, <1>2
<1>5. TxsGrow
  BY <1>1, <1>2, <1>3 DEF TxsGrow
<1>6. SuccessCloses'
  BY <1>3, <1>4 DEF IInv, SuccessCloses
<1> QED
  BY <1>1, <1>2, <1>3, <1>5, <1>6

LEMMA SendKeepsInv ==
  ASSUME IInv, NEW k \in Keepers, Send(k) \/ SendFails(k)
  PROVE  IInv'
<1> DEFINE P == keeper[k]
<1>0. P \in Processes /\ P.cur \in Targets /\ P.pc = "send"
  BY ProcessFacts DEF Send, SendFails, Working
<1>1. keeper \in [Keepers -> Processes]
  BY DEF IInv, KTypeOK
<1>2. UNCHANGED <<wall, ledger, chain, db, actions, account, dryRun>>
  BY DEF Send, SendFails, envVars
<1>3. \A s \in {"pool", "lost"} :
        [target |-> P.cur, seq |-> P.seq, status |-> s] \in Transactions
  BY <1>0 DEF Processes, Transactions
<1>4. CASE Send(k)
  <2>1. PICK s \in {"pool", "lost"} :
          txs' = Append(txs, [target |-> P.cur, seq |-> P.seq, status |-> s])
    BY <1>4 DEF Send, Cur
  <2>2. PICK x \in Transactions :
          x.status # "success" /\ x.target = P.cur /\ txs' = Append(txs, x)
    BY <2>1, <1>3
  <2>3. /\ TxsGrow /\ SuccessCloses'
        /\ txs' \in Seq(Transactions)
        /\ Len(txs) + 1 \in DOMAIN txs' /\ txs'[Len(txs) + 1] = x
        /\ Len(txs) + 1 \in Nat
    BY <2>2, <1>2, AppendGrows
  <2>4. keeper' = [keeper EXCEPT ![k] = [P EXCEPT !.pc = "poll", !.tx = Len(txs) + 1]]
    BY <1>4, ZenonT(30) DEF Send
  <2>5. [P EXCEPT !.pc = "poll", !.tx = Len(txs) + 1] \in Processes
    BY <1>0, <2>3, ZenonT(30) DEF Processes, Stages
  <2>6. KTypeOK'
    <3>1. keeper' \in [Keepers -> Processes]
      BY <2>4, <2>5, <1>1
    <3> QED
      BY <3>1, <1>2, <2>3 DEF IInv, KTypeOK
  <2>7. \A j \in Keepers : j # k => keeper'[j] = keeper[j]
    BY <2>4, <1>1
  <2>8. keeper'[k].pc = "poll" /\ keeper'[k].tx = Len(txs) + 1 /\ keeper'[k].cur = P.cur
    BY <2>4, <1>0, <1>1 DEF Processes
  <2>9. StageSound(k)'
    BY <2>2, <2>3, <2>8, <1>0 DEF StageSound
  <2> QED
    BY <2>3, <2>6, <2>7, <2>9, <1>2, NetworkKeepsInv
<1>5. CASE SendFails(k)
  <2>1. PICK stage \in {"failed", "skipped"} :
          keeper' = [keeper EXCEPT ![k] = [P EXCEPT !.pc = stage]]
    BY <1>5 DEF SendFails, Goto
  <2>2. keeper' \in [Keepers -> Processes]
    <3>1. [P EXCEPT !.pc = stage] \in Processes
      BY <1>0 DEF Processes, Stages
    <3> QED
      BY <2>1, <3>1, <1>1
  <2>3. keeper'[k].pc = stage /\ keeper'[k].cur = P.cur
    BY <2>1, <1>0, <1>1 DEF Processes
  <2>4. StageSound(k)'
    BY <2>1, <2>3, <1>0 DEF StageSound
  <2>5. \A j \in Keepers : j # k => keeper'[j] = keeper[j]
    BY <2>1, <1>1
  <2>6. TxsGrow /\ SuccessCloses' /\ txs' \in Seq(Transactions)
    <3>1. CASE UNCHANGED txs
      BY <3>1, <1>2 DEF IInv, KTypeOK, SuccessCloses, TxsGrow
    <3>2. CASE ~UNCHANGED txs
      <4>1. txs' = Append(txs, [target |-> P.cur, seq |-> P.seq, status |-> "pool"])
        BY <3>2, <1>5 DEF SendFails, Cur
      <4>2. PICK x \in Transactions : x.status # "success" /\ txs' = Append(txs, x)
        BY <4>1, <1>3
      <4> QED
        BY <4>2, <1>2, AppendGrows
    <3> QED
      BY <3>1, <3>2
  <2>7. KTypeOK'
    BY <2>2, <2>6, <1>2 DEF IInv, KTypeOK
  <2> QED
    BY <2>4, <2>5, <2>6, <2>7, <1>2, NetworkKeepsInv
<1> QED
  BY <1>4, <1>5

(* Including a transaction as a success closes its target, and nothing opens *)
(* a target again.                                                           *)
LEMMA IncludeKeepsInv ==
  ASSUME IInv, NEW i \in DOMAIN txs, Include(i)
  PROVE  IInv'
<1> DEFINE t == txs[i].target
<1>1. /\ txs \in Seq(Transactions) /\ txs[i] \in Transactions
      /\ t \in Targets /\ chain \in [Targets -> TargetStates]
  <2>1. txs \in Seq(Transactions) /\ chain \in [Targets -> TargetStates]
    BY DEF IInv, KTypeOK
  <2>2. txs[i] \in Transactions
    BY <2>1
  <2> QED
    BY <2>1, <2>2 DEF Transactions
<1>2. UNCHANGED <<wall, ledger, db, actions, keeper, dryRun>> /\ account' \in Nat
  BY DEF Include, IInv, KTypeOK
<1>3. ASSUME NEW s \in {"success", "failed"},
             txs' = [txs EXCEPT ![i] = [txs[i] EXCEPT !.status = s]]
      PROVE  /\ txs' \in Seq(Transactions) /\ DOMAIN txs' = DOMAIN txs
             /\ \A j \in DOMAIN txs : txs'[j].target = txs[j].target
             /\ \A j \in DOMAIN txs : j # i => txs'[j] = txs[j]
             /\ txs'[i].status = s
  <2>1. [txs[i] EXCEPT !.status = s] \in Transactions
    BY <1>1 DEF Transactions
  <2>2. txs' \in Seq(Transactions) /\ DOMAIN txs' = DOMAIN txs
    BY <1>1, <1>3, <2>1
  <2>3. \A j \in DOMAIN txs : j # i => txs'[j] = txs[j]
    BY <1>3
  <2>4. txs'[i] = [txs[i] EXCEPT !.status = s]
    BY <1>3
  <2>5. txs'[i].target = txs[i].target /\ txs'[i].status = s
    BY <2>4, <1>1 DEF Transactions
  <2> QED
    BY <2>2, <2>3, <2>5
<1>4. txs[i].status = "pool"
  BY DEF Include
<1>5. CASE /\ txs' = [txs EXCEPT ![i].status = "success"]
           /\ chain' = [chain EXCEPT ![t].open = FALSE]
  <2>1. /\ txs' = [txs EXCEPT ![i] = [txs[i] EXCEPT !.status = "success"]]
        /\ chain' = [chain EXCEPT ![t] = [chain[t] EXCEPT !.open = FALSE]]
    BY <1>5
  <2>2. /\ txs' \in Seq(Transactions) /\ DOMAIN txs' = DOMAIN txs
        /\ \A j \in DOMAIN txs : txs'[j].target = txs[j].target
        /\ \A j \in DOMAIN txs : j # i => txs'[j] = txs[j]
        /\ txs'[i].status = "success"
    BY <2>1, <1>3, ZenonT(30)
  <2>3. [chain[t] EXCEPT !.open = FALSE] \in TargetStates
    BY <1>1, ZenonT(30) DEF TargetStates
  <2>4. chain' \in [Targets -> TargetStates]
    BY <2>1, <2>3, <1>1
  <2>5. ~chain'[t].open /\ \A u \in Targets : ~chain[u].open => ~chain'[u].open
    BY <2>1, <1>1 DEF TargetStates
  <2>6. KTypeOK'
    BY <2>2, <2>4, <1>2 DEF IInv, KTypeOK
  <2>7. TxsGrow
    BY <2>2 DEF TxsGrow
  <2>8. SuccessCloses'
    <3> SUFFICES ASSUME NEW j \in DOMAIN txs, txs'[j].status = "success"
                 PROVE  ~chain'[txs'[j].target].open
      BY <2>2 DEF SuccessCloses
    <3>0. txs[j] \in Transactions
      BY <1>1
    <3>1. txs[j].target \in Targets
      BY <3>0 DEF Transactions
    <3>2. CASE j = i
      BY <3>2, <2>2, <2>5
    <3>3. CASE j # i
      BY <3>1, <3>3, <2>2, <2>5 DEF IInv, SuccessCloses
    <3> QED
      BY <3>2, <3>3
  <2> QED
    BY <2>6, <2>7, <2>8, <1>2, NetworkKeepsInv
<1>6. CASE txs' = [txs EXCEPT ![i].status = "failed"] /\ UNCHANGED chain
  <2>1. txs' = [txs EXCEPT ![i] = [txs[i] EXCEPT !.status = "failed"]] /\ UNCHANGED chain
    BY <1>6
  <2>2. /\ txs' \in Seq(Transactions) /\ DOMAIN txs' = DOMAIN txs
        /\ \A j \in DOMAIN txs : txs'[j].target = txs[j].target
        /\ \A j \in DOMAIN txs : j # i => txs'[j] = txs[j]
        /\ txs'[i].status = "failed"
    BY <2>1, <1>3, ZenonT(30)
  <2>3. KTypeOK'
    BY <2>1, <2>2, <1>2 DEF IInv, KTypeOK
  <2>4. TxsGrow
    BY <2>2, <1>4 DEF TxsGrow
  <2>5. SuccessCloses'
    BY <2>1, <2>2 DEF IInv, SuccessCloses
  <2> QED
    BY <2>3, <2>4, <2>5, <1>2, NetworkKeepsInv
<1> QED
  BY <1>5, <1>6, Zenon DEF Include

(* The steps of the clocks, of other users and of the indexer. *)
LEMMA OutsideKeepsInv ==
  ASSUME IInv, UNCHANGED <<actions, txs, account, keeper, dryRun>>,
         \/ TickWall \/ TickLedger
         \/ \E t \in Targets : Extend(t) \/ CloseElsewhere(t) \/ Index(t)
  PROVE  IInv'
<1> USE KeeperAssumption
<1>0. /\ chain \in [Targets -> TargetStates] /\ db \in [Targets -> TargetStates]
      /\ txs \in Seq(Transactions)
      /\ wall \in 0..MaxTime /\ ledger \in 0..wall
  BY DEF IInv, KTypeOK
<1>1. /\ chain' \in [Targets -> TargetStates] /\ db' \in [Targets -> TargetStates]
      /\ wall' \in 0..MaxTime /\ ledger' \in 0..wall'
      /\ \A u \in Targets : ~chain[u].open => ~chain'[u].open
  <2>1. CASE TickWall
    BY <2>1, <1>0 DEF TickWall
  <2>2. CASE TickLedger
    BY <2>2, <1>0 DEF TickLedger
  <2>3. ASSUME NEW t \in Targets, Extend(t)
        PROVE  /\ chain' \in [Targets -> TargetStates] /\ UNCHANGED <<wall, ledger, db>>
               /\ \A u \in Targets : ~chain[u].open => ~chain'[u].open
    <3>1. chain' = [chain EXCEPT ![t] = [chain[t] EXCEPT !.deadline = chain[t].deadline + 1]]
      BY <2>3 DEF Extend
    <3>0. chain[t] \in TargetStates
      BY <1>0
    <3>a. chain[t].deadline + 1 \in 0..(MaxTime + 1)
      BY <2>3, <3>0 DEF Extend, TargetStates
    <3>2. [chain[t] EXCEPT !.deadline = chain[t].deadline + 1] \in TargetStates
      BY <3>0, <3>a DEF TargetStates
    <3> QED
      BY <2>3, <3>1, <3>2, <1>0 DEF Extend, TargetStates
  <2>4. ASSUME NEW t \in Targets, CloseElsewhere(t)
        PROVE  /\ chain' \in [Targets -> TargetStates] /\ UNCHANGED <<wall, ledger, db>>
               /\ \A u \in Targets : ~chain[u].open => ~chain'[u].open
    <3>1. chain' = [chain EXCEPT ![t] = [chain[t] EXCEPT !.open = FALSE]]
      BY <2>4 DEF CloseElsewhere
    <3>2. [chain[t] EXCEPT !.open = FALSE] \in TargetStates
      BY <1>0, ZenonT(30) DEF TargetStates
    <3> QED
      BY <2>4, <3>1, <3>2, <1>0 DEF CloseElsewhere, TargetStates
  <2>5. ASSUME NEW t \in Targets, Index(t)
        PROVE  db' \in [Targets -> TargetStates] /\ UNCHANGED <<wall, ledger, chain>>
    BY <2>5, <1>0 DEF Index
  <2> QED
    BY <2>1, <2>2, <2>3, <2>4, <2>5, <1>0
<1>2. KTypeOK'
  BY <1>1 DEF IInv, KTypeOK
<1>3. SuccessCloses'
  <2>0. \A i \in DOMAIN txs : txs[i] \in Transactions
    BY <1>0
  <2>1. \A i \in DOMAIN txs : txs[i].target \in Targets
    BY <2>0 DEF Transactions
  <2> QED
    BY <2>1, <1>1 DEF IInv, SuccessCloses
<1> QED
  BY <1>2, <1>3, NetworkKeepsInv DEF TxsGrow

LEMMA NextKeepsInv ==
  ASSUME IInv, [Next]_vars
  PROVE  IInv'
<1>1. ASSUME NEW k \in Keepers, StartCycle(k) \/ CycleStep(k) \/ Crash(k)
      PROVE  IInv'
  <2>1. QuietStep(k) \/ RowStep(k) \/ Send(k) \/ SendFails(k)
    BY <1>1 DEF CycleStep, QuietStep, RowStep
  <2> QED
    BY <2>1, QuietKeepsInv, RowStepKeepsInv, SendKeepsInv
<1>2. CASE Environment
  <2>1. CASE \E i \in DOMAIN txs : Include(i)
    BY <2>1, IncludeKeepsInv
  <2>2. CASE \/ TickWall \/ TickLedger
             \/ \E t \in Targets : Extend(t) \/ CloseElsewhere(t) \/ Index(t)
    <3>1. UNCHANGED <<actions, txs, account, keeper, dryRun>>
      BY <2>2 DEF TickWall, TickLedger, Extend, CloseElsewhere, Index
    <3> QED
      BY <2>2, <3>1, OutsideKeepsInv
  <2> QED
    BY <1>2, <2>1, <2>2 DEF Environment
<1>3. CASE UNCHANGED vars
  BY <1>3 DEF vars, IInv, KTypeOK, SuccessCloses, HashesSound, StagesSound, Succeeded
<1> QED
  BY <1>1, <1>2, <1>3 DEF Next

(* The keeper's inductive invariant holds in every reachable state. *)
THEOREM Invariance == Spec => []IInv
BY InvInit, NextKeepsInv, PTL DEF Spec

(* Whatever the number of keeper processes, targets and retries, the state *)
(* keeps its types; in particular the fee of one submission is bumped at   *)
(* most MaxBumps times (executeTransaction).                               *)
THEOREM KeeperTypeCorrect == Spec => []KTypeOK
BY Invariance, PTL DEF IInv

(* Whatever the number of keeper processes sharing the account and the rows, *)
(* a row says Submitted or Succeeded only with the hash of a transaction for *)
(* its target that succeeded and closed it (markSubmitted, markSucceeded and *)
(* resumeSubmittedActions, with crashes at every await).                     *)
THEOREM RecordsCorrect == Spec => []RecordsTellChain
<1>1. IInv => RecordsTellChain
  <2> SUFFICES ASSUME IInv, NEW t \in Targets,
                      actions[t].status \in {"Submitted", "Succeeded"}
               PROVE  /\ Succeeded(actions[t].txHash, t)
                      /\ ~chain[t].open
    BY DEF RecordsTellChain, Succeeded
  <2>1. Succeeded(actions[t].txHash, t)
    BY DEF IInv, HashesSound
  <2> QED
    BY <2>1 DEF IInv, SuccessCloses, Succeeded
<1> QED
  BY <1>1, Invariance, PTL

----------------------------------------------------------------------------
(* One keeper process: finished targets are left alone *)

OneKeeper == \A j, k \in Keepers : j = k

Finished == {"Submitted", "Succeeded", "Skipped"}

(* From the idempotency check to the record of the outcome, the row of the   *)
(* current target is not finished: nobody else writes rows.                  *)
OpenRow(k) ==
  /\ keeper[k].pc \in Working \ {"succeeded"} =>
       actions[keeper[k].cur].status \notin Finished
  /\ keeper[k].pc = "succeeded" => actions[keeper[k].cur].status = "Submitted"
  /\ keeper[k].pc = "resume" =>
       \A t \in keeper[k].todo : actions[t].status = "Submitted"

OpenRows == \A k \in Keepers : OpenRow(k)

(* A process that has just been moved to p, as OpenRow sees it. *)
OpenAt(p, rows) ==
  /\ p.pc \in Working \ {"succeeded"} => rows[p.cur].status \notin Finished
  /\ p.pc = "succeeded" => rows[p.cur].status = "Submitted"
  /\ p.pc = "resume" => \A t \in p.todo : rows[t].status = "Submitted"

LEMMA OpenMove ==
  ASSUME OneKeeper, IInv, NEW k \in Keepers, NEW p, Moves(k, p), OpenAt(p, actions')
  PROVE  OpenRows'
<1>1. keeper'[k] = p
  BY DEF Moves, IInv, KTypeOK
<1>2. \A j \in Keepers : j = k
  BY DEF OneKeeper
<1> QED
  BY <1>1, <1>2 DEF OpenRows, OpenRow, OpenAt

LEMMA OpenBetween ==
  ASSUME NEW S, NEW rows, NEW stage \in {"idle", "check"}
  PROVE  OpenAt(Between(stage, S), rows)
BY DEF OpenAt, Between, Working

(* The steps that write no row: the process stays on its target, takes one *)
(* whose row is open, or takes none.                                       *)
LEMMA QuietKeepsOpen ==
  ASSUME OneKeeper, IInv, OpenRows, NEW k \in Keepers, UNCHANGED actions,
         QuietStep(k) \/ Send(k) \/ SendFails(k)
  PROVE  OpenRows'
<1> DEFINE P == keeper[k]
<1>0. /\ P \in Processes /\ OpenRow(k)
      /\ P.pc \in Working => P.cur \in Targets
  BY ProcessFacts DEF OpenRows
<1>a. ASSUME NEW p, Moves(k, p), OpenAt(p, actions) PROVE OpenRows'
  BY <1>a, OpenMove
<1>s. ASSUME NEW p \in Processes, Moves(k, p), p.cur = P.cur,
             P.pc \in Working \ {"succeeded"}, p.pc \in Working \ {"succeeded"}
      PROVE  OpenRows'
  <2>1. OpenAt(p, actions)
    BY <1>s, <1>0 DEF OpenAt, OpenRow, Working
  <2> QED
    BY <1>s, <2>1, <1>a
<1>g. ASSUME NEW stage \in Working \ {"succeeded"}, Goto(k, stage),
             P.pc \in Working \ {"succeeded"}
      PROVE  OpenRows'
  <2>1. [P EXCEPT !.pc = stage] \in Processes
    BY <1>0, <1>g DEF Processes, Stages, Working
  <2>2. Moves(k, [P EXCEPT !.pc = stage])
    BY <1>g DEF Moves, Goto
  <2>3. [P EXCEPT !.pc = stage].cur = P.cur /\ [P EXCEPT !.pc = stage].pc = stage
    BY <1>0 DEF Processes
  <2> QED
    BY <2>1, <2>2, <2>3, <1>s, <1>g, ZenonT(30)
<1>p. ASSUME Proceed(k, "check") PROVE OpenRows'
  BY <1>p, <1>a, OpenBetween, ZenonT(30) DEF Proceed, Moves
<1>t. ASSUME NEW t \in Targets, keeper' = [keeper EXCEPT ![k].todo = @ \ {t}],
             P.pc \in {"resume", "check"}
      PROVE  OpenRows'
  <2>1. OpenAt([P EXCEPT !.todo = P.todo \ {t}], actions)
    BY <1>t, <1>0 DEF OpenAt, OpenRow, Processes, Working
  <2>2. Moves(k, [P EXCEPT !.todo = P.todo \ {t}])
    BY <1>t DEF Moves
  <2> QED
    BY <2>1, <2>2, <1>a
<1>1. CASE StartCycle(k)
  <2> DEFINE S == {t \in Targets : actions[t].status = "Submitted"}
  <2>1. OpenAt(Between("resume", S), actions)
    BY DEF OpenAt, Between, Working
  <2> QED
    BY <1>1, <2>1, <1>a DEF StartCycle, Moves
<1>2. CASE Crash(k)
  BY <1>2, <1>a, OpenBetween, ZenonT(30) DEF Crash, Idle, Moves
<1>3. CASE Discover(k)
  BY <1>3, <1>a, OpenBetween, ZenonT(30) DEF Discover, Moves
<1>4. CASE EndCycle(k)
  <2>1. OpenAt([P EXCEPT !.pc = "idle"], actions)
    BY <1>0 DEF OpenAt, Processes, Working
  <2>2. Moves(k, [P EXCEPT !.pc = "idle"])
    BY <1>4 DEF Moves, EndCycle, Goto
  <2> QED
    BY <2>1, <2>2, <1>a
<1>5. ASSUME NEW t \in Targets, ResumeUnanswered(k, t) PROVE OpenRows'
  BY <1>5, <1>t, ZenonT(30) DEF ResumeUnanswered
<1>6. ASSUME NEW t \in Targets, CheckAction(k, t) PROVE OpenRows'
  <2>1. CASE Eligible(t)
    <3>1. actions[t].status \notin Finished
      BY <2>1 DEF Eligible, Finished
    <3>2. OpenAt([P EXCEPT !.pc = "create", !.cur = t], actions)
      BY <1>0, <3>1 DEF OpenAt, Processes
    <3>3. Moves(k, [P EXCEPT !.pc = "create", !.cur = t])
      BY <1>6, <2>1, ZenonT(30) DEF Moves, CheckAction
    <3> QED
      BY <3>2, <3>3, <1>a
  <2>2. CASE ~Eligible(t)
    BY <1>6, <2>2, <1>t DEF CheckAction
  <2> QED
    BY <2>1, <2>2
<1>7. CASE Simulate(k)
  <2>0. P.pc \in Working \ {"succeeded"}
    BY <1>7 DEF Simulate, Working
  <2>1. CASE Goto(k, "skipped")
    BY <2>0, <2>1, <1>g DEF Working
  <2>2. CASE Proceed(k, "check")
    BY <2>2, <1>p
  <2>3. CASE keeper' = [keeper EXCEPT ![k].pc = "send", ![k].seq = account + 1]
    <3> DEFINE p == [P EXCEPT !.pc = "send", !.seq = account + 1]
    <3>1. account + 1 \in Nat
      BY DEF IInv, KTypeOK
    <3>2. p \in Processes /\ p.cur = P.cur /\ p.pc = "send"
      BY <1>0, <3>1, ZenonT(30) DEF Processes, Stages
    <3>3. Moves(k, p)
      BY <2>3, ZenonT(30) DEF Moves
    <3> HIDE DEF p
    <3> QED
      BY <3>2, <3>3, <2>0, <1>s DEF Working
  <2> QED
    BY <1>7, <2>1, <2>2, <2>3 DEF Simulate
<1>8. CASE BuildFails(k)
  BY <1>8, <1>g, <1>p DEF BuildFails, Working
<1>9. CASE SendCollides(k)
  BY <1>9, <1>g DEF SendCollides, Working
<1>10. CASE PollAnswered(k)
  BY <1>10, <1>g DEF PollAnswered, Working
<1>11. CASE PollTimesOut(k)
  <2>0. P.pc \in Working \ {"succeeded"}
    BY <1>11 DEF PollTimesOut, Working
  <2>1. CASE P.bump < MaxBumps
    <3> DEFINE p == [P EXCEPT !.pc = "send", !.bump = P.bump + 1]
    <3>1. P.bump + 1 \in 0..MaxBumps
      BY <1>0, <2>1, KeeperAssumption DEF Processes
    <3>2. p \in Processes /\ p.cur = P.cur /\ p.pc = "send"
      BY <1>0, <3>1, ZenonT(30) DEF Processes, Stages
    <3>3. Moves(k, p)
      BY <1>11, <2>1, ZenonT(30) DEF Moves, PollTimesOut
    <3> HIDE DEF p
    <3> QED
      BY <3>2, <3>3, <2>0, <1>s DEF Working
  <2>2. CASE Goto(k, "failed")
    BY <2>0, <2>2, <1>g DEF Working
  <2> QED
    BY <1>11, <2>1, <2>2 DEF PollTimesOut
<1>12. CASE Send(k)
  <2> DEFINE p == [P EXCEPT !.pc = "poll", !.tx = Len(txs) + 1]
  <2>0. P.pc \in Working \ {"succeeded"}
    BY <1>12 DEF Send, Working
  <2>1. Len(txs) + 1 \in Nat
    BY DEF IInv, KTypeOK
  <2>2. p \in Processes /\ p.cur = P.cur /\ p.pc = "poll"
    BY <1>0, <2>1, ZenonT(30) DEF Processes, Stages
  <2>3. Moves(k, p)
    BY <1>12, ZenonT(30) DEF Moves, Send
  <2> HIDE DEF p
  <2> QED
    BY <2>0, <2>2, <2>3, <1>s DEF Working
<1>13. CASE SendFails(k)
  BY <1>13, <1>g DEF SendFails, Working
<1> QED
  BY <1>1, <1>2, <1>3, <1>4, <1>5, <1>6, <1>7, <1>8, <1>9, <1>10, <1>11,
     <1>12, <1>13 DEF QuietStep

(* A step that writes a row writes that of a target that is not finished, or *)
(* is only Submitted.                                                        *)
LEMMA RowStepKeepsOpen ==
  ASSUME OneKeeper, IInv, OpenRows, NEW k \in Keepers, RowStep(k)
  PROVE  /\ OpenRows'
         /\ \A t \in Targets :
              actions[t].status \in {"Succeeded", "Skipped"} => actions'[t] = actions[t]
<1> DEFINE P == keeper[k]
           Kept == \A t \in Targets :
              actions[t].status \in {"Succeeded", "Skipped"} => actions'[t] = actions[t]
<1>0. /\ P \in Processes /\ OpenRow(k)
      /\ P.pc \in Working => P.cur \in Targets
  BY ProcessFacts DEF OpenRows
<1>1. actions \in [Targets -> Rows]
  BY DEF IInv, KTypeOK
<1>p. ASSUME Proceed(k, "check") PROVE OpenRows'
  BY <1>p, OpenMove, OpenBetween, ZenonT(30) DEF Proceed, Moves
<1>r. ASSUME NEW t \in Targets, NEW r, actions' = [actions EXCEPT ![t] = r],
             actions[t].status \notin {"Succeeded", "Skipped"}
      PROVE  Kept
  BY <1>r, <1>1
<1>2. ASSUME NEW t \in Targets, ResumeAnswered(k, t) PROVE OpenRows' /\ Kept
  <2>1. actions[t].status = "Submitted"
    BY <1>2, <1>0 DEF ResumeAnswered, OpenRow
  <2>2. PICK r : actions' = [actions EXCEPT ![t] = r]
    BY <1>2 DEF ResumeAnswered, MarkSucceeded, MarkFailed
  <2>3. Moves(k, [P EXCEPT !.todo = P.todo \ {t}])
    BY <1>2 DEF Moves, ResumeAnswered
  <2>4. \A u \in P.todo \ {t} : actions'[u].status = "Submitted"
    BY <1>2, <1>0, <2>2, <1>1 DEF ResumeAnswered, OpenRow, Processes
  <2>5. OpenAt([P EXCEPT !.todo = P.todo \ {t}], actions')
    BY <1>2, <1>0, <2>4 DEF OpenAt, Processes, Working, ResumeAnswered
  <2> QED
    BY <2>1, <2>2, <2>3, <2>5, <1>r, OpenMove, ZenonT(30)
<1>3. CASE Create(k)
  <2>0. P.cur \in Targets /\ actions[P.cur].status \notin Finished
    BY <1>3, <1>0 DEF Create, OpenRow, Working
  <2>1. PICK r : /\ actions' = [actions EXCEPT ![P.cur] = r]
                 /\ r = [NoRow EXCEPT !.status = "Pending"] \/ r = actions[P.cur]
    BY <1>3, ZenonT(30) DEF Create, CreateOrSkipAction, Cur
  <2>2. r.status \notin Finished
    BY <2>0, <2>1 DEF NoRow, Finished
  <2>3. Kept
    BY <2>0, <2>1, <1>r DEF Finished
  <2>4. Goto(k, "build")
    BY <1>3, <2>0 DEF Create, Cur, Finished
  <2>5. actions'[P.cur].status \notin Finished
    BY <2>0, <2>1, <2>2, <1>1
  <2>6. OpenAt([P EXCEPT !.pc = "build"], actions')
    BY <2>5, <1>0 DEF OpenAt, Processes
  <2>7. Moves(k, [P EXCEPT !.pc = "build"])
    BY <2>4 DEF Moves, Goto
  <2> QED
    BY <2>3, <2>6, <2>7, OpenMove
<1>4. CASE RecordSubmitted(k)
  <2>0. P.cur \in Targets /\ actions[P.cur].status \notin Finished
    BY <1>4, <1>0 DEF RecordSubmitted, OpenRow, Working
  <2> DEFINE r == [status |-> "Submitted", attempts |-> actions[P.cur].attempts + 1,
                   txHash |-> P.tx]
  <2>1. actions' = [actions EXCEPT ![P.cur] = r] /\ r.status = "Submitted"
    BY <1>4 DEF RecordSubmitted, MarkSubmitted, Cur
  <2> HIDE DEF r
  <2>2. Kept
    BY <2>0, <2>1, <1>r DEF Finished
  <2>3. actions'[P.cur].status = "Submitted"
    BY <2>0, <2>1, <1>1
  <2>4. OpenAt([P EXCEPT !.pc = "succeeded"], actions')
    BY <2>3, <1>0 DEF OpenAt, Processes
  <2>5. Moves(k, [P EXCEPT !.pc = "succeeded"])
    BY <1>4 DEF RecordSubmitted, Moves, Goto
  <2> QED
    BY <2>2, <2>4, <2>5, OpenMove
<1>5. CASE RecordSucceeded(k) \/ RecordFailed(k) \/ RecordSkipped(k)
  <2>0. P.cur \in Targets /\ actions[P.cur].status \notin {"Succeeded", "Skipped"}
    BY <1>5, <1>0 DEF RecordSucceeded, RecordFailed, RecordSkipped, OpenRow, Working, Finished
  <2>1. PICK r : actions' = [actions EXCEPT ![P.cur] = r]
    BY <1>5 DEF RecordSucceeded, RecordFailed, RecordSkipped,
                MarkSucceeded, MarkFailed, MarkSkipped, Cur
  <2>2. Proceed(k, "check")
    BY <1>5 DEF RecordSucceeded, RecordFailed, RecordSkipped
  <2> QED
    BY <2>0, <2>1, <2>2, <1>r, <1>p
<1> QED
  BY <1>2, <1>3, <1>4, <1>5 DEF RowStep

(* A transaction is signed only for a target whose row is open. *)
LEMMA SendLeavesAlone ==
  ASSUME IInv, OpenRows, NEW k \in Keepers, Send(k) \/ SendFails(k)
  PROVE  FinishedLeftAlone
<1> DEFINE P == keeper[k]
<1>1. P.pc = "send" /\ OpenRow(k) /\ UNCHANGED actions
  BY DEF OpenRows, Send, SendFails
<1>2. actions[P.cur].status \notin Finished
  BY <1>1 DEF OpenRow, Working
<1>3. txs \in Seq(Transactions)
  BY DEF IInv, KTypeOK
<1>4. UNCHANGED txs \/ \E x : txs' = Append(txs, x) /\ x.target = P.cur
  BY DEF Send, SendFails, Cur
<1>5. CASE UNCHANGED txs
  BY <1>5, <1>1, <1>3 DEF FinishedLeftAlone
<1>6. ASSUME NEW x, txs' = Append(txs, x), x.target = P.cur
      PROVE  FinishedLeftAlone
  <2>1. Len(txs') = Len(txs) + 1 /\ txs'[Len(txs) + 1] = x
    BY <1>3, <1>6
  <2> QED
    BY <2>1, <1>1, <1>2, <1>6 DEF FinishedLeftAlone, Finished
<1> QED
  BY <1>4, <1>5, <1>6

LEMMA OneKeeperStep ==
  ASSUME OneKeeper, IInv, OpenRows, [Next]_vars
  PROVE  OpenRows' /\ [FinishedLeftAlone]_vars
<1>0. txs \in Seq(Transactions) /\ Len(txs) \in Nat
  BY DEF IInv, KTypeOK
<1>q. ASSUME UNCHANGED actions, Len(txs') = Len(txs) PROVE FinishedLeftAlone
  BY <1>q, <1>0 DEF FinishedLeftAlone
<1>1. ASSUME NEW k \in Keepers, StartCycle(k) \/ CycleStep(k) \/ Crash(k)
      PROVE  OpenRows' /\ FinishedLeftAlone
  <2>1. QuietStep(k) \/ RowStep(k) \/ Send(k) \/ SendFails(k)
    BY <1>1 DEF CycleStep, QuietStep, RowStep
  <2>2. CASE QuietStep(k)
    <3>1. UNCHANGED <<actions, txs>>
      BY <2>2 DEF QuietStep, StartCycle, Crash, Discover, EndCycle, ResumeUnanswered,
                  CheckAction, Simulate, BuildFails, SendCollides, PollAnswered, PollTimesOut
    <3> QED
      BY <2>2, <3>1, <1>q, QuietKeepsOpen
  <2>3. CASE RowStep(k)
    <3>1. UNCHANGED txs
      BY <2>3 DEF RowStep, ResumeAnswered, Create, RecordSubmitted, RecordSucceeded,
                  RecordFailed, RecordSkipped
    <3>2. ~(Len(txs') > Len(txs))
      BY <3>1, <1>0
    <3> QED
      BY <2>3, <3>2, RowStepKeepsOpen DEF FinishedLeftAlone
  <2>4. CASE Send(k) \/ SendFails(k)
    <3>1. UNCHANGED actions
      BY <2>4 DEF Send, SendFails
    <3> QED
      BY <2>4, <3>1, QuietKeepsOpen, SendLeavesAlone
  <2> QED
    BY <2>1, <2>2, <2>3, <2>4
<1>2. CASE Environment
  <2>1. UNCHANGED <<actions, keeper>>
    BY <1>2, ZenonT(30) DEF Environment, TickWall, TickLedger, Extend, CloseElsewhere, Index, Include
  <2>2. Len(txs') = Len(txs)
    <3>1. CASE UNCHANGED txs
      BY <3>1
    <3>2. ASSUME NEW i \in DOMAIN txs, Include(i) PROVE Len(txs') = Len(txs)
      <4>1. \E x : txs' = [txs EXCEPT ![i] = x]
        BY <3>2 DEF Include
      <4> QED
        BY <4>1, <1>0
    <3> QED
      BY <1>2, <3>1, <3>2 DEF Environment, TickWall, TickLedger, Extend, CloseElsewhere, Index
  <2>3. OpenRows'
    BY <2>1 DEF OpenRows, OpenRow
  <2> QED
    BY <2>1, <2>2, <2>3, <1>q
<1>3. CASE UNCHANGED vars
  BY <1>3 DEF vars, OpenRows, OpenRow
<1> QED
  BY <1>1, <1>2, <1>3 DEF Next

(* With a single keeper process, for any number of targets, retries and      *)
(* restarts: a row that is Succeeded or Skipped never changes again, and no  *)
(* transaction is signed for a target whose row is finished (processCandidate *)
(* and createOrSkipAction).                                                  *)
THEOREM FinishedCorrect ==
  ASSUME OneKeeper
  PROVE  Spec => FinishedTargetsLeftAlone
<1>1. Init => OpenRows
  BY DEF Init, OpenRows, OpenRow, Idle, Between, Working
<1>2. IInv /\ OpenRows /\ [Next]_vars => OpenRows' /\ [FinishedLeftAlone]_vars
  BY OneKeeperStep
<1> QED
  BY <1>1, <1>2, Invariance, PTL DEF Spec, FinishedTargetsLeftAlone

============================================================================
