------------------------- MODULE TxLifecycleProofs --------------------------
(***************************************************************************)
(* The four invariants of TxLifecycle, for every number of pages, hook     *)
(* instances and runs.                                                     *)
(*                                                                         *)
(* Each rests on types and links (Typed, Linked) and on its own inductive  *)
(* form.  The guard: the held controller is a live run of the instance     *)
(* (Guarded).  The chain: what a run may know of its hash at each stage    *)
(* (Hashes), and when an instance may call a hash of its own confirmed     *)
(* (Confirmed).  One run: the live run's entry stands, its instance would  *)
(* free it, and nobody registers meanwhile (Exclusive).  The watchers:     *)
(* inductive as it is, since removing the entry tells every page but the   *)
(* remover's.                                                              *)
(***************************************************************************)
EXTENDS TxLifecycle, TLAPS

PageOrNone == Pages \cup {None}
HashOrNone == Runs \cup {None}

States == {"idle", "simulating", "signing", "confirming", "indexer_pending", "success", "error"}

InstanceType ==
    [at : {"new", "mounted", "gone"}, page : PageOrNone, state : States, hash : HashOrNone,
     running : BOOLEAN, aborted : BOOLEAN, ctl : HashOrNone, scope : BOOLEAN, watch : BOOLEAN,
     registering : BOOLEAN]

RunType ==
    [inst : Instances \cup {None},
     pc : {"none", "yield", "sign", "confirm", "wait", "done", "gone"},
     signal : BOOLEAN, hash : HashOrNone]

Fates == {"none", "pending", "ok", "failed"}

Typed ==
    /\ inst \in [Instances -> InstanceType]
    /\ runs \in [Runs -> RunType]
    /\ started \in Nat
    /\ tx \in [Runs -> Fates]
    /\ reg \in [has : BOOLEAN, fresh : BOOLEAN, hash : HashOrNone]
    /\ saved \in [Pages -> HashOrNone]
    /\ told \in [Pages -> BOOLEAN]

\* What ties the parts together: a live run belongs to an instance, an unused run
\* number is untouched, a mounted instance has a page, only mounted ones watch or
\* register, and a new one never ran.
Linked ==
    /\ \A r \in Runs : Live(r) => runs[r].inst \in Instances
    /\ \A r \in Runs : started < r => runs[r].pc = "none"
    /\ \A i \in Instances : Mounted(i) => PageOf(i) \in Pages
    /\ \A i \in Instances : inst[i].watch \/ inst[i].registering => Mounted(i)
    /\ \A i \in Instances, r \in Runs : inst[i].at = "new" => runs[r].inst # i

\* Before anything is mounted, all is typed and linked.
LEMMA TypedInit == TInit => Typed /\ Linked
  BY TxAssumption DEF TInit, NoEntry, Typed, Linked, NewInstance, InstanceType, States, RunType,
     Fates, PageOrNone, HashOrNone, Live, Mounted, PageOf, Runs

\* The record Mount writes is an instance.
LEMMA MountRecord ==
    ASSUME NEW s \in InstanceType, NEW p \in Pages, NEW h \in HashOrNone, NEW st \in States
    PROVE  [s EXCEPT !.at = "mounted", !.page = p, !.hash = h, !.state = st] \in InstanceType
  BY ZenonT(30) DEF InstanceType, PageOrNone

\* So is the one Unmount leaves, ...
LEMMA UnmountRecord ==
    ASSUME NEW s \in InstanceType
    PROVE  [s EXCEPT !.at = "gone", !.watch = FALSE, !.state = "idle", !.hash = None]
               \in InstanceType
  BY ZenonT(30) DEF InstanceType, States, HashOrNone

\* ... those of a duplicate run and of its release, ...
LEMMA WatchRecord ==
    ASSUME NEW s \in InstanceType, NEW h \in HashOrNone, NEW st \in States
    PROVE  /\ [s EXCEPT !.state = st, !.hash = h, !.watch = TRUE] \in InstanceType
           /\ [s EXCEPT !.watch = FALSE, !.state = st, !.hash = h] \in InstanceType
  BY ZenonT(30) DEF InstanceType

\* ... what setTxState leaves, mounted or not, ...
LEMMA ShownRecord ==
    ASSUME NEW s \in InstanceType, NEW h \in HashOrNone, NEW st \in States
    PROVE  /\ [s EXCEPT !.state = st, !.hash = h] \in InstanceType
           /\ Shown(s, st, h) \in InstanceType
  BY ZenonT(30) DEF InstanceType, Shown

\* ... what run(), abort() and an aborted poll leave, ...
LEMMA FlagRecord ==
    ASSUME NEW s \in InstanceType
    PROVE  /\ [s EXCEPT !.registering = TRUE] \in InstanceType
           /\ [s EXCEPT !.aborted = TRUE] \in InstanceType
           /\ [s EXCEPT !.running = FALSE, !.ctl = None] \in InstanceType
  BY ZenonT(30) DEF InstanceType, HashOrNone

\* ... the one a registered run starts from, ...
LEMMA RegisterRecord ==
    ASSUME NEW s \in InstanceType, NEW r \in Runs
    PROVE  [s EXCEPT !.registering = FALSE, !.state = "simulating", !.hash = None,
                     !.running = TRUE, !.aborted = FALSE, !.ctl = r, !.scope = TRUE,
                     !.watch = FALSE] \in InstanceType
  BY ZenonT(30) DEF InstanceType, States, HashOrNone

\* ... the one a finished run leaves, ...
LEMMA FinishRecord ==
    ASSUME NEW s \in InstanceType, NEW c \in HashOrNone, NEW h \in HashOrNone, NEW st \in States
    PROVE  Shown([s EXCEPT !.running = FALSE, !.ctl = c, !.scope = FALSE], st, h) \in InstanceType
<1>1. [s EXCEPT !.running = FALSE, !.ctl = c, !.scope = FALSE] \in InstanceType
  BY ZenonT(30) DEF InstanceType
<1> QED BY <1>1, ShownRecord, ZenonT(30)

\* ... and those of a reset and of a reloaded page.
LEMMA NewRecord ==
    ASSUME NEW p \in PageOrNone
    PROVE  /\ [NewInstance EXCEPT !.at = "mounted", !.page = p] \in InstanceType
           /\ [NewInstance EXCEPT !.at = "gone"] \in InstanceType
  BY ZenonT(30) DEF InstanceType, NewInstance, States, PageOrNone, HashOrNone

\* Announcing an entry keeps the type of told.
LEMMA AnnounceTyped ==
    ASSUME Typed, NEW p, Announce(p)
    PROVE  told' \in [Pages -> BOOLEAN]
  BY Zenon DEF Typed, Announce

\* Removing the entry keeps the types of reg and told.
LEMMA RemoveTyped ==
    ASSUME Typed, NEW p, RemoveEntry(p)
    PROVE  /\ reg' \in [has : BOOLEAN, fresh : BOOLEAN, hash : HashOrNone]
           /\ told' \in [Pages -> BOOLEAN]
<1>1. NoEntry \in [has : BOOLEAN, fresh : BOOLEAN, hash : HashOrNone]
  BY DEF NoEntry, HashOrNone
<1>2. CASE reg' = NoEntry /\ Announce(p)
  BY <1>1, <1>2, AnnounceTyped
<1>3. CASE UNCHANGED <<reg, told>>
  BY <1>3 DEF Typed
<1> QED BY <1>2, <1>3, Zenon DEF RemoveEntry

\* Mounting, unmounting, run(), abort() and reset() keep types and links.
LEMMA InstanceStepTyped ==
    ASSUME Typed, Linked, NEW i \in Instances, InstanceStep(i)
    PROVE  Typed' /\ Linked'
<1>1. ASSUME NEW p \in Pages, Mount(i, p) PROVE Typed' /\ Linked'
  <2>1. Typed'
    BY <1>1, MountRecord, ZenonT(30) DEF Mount, Typed, States
  <2>2. Linked'
    BY <1>1 DEF Mount, Typed, Linked, InstanceType, Live, Mounted, PageOf
  <2> QED BY <2>1, <2>2
<1>2. CASE Unmount(i)
  <2>1. Typed'
    BY <1>2, UnmountRecord, ZenonT(30) DEF Unmount, Typed
  <2>2. Linked'
    BY <1>2 DEF Unmount, Awake, Typed, Linked, InstanceType, Live, Mounted, PageOf
  <2> QED BY <2>1, <2>2
<1>3. CASE RunDuplicate(i)
  <2>1. Typed'
    BY <1>3, WatchRecord, ZenonT(30) DEF RunDuplicate, Typed, States
  <2>2. Linked'
    BY <1>3 DEF RunDuplicate, Typed, Linked, InstanceType, Live, Mounted, PageOf
  <2> QED BY <2>1, <2>2
<1>4. CASE RunFirst(i) \/ RunUnread(i)
  <2>1. Typed'
    <3>1. inst' \in [Instances -> InstanceType]
      BY <1>4, FlagRecord, ZenonT(30) DEF RunFirst, RunUnread, Typed
    <3> QED BY <1>4, <3>1 DEF RunFirst, RunUnread, Typed
  <2>2. Linked'
    BY <1>4 DEF RunFirst, RunUnread, Typed, Linked, InstanceType, Live, Mounted, PageOf
  <2> QED BY <2>1, <2>2
<1>5. CASE Register(i)
  <2>1. started + 1 \in Runs
    BY <1>5, TxAssumption DEF Register, Typed, Runs
  <2>3. Typed'
    <3>1. inst' \in [Instances -> InstanceType]
      BY <1>5, <2>1, RegisterRecord, ZenonT(30) DEF Register, Typed
    <3>2. runs' \in [Runs -> RunType]
      BY <1>5, <2>1 DEF Register, Typed, RunType, HashOrNone
    <3>3. started' \in Nat /\ reg' \in [has : BOOLEAN, fresh : BOOLEAN, hash : HashOrNone]
      <4>1. [has |-> TRUE, fresh |-> TRUE, hash |-> None]
                \in [has : BOOLEAN, fresh : BOOLEAN, hash : HashOrNone]
        BY DEF HashOrNone
      <4>2. reg' \in {[has |-> TRUE, fresh |-> TRUE, hash |-> None], reg}
        BY <1>5, Zenon DEF Register
      <4>3. started' \in Nat
        BY <1>5 DEF Register, Typed
      <4> QED BY <4>1, <4>2, <4>3 DEF Typed
    <3>4. told' \in [Pages -> BOOLEAN]
      BY <1>5, AnnounceTyped DEF Register, Typed
    <3> QED BY <1>5, <3>1, <3>2, <3>3, <3>4 DEF Register, Typed
  <2>2. Linked'
    BY <1>5, <2>1, TxAssumption DEF Register, Typed, Linked, InstanceType, RunType, Live, Mounted,
       PageOf, Runs
  <2> QED BY <2>2, <2>3
<1>6. CASE Abort(i)
  <2>1. Typed'
    <3>1. inst' \in [Instances -> InstanceType]
      BY <1>6, FlagRecord, ZenonT(30) DEF Abort, Typed
    <3>2. runs' \in [Runs -> RunType]
      <4>1. \A q \in Runs : [runs[q] EXCEPT !.signal = TRUE] \in RunType
        BY ZenonT(30) DEF Typed, RunType
      <4> QED BY <1>6, <4>1, ZenonT(30) DEF Abort, Typed
    <3> QED BY <1>6, <3>1, <3>2 DEF Abort, Typed
  <2>2. Linked'
    BY <1>6 DEF Abort, Typed, Linked, InstanceType, RunType, Live, Mounted, PageOf
  <2> QED BY <2>1, <2>2
<1>7. CASE Reset(i)
  <2>1. Typed'
    <3>1. inst' \in [Instances -> InstanceType]
      <4>1. PageOf(i) \in PageOrNone
        BY DEF Typed, InstanceType, PageOf
      <4> QED BY <1>7, <4>1, NewRecord, ZenonT(30) DEF Reset, Typed
    <3>2. runs' \in [Runs -> RunType]
      <4>1. \A q \in Runs : [runs[q] EXCEPT !.signal = TRUE] \in RunType
        BY ZenonT(30) DEF Typed, RunType
      <4> QED BY <1>7, <4>1, ZenonT(30) DEF Reset, Typed
    <3>3. /\ reg' \in [has : BOOLEAN, fresh : BOOLEAN, hash : HashOrNone]
          /\ told' \in [Pages -> BOOLEAN]
      BY <1>7, RemoveTyped DEF Reset, FinalizeDedupe, Typed
    <3>4. saved' \in [Pages -> HashOrNone]
      BY <1>7, ZenonT(30) DEF Reset, Typed, HashOrNone
    <3> QED BY <1>7, <3>1, <3>2, <3>3, <3>4 DEF Reset, Typed
  <2>2. Linked'
    BY <1>7 DEF Reset, Typed, Linked, InstanceType, RunType, NewInstance, Live, Mounted, PageOf
  <2> QED BY <2>1, <2>2
<1> QED BY <1>1, <1>2, <1>3, <1>4, <1>5, <1>6, <1>7 DEF InstanceStep

\* The end of a run keeps types and links.
LEMMA FinishTyped ==
    ASSUME Typed, Linked, NEW r \in Runs, Live(r), NEW st \in States, NEW h \in HashOrNone,
           NEW c \in HashOrNone, Finish(r, st, h, c), saved' \in [Pages -> HashOrNone]
    PROVE  Typed' /\ Linked'
<1>1. runs[r].inst \in Instances
  BY DEF Linked
<1>2. inst' \in [Instances -> InstanceType]
  BY <1>1, FinishRecord, ZenonT(30) DEF Finish, Typed
<1>3. runs' \in [Runs -> RunType]
  BY DEF Finish, Goto, Typed, RunType
<1>4. /\ reg' \in [has : BOOLEAN, fresh : BOOLEAN, hash : HashOrNone]
      /\ told' \in [Pages -> BOOLEAN]
  BY RemoveTyped DEF Finish, FinalizeDedupe, Typed
<1>5. Typed'
  BY <1>2, <1>3, <1>4 DEF Finish, Typed
<1>6. \A i \in Instances : /\ inst'[i].at = inst[i].at
                           /\ inst'[i].page = inst[i].page
                           /\ inst'[i].watch = inst[i].watch
                           /\ inst'[i].registering = inst[i].registering
  BY <1>1 DEF Finish, Shown, Typed, InstanceType
<1>7. \A q \in Runs : runs'[q].inst = runs[q].inst /\ (runs'[q].pc = runs[q].pc \/ q = r)
  BY DEF Finish, Goto, Typed, RunType
<1>8. runs'[r].pc = "done" /\ ~(started < r)
  BY DEF Finish, Goto, Typed, RunType, Linked, Live
<1>9. Linked'
  BY <1>6, <1>7, <1>8 DEF Linked, Live, Mounted, PageOf, Finish
<1> QED BY <1>5, <1>9

\* What a run shows keeps the instances typed, where they are and watching.
LEMMA ShowTyped ==
    ASSUME Typed, Linked, NEW r \in Runs, Live(r), NEW st \in States, NEW h \in HashOrNone,
           Show(r, st, h)
    PROVE  /\ inst' \in [Instances -> InstanceType]
           /\ \A i \in Instances : /\ inst'[i].at = inst[i].at
                                   /\ inst'[i].page = inst[i].page
                                   /\ inst'[i].watch = inst[i].watch
                                   /\ inst'[i].registering = inst[i].registering
<1>1. runs[r].inst \in Instances
  BY DEF Linked
<1>2. inst' \in [Instances -> InstanceType]
  BY <1>1, ShownRecord, ZenonT(30) DEF Show, Typed
<1>3. \A i \in Instances : /\ inst'[i].at = inst[i].at
                           /\ inst'[i].page = inst[i].page
                           /\ inst'[i].watch = inst[i].watch
                           /\ inst'[i].registering = inst[i].registering
  BY <1>1 DEF Show, Shown, Typed, InstanceType
<1> QED BY <1>2, <1>3

\* A run that shows something and moves on stays linked.
LEMMA GoneOnLinked ==
    ASSUME Typed, Linked, NEW r \in Runs, Live(r), NEW st \in States, NEW h \in HashOrNone,
           Show(r, st, h), started' = started,
           \A q \in Runs : runs'[q].inst = runs[q].inst /\ (runs'[q].pc = runs[q].pc \/ q = r)
    PROVE  Linked'
<1>1. ~(started < r) /\ runs[r].inst \in Instances
  BY DEF Linked, Live
<1> QED BY <1>1, ShowTyped DEF Linked, Live, Mounted, PageOf

\* Every step of a run keeps types and links.
LEMMA RunStepTyped ==
    ASSUME Typed, Linked, NEW r \in Runs, RunStep(r)
    PROVE  Typed' /\ Linked'
<1> DEFINE s == inst[runs[r].inst]
<1>a. r \in HashOrNone /\ None \in HashOrNone
  BY DEF HashOrNone
<1>b. ASSUME Live(r) PROVE s \in InstanceType /\ s.hash \in HashOrNone /\ s.ctl \in HashOrNone
  BY <1>b DEF Linked, Typed, InstanceType
<1>c. "signing" \in States /\ "confirming" \in States /\ "indexer_pending" \in States
      /\ "success" \in States /\ "error" \in States
  BY DEF States
<1>d. ASSUME ForgetHash(r) PROVE saved' \in [Pages -> HashOrNone]
  BY <1>a, <1>d, ZenonT(30) DEF ForgetHash, Typed
<1>1. CASE CancelEarly(r)
  <2>1. Live(r) /\ Finish(r, "error", s.hash, s.ctl) /\ saved' = saved
    BY <1>1 DEF CancelEarly, At, Live
  <2> QED BY <2>1, <1>b, <1>c, FinishTyped DEF Typed
<1>2. CASE Sign(r)
  <2>1. Live(r) /\ Show(r, "signing", s.hash)
    BY <1>2 DEF Sign, At, Live
  <2>2. runs' \in [Runs -> RunType]
    BY <1>2 DEF Sign, Goto, Typed, RunType
  <2>3. \A q \in Runs : runs'[q].inst = runs[q].inst /\ (runs'[q].pc = runs[q].pc \/ q = r)
    BY <1>2 DEF Sign, Goto, Typed, RunType
  <2>4. Typed'
    BY <1>2, <2>1, <2>2, <1>b, <1>c, ShowTyped DEF Sign, Typed
  <2>5. Linked'
    BY <1>2, <2>1, <2>3, <1>b, <1>c, GoneOnLinked DEF Sign
  <2> QED BY <2>4, <2>5
<1>3. CASE Submit(r) \/ Include(r)
  <2>1. tx' \in [Runs -> Fates]
    BY <1>3 DEF Submit, Include, Typed, Fates
  <2> QED BY <1>3, <2>1 DEF Submit, Include, Typed, Linked, Live, Mounted, PageOf
<1>4. CASE FnFails(r)
  <2>1. Live(r) /\ Finish(r, "error", s.hash, None) /\ saved' = saved
    BY <1>4 DEF FnFails, At, Live
  <2> QED BY <2>1, <1>a, <1>b, <1>c, FinishTyped DEF Typed
<1>5. CASE FnReturnsHash(r)
  <2>1. Live(r) /\ Show(r, "confirming", r)
    BY <1>5 DEF FnReturnsHash, At, Live
  <2>2. runs' \in [Runs -> RunType]
    <3>1. [runs[r] EXCEPT !.pc = "confirm", !.hash = r] \in RunType
      BY <1>a, ZenonT(30) DEF Typed, RunType
    <3> QED BY <1>5, <3>1 DEF FnReturnsHash, Typed
  <2>3. \A q \in Runs : runs'[q].inst = runs[q].inst /\ (runs'[q].pc = runs[q].pc \/ q = r)
    BY <1>5 DEF FnReturnsHash, Typed, RunType
  <2>4. saved' \in [Pages -> HashOrNone]
    BY <1>5, <1>a, ZenonT(30) DEF FnReturnsHash, Typed
  <2>5. reg' \in [has : BOOLEAN, fresh : BOOLEAN, hash : HashOrNone]
    BY <1>5, <1>a DEF FnReturnsHash, Typed
  <2>6. told' \in [Pages -> BOOLEAN]
    BY <1>5, AnnounceTyped DEF FnReturnsHash, Typed
  <2>7. Typed'
    BY <1>5, <2>1, <2>2, <2>4, <2>5, <2>6, <1>a, <1>c, ShowTyped DEF FnReturnsHash, Typed
  <2>8. Linked'
    BY <1>5, <2>1, <2>3, <1>a, <1>c, GoneOnLinked, ZenonT(30) DEF FnReturnsHash
  <2> QED BY <2>7, <2>8
<1>6. CASE FnReturnsNoHash(r)
  <2>1. Live(r) /\ Show(r, "indexer_pending", None)
    BY <1>6 DEF FnReturnsNoHash, At, Live
  <2>2. runs' \in [Runs -> RunType]
    BY <1>6 DEF FnReturnsNoHash, Goto, Typed, RunType
  <2>3. \A q \in Runs : runs'[q].inst = runs[q].inst /\ (runs'[q].pc = runs[q].pc \/ q = r)
    BY <1>6 DEF FnReturnsNoHash, Goto, Typed, RunType
  <2>4. Typed'
    BY <1>6, <2>1, <2>2, <1>a, <1>c, ShowTyped DEF FnReturnsNoHash, Typed
  <2>5. Linked'
    BY <1>6, <2>1, <2>3, <1>a, <1>c, GoneOnLinked DEF FnReturnsNoHash
  <2> QED BY <2>4, <2>5
<1>7. CASE ConfirmAborted(r)
  <2>1. Live(r) /\ runs[r].inst \in Instances /\ ~(started < r)
    BY <1>7 DEF ConfirmAborted, At, Live, Linked
  <2>2. inst' \in [Instances -> InstanceType]
    BY <1>7, <2>1, FlagRecord, ZenonT(30) DEF ConfirmAborted, Typed
  <2>3. runs' \in [Runs -> RunType]
    BY <1>7 DEF ConfirmAborted, Goto, Typed, RunType
  <2>4. \A q \in Runs : runs'[q].inst = runs[q].inst /\ (runs'[q].pc = runs[q].pc \/ q = r)
    BY <1>7 DEF ConfirmAborted, Goto, Typed, RunType
  <2>5. \A i \in Instances : /\ inst'[i].at = inst[i].at
                             /\ inst'[i].page = inst[i].page
                             /\ inst'[i].watch = inst[i].watch
                             /\ inst'[i].registering = inst[i].registering
    BY <1>7, <2>1 DEF ConfirmAborted, Typed, InstanceType
  <2>6. Typed'
    BY <1>7, <2>2, <2>3 DEF ConfirmAborted, Typed
  <2>7. Linked'
    <3>1. started' = started
      BY <1>7 DEF ConfirmAborted
    <3> QED BY <2>1, <2>4, <2>5, <3>1 DEF Linked, Live, Mounted, PageOf
  <2> QED BY <2>6, <2>7
<1>8. CASE ConfirmSuccess(r)
  <2>1. Live(r) /\ Show(r, "indexer_pending", r)
    BY <1>8 DEF ConfirmSuccess, At, Live
  <2>2. runs' \in [Runs -> RunType]
    BY <1>8 DEF ConfirmSuccess, Goto, Typed, RunType
  <2>3. \A q \in Runs : runs'[q].inst = runs[q].inst /\ (runs'[q].pc = runs[q].pc \/ q = r)
    BY <1>8 DEF ConfirmSuccess, Goto, Typed, RunType
  <2>4. Typed'
    BY <1>8, <2>1, <2>2, <1>a, <1>c, ShowTyped DEF ConfirmSuccess, Typed
  <2>5. Linked'
    BY <1>8, <2>1, <2>3, <1>a, <1>c, GoneOnLinked DEF ConfirmSuccess
  <2> QED BY <2>4, <2>5
<1>9. CASE ConfirmFailed(r) \/ ConfirmTimeout(r)
  <2>1. Live(r) /\ Finish(r, "error", r, None) /\ ForgetHash(r)
    BY <1>9 DEF ConfirmFailed, ConfirmTimeout, At, Live
  <2> QED BY <2>1, <1>a, <1>c, <1>d, FinishTyped
<1>10. CASE Succeed(r)
  <2>1. Live(r) /\ Finish(r, "success", runs[r].hash, None) /\ ForgetHash(r)
    BY <1>10 DEF Succeed, At, Live
  <2>2. runs[r].hash \in HashOrNone
    BY DEF Typed, RunType
  <2> QED BY <2>1, <2>2, <1>a, <1>c, <1>d, FinishTyped
<1> QED
  BY <1>1, <1>2, <1>3, <1>4, <1>5, <1>6, <1>7, <1>8, <1>9, <1>10 DEF RunStep

\* What a reload does to the instances and runs of the page, and of the others.
LEMMA ReloadEffect ==
    ASSUME Typed, NEW p \in Pages, Reload(p)
    PROVE  /\ \A j \in Instances :
                  IF PageOf(j) = p THEN /\ inst'[j].at = "gone" /\ inst'[j].hash = None
                                        /\ ~inst'[j].running /\ ~inst'[j].watch
                                        /\ ~inst'[j].registering
                  ELSE inst'[j] = inst[j]
           /\ \A q \in Runs : /\ runs'[q].inst = runs[q].inst
                              /\ runs'[q].hash = runs[q].hash
                              /\ IF Live(q) /\ Where(q) = p THEN runs'[q].pc = "gone"
                                 ELSE runs'[q].pc = runs[q].pc
<1>1. \A j \in Instances : PageOf(j) # p => inst'[j] = inst[j]
  BY DEF Reload
<1>2. \A j \in Instances : PageOf(j) = p => inst'[j] = [NewInstance EXCEPT !.at = "gone"]
  BY DEF Reload
<1>3. \A q \in Runs : runs'[q] = IF Live(q) /\ Where(q) = p THEN [runs[q] EXCEPT !.pc = "gone"]
                                 ELSE runs[q]
  BY DEF Reload
<1>4. \A q \in Runs : runs[q] \in RunType
  BY DEF Typed
<1>5. \A q \in Runs : /\ runs'[q].inst = runs[q].inst
                      /\ runs'[q].hash = runs[q].hash
                      /\ IF Live(q) /\ Where(q) = p THEN runs'[q].pc = "gone"
                         ELSE runs'[q].pc = runs[q].pc
  BY <1>3, <1>4, ZenonT(30) DEF RunType
<1> QED BY <1>1, <1>2, <1>5 DEF NewInstance

\* What a notice writes: an instance as it was, released, or with the registered hash.
LEMMA NoticeWrites ==
    ASSUME NEW p \in Pages, Notice(p), NEW j \in Instances
    PROVE  \/ inst'[j] = inst[j] /\ (PageOf(j) = p /\ ~Pending => ~inst[j].watch)
           \/ inst'[j] = [inst[j] EXCEPT !.watch = FALSE, !.state = "idle", !.hash = None]
           \/ inst'[j] = [inst[j] EXCEPT !.state = "confirming", !.hash = reg.hash] /\ Pending
<1>1. PICK read \in {Pending, FALSE} :
         inst' = [i \in Instances |->
           IF ~(PageOf(i) = p /\ inst[i].watch) THEN inst[i]
           ELSE IF ~read
                THEN [inst[i] EXCEPT !.watch = FALSE, !.state = "idle", !.hash = None]
                ELSE IF reg.hash = None THEN inst[i]
                     ELSE [inst[i] EXCEPT !.state = "confirming", !.hash = reg.hash]]
  BY ZenonT(30) DEF Notice
<1>2. read => Pending
  BY <1>1, Zenon
<1> QED BY <1>1, <1>2, ZenonT(30)

\* What a notice does to an instance: it may release it or show the registered hash.
LEMMA NoticeEffect ==
    ASSUME Typed, NEW p \in Pages, Notice(p), NEW j \in Instances
    PROVE  /\ inst'[j].at = inst[j].at /\ inst'[j].page = inst[j].page
           /\ inst'[j].running = inst[j].running /\ inst'[j].ctl = inst[j].ctl
           /\ inst'[j].scope = inst[j].scope
           /\ inst'[j].registering = inst[j].registering
           /\ inst'[j].watch => inst[j].watch
           /\ PageOf(j) = p /\ ~Pending => ~inst'[j].watch
           /\ \/ inst'[j].hash = None
              \/ inst'[j].hash = reg.hash /\ inst'[j].state = "confirming"
              \/ inst'[j].hash = inst[j].hash /\ inst'[j].state = inst[j].state
<1>1. inst[j] \in InstanceType
  BY DEF Typed
<1>2. \/ inst'[j] = inst[j] /\ (PageOf(j) = p /\ ~Pending => ~inst[j].watch)
      \/ inst'[j] = [inst[j] EXCEPT !.watch = FALSE, !.state = "idle", !.hash = None]
      \/ inst'[j] = [inst[j] EXCEPT !.state = "confirming", !.hash = reg.hash] /\ Pending
  BY NoticeWrites, ZenonT(30)
<1> QED BY <1>1, <1>2, ZenonT(30) DEF InstanceType

\* A reload and a notice keep types and links.
LEMMA PageStepTyped ==
    ASSUME Typed, Linked, NEW p \in Pages, Reload(p) \/ Notice(p)
    PROVE  Typed' /\ Linked'
<1>1. CASE Reload(p)
  <2>1. inst' \in [Instances -> InstanceType]
    <3>1. [NewInstance EXCEPT !.at = "gone"] \in InstanceType
      BY NewRecord, ZenonT(30) DEF PageOrNone
    <3> QED BY <1>1, <3>1 DEF Reload, Typed
  <2>2. runs' \in [Runs -> RunType]
    <3>1. \A q \in Runs : [runs[q] EXCEPT !.pc = "gone"] \in RunType
      BY ZenonT(30) DEF Typed, RunType
    <3> QED BY <1>1, <3>1, ZenonT(30) DEF Reload, Typed
  <2>3. told' \in [Pages -> BOOLEAN]
    BY <1>1 DEF Reload, Typed
  <2>4. Typed'
    BY <1>1, <2>1, <2>2, <2>3, ZenonT(30) DEF Reload, Typed
  <2>5. Linked'
    <3>1. started' = started
      BY <1>1 DEF Reload
    <3> QED BY <1>1, <3>1, ReloadEffect DEF Linked, Live, Mounted, PageOf
  <2> QED BY <2>4, <2>5
<1>2. CASE Notice(p)
  <2>1. inst' \in [Instances -> InstanceType]
    <3>1. reg.hash \in HashOrNone /\ None \in HashOrNone
      BY DEF Typed, HashOrNone
    <3>2. ASSUME NEW j \in Instances PROVE inst'[j] \in InstanceType
      <4>1. inst[j] \in InstanceType /\ "idle" \in States /\ "confirming" \in States
        BY DEF Typed, States
      <4>2. [inst[j] EXCEPT !.watch = FALSE, !.state = "idle", !.hash = None] \in InstanceType
        BY <3>1, <4>1, WatchRecord, ZenonT(30)
      <4>3. [inst[j] EXCEPT !.state = "confirming", !.hash = reg.hash] \in InstanceType
        BY <3>1, <4>1, ShownRecord, ZenonT(30)
      <4> QED BY <1>2, <4>1, <4>2, <4>3, NoticeWrites, ZenonT(30)
    <3>3. inst' = [j \in Instances |-> inst'[j]]
      <4> DEFINE G(read) == [i \in Instances |->
           IF ~(PageOf(i) = p /\ inst[i].watch) THEN inst[i]
           ELSE IF ~read
                THEN [inst[i] EXCEPT !.watch = FALSE, !.state = "idle", !.hash = None]
                ELSE IF reg.hash = None THEN inst[i]
                     ELSE [inst[i] EXCEPT !.state = "confirming", !.hash = reg.hash]]
      <4>1. PICK read \in {Pending, FALSE} : inst' = G(read)
        BY <1>2, ZenonT(30) DEF Notice
      <4>2. G(read) = [j \in Instances |-> G(read)[j]]
        BY ZenonT(30)
      <4> HIDE DEF G
      <4> QED BY <4>1, <4>2, ZenonT(30)
    <3> QED BY <3>2, <3>3
  <2>2. told' \in [Pages -> BOOLEAN]
    BY <1>2, ZenonT(30) DEF Notice, Typed
  <2>3. Typed'
    BY <1>2, <2>1, <2>2, ZenonT(30) DEF Notice, Typed
  <2>4. Linked'
    <3>1. UNCHANGED <<runs, started>>
      BY <1>2, ZenonT(30) DEF Notice
    <3> QED BY <1>2, <3>1, NoticeEffect DEF Linked, Live, Mounted, PageOf
  <2> QED BY <2>3, <2>4
<1> QED BY <1>1, <1>2

\* Every step keeps types and links.
LEMMA StepTyped == Typed /\ Linked /\ [TNext]_tvars => Typed' /\ Linked'
<1> SUFFICES ASSUME Typed, Linked, [TNext]_tvars PROVE Typed' /\ Linked'
  OBVIOUS
<1>1. CASE Expire
  BY <1>1, ZenonT(30) DEF Expire, Typed, Linked, Live, Mounted, PageOf
<1>2. CASE UNCHANGED tvars
  BY <1>2 DEF tvars, Typed, Linked, Live, Mounted, PageOf
<1> QED
  BY <1>1, <1>2, InstanceStepTyped, RunStepTyped, PageStepTyped DEF TNext

-----------------------------------------------------------------------------
(* What Finish and Show do to the instances.                                *)

\* Finish releases its instance, shows the outcome or nothing, and ends its run only.
LEMMA FinishEffect ==
    ASSUME Typed, Linked, NEW r \in Runs, Live(r), NEW st, NEW h, NEW c, Finish(r, st, h, c)
    PROVE  LET i == runs[r].inst
           IN  /\ i \in Instances
               /\ ~inst'[i].running /\ ~inst'[i].scope
               /\ \/ inst'[i].state = st /\ inst'[i].hash = h
                  \/ inst'[i].state = inst[i].state /\ inst'[i].hash = inst[i].hash
               /\ \A j \in Instances : /\ inst'[j].watch = inst[j].watch
                                       /\ inst'[j].page = inst[j].page
                                       /\ inst'[j].registering = inst[j].registering
                                       /\ j # i => inst'[j] = inst[j]
               /\ \A q \in Runs : /\ runs'[q].inst = runs[q].inst
                                  /\ runs'[q].hash = runs[q].hash
                                  /\ runs'[q].pc = IF q = r THEN "done" ELSE runs[q].pc
               /\ FinalizeDedupe(i)
               /\ UNCHANGED <<started, tx, overridden>>
<1>1. runs[r].inst \in Instances
  BY DEF Linked
<1>2. \A q \in Runs : /\ runs'[q].inst = runs[q].inst
                      /\ runs'[q].hash = runs[q].hash
                      /\ runs'[q].pc = IF q = r THEN "done" ELSE runs[q].pc
  BY DEF Finish, Goto, Typed, RunType
<1> QED BY <1>1, <1>2 DEF Finish, Shown, Typed, InstanceType

\* Show changes the state and hash of its instance, and nothing of the others.
LEMMA ShowEffect ==
    ASSUME Typed, Linked, NEW r \in Runs, Live(r), NEW st, NEW h, Show(r, st, h)
    PROVE  LET i == runs[r].inst
           IN  /\ i \in Instances
               /\ \/ inst'[i].state = st /\ inst'[i].hash = h
                  \/ inst'[i].state = inst[i].state /\ inst'[i].hash = inst[i].hash
               /\ \A j \in Instances : /\ inst'[j].watch = inst[j].watch
                                       /\ inst'[j].page = inst[j].page
                                       /\ inst'[j].registering = inst[j].registering
                                       /\ inst'[j].running = inst[j].running
                                       /\ inst'[j].ctl = inst[j].ctl
                                       /\ inst'[j].scope = inst[j].scope
                                       /\ j # i => inst'[j] = inst[j]
<1>1. runs[r].inst \in Instances
  BY DEF Linked
<1> QED BY <1>1 DEF Show, Shown, Typed, InstanceType

-----------------------------------------------------------------------------
(* The guard.                                                               *)

Guarded ==
    \A i \in Instances : inst[i].running =>
        /\ inst[i].ctl \in Runs
        /\ Live(inst[i].ctl)
        /\ runs[inst[i].ctl].inst = i

\* No step of an instance leaves a guard without its live run.
LEMMA GuardInstance ==
    ASSUME Typed, Linked, Guarded, NEW i \in Instances, InstanceStep(i)
    PROVE  Guarded'
<1>1. ASSUME NEW p \in Pages, Mount(i, p) PROVE Guarded'
  BY <1>1 DEF Mount, Guarded, Typed, InstanceType, Live
<1>2. CASE Unmount(i) \/ RunDuplicate(i)
  <2>1. \A j \in Instances : inst'[j].running = inst[j].running /\ inst'[j].ctl = inst[j].ctl
    BY <1>2 DEF Unmount, RunDuplicate, Typed, InstanceType
  <2> QED BY <1>2, <2>1 DEF Unmount, RunDuplicate, Guarded, Live
<1>3. CASE RunFirst(i) \/ RunUnread(i)
  BY <1>3 DEF RunFirst, RunUnread, Guarded, Typed, InstanceType, Live
<1>4. CASE Register(i)
  <2>1. started + 1 \in Runs /\ ~Live(started + 1)
    BY <1>4, TxAssumption DEF Register, Typed, Linked, Live, Runs
  <2>2. /\ inst'[i].ctl = started + 1
        /\ \A j \in Instances \ {i} : inst'[j] = inst[j]
    BY <1>4 DEF Register, Typed, InstanceType
  <2>3. /\ runs'[started + 1].inst = i /\ runs'[started + 1].pc = "yield"
        /\ \A q \in Runs \ {started + 1} : runs'[q] = runs[q]
    BY <1>4, <2>1 DEF Register, Typed
  <2> QED BY <2>1, <2>2, <2>3 DEF Guarded, Live
<1>5. CASE Abort(i)
  <2>1. \A j \in Instances : inst'[j].running = inst[j].running /\ inst'[j].ctl = inst[j].ctl
    BY <1>5 DEF Abort, Typed, InstanceType
  <2>2. \A q \in Runs : runs'[q].pc = runs[q].pc /\ runs'[q].inst = runs[q].inst
    BY <1>5 DEF Abort, Typed, RunType
  <2> QED BY <2>1, <2>2 DEF Guarded, Live
<1>6. CASE Reset(i)
  <2>1. ~inst'[i].running /\ \A j \in Instances \ {i} : inst'[j] = inst[j]
    BY <1>6 DEF Reset, Typed, NewInstance
  <2>2. \A q \in Runs : runs'[q].pc = runs[q].pc /\ runs'[q].inst = runs[q].inst
    BY <1>6 DEF Reset, Typed, RunType
  <2> QED BY <2>1, <2>2 DEF Guarded, Live
<1> QED BY <1>1, <1>2, <1>3, <1>4, <1>5, <1>6 DEF InstanceStep

\* A run that goes on keeps every guard.
LEMMA GuardShow ==
    ASSUME Typed, Linked, Guarded, NEW r \in Runs, Live(r), NEW st, NEW h, Show(r, st, h),
           \A q \in Runs : runs'[q].inst = runs[q].inst /\ (runs'[q].pc = runs[q].pc \/ q = r),
           Live(r)'
    PROVE  Guarded'
  BY ShowEffect DEF Guarded, Live

\* No step of a run leaves a guard behind: the run that ends releases its own instance.
LEMMA GuardRun ==
    ASSUME Typed, Linked, Guarded, NEW r \in Runs, RunStep(r)
    PROVE  Guarded'
<1>1. ASSUME NEW st, NEW h, NEW c, Live(r), Finish(r, st, h, c) PROVE Guarded'
  BY <1>1, FinishEffect DEF Guarded, Live
<1>2. CASE Sign(r)
  BY <1>2, GuardShow DEF Sign, Goto, At, Live, Typed, RunType
<1>3. CASE FnReturnsHash(r)
  BY <1>3, GuardShow DEF FnReturnsHash, At, Live, Typed, RunType
<1>4. CASE FnReturnsNoHash(r)
  BY <1>4, GuardShow DEF FnReturnsNoHash, Goto, At, Live, Typed, RunType
<1>5. CASE ConfirmSuccess(r)
  BY <1>5, GuardShow DEF ConfirmSuccess, Goto, At, Live, Typed, RunType
<1>6. CASE ConfirmAborted(r)
  <2>1. runs[r].inst \in Instances
    BY <1>6 DEF ConfirmAborted, At, Linked, Live
  <2>2. /\ ~inst'[runs[r].inst].running
        /\ \A j \in Instances \ {runs[r].inst} : inst'[j] = inst[j]
    BY <1>6, <2>1 DEF ConfirmAborted, Typed, InstanceType
  <2>3. \A q \in Runs : runs'[q].inst = runs[q].inst /\ (runs'[q].pc = runs[q].pc \/ q = r)
    BY <1>6 DEF ConfirmAborted, Goto, Typed, RunType
  <2> QED BY <2>1, <2>2, <2>3 DEF Guarded, Live
<1>7. CASE Submit(r) \/ Include(r)
  BY <1>7 DEF Submit, Include, Guarded, Live
<1>8. CASE CancelEarly(r) \/ FnFails(r)
  BY <1>8, <1>1 DEF CancelEarly, FnFails, At, Live
<1>9. CASE ConfirmFailed(r) \/ ConfirmTimeout(r) \/ Succeed(r)
  BY <1>9, <1>1 DEF ConfirmFailed, ConfirmTimeout, Succeed, At, Live
<1> QED
  BY <1>2, <1>3, <1>4, <1>5, <1>6, <1>7, <1>8, <1>9 DEF RunStep

\* Every step keeps the guards with live runs.
LEMMA GuardStep == Typed /\ Linked /\ Guarded /\ [TNext]_tvars => Guarded'
<1> SUFFICES ASSUME Typed, Linked, Guarded, [TNext]_tvars PROVE Guarded'
  OBVIOUS
<1>1. ASSUME NEW p \in Pages, Reload(p) PROVE Guarded'
  BY <1>1, ReloadEffect DEF Guarded, Live, Where, PageOf
<1>2. ASSUME NEW p \in Pages, Notice(p) PROVE Guarded'
  <2>1. runs' = runs
    BY <1>2, ZenonT(30) DEF Notice
  <2> QED BY <1>2, <2>1, NoticeEffect DEF Guarded, Live
<1>3. CASE Expire \/ UNCHANGED tvars
  BY <1>3 DEF Expire, tvars, Guarded, Live
<1> QED BY <1>1, <1>2, <1>3, GuardInstance, GuardRun DEF TNext

\* The guard of an instance is held by a live run of that instance, whose controller it
\* holds (runningRef, abortControllerRef), in every reachable state.
THEOREM GuardsHeld == TSpec => []GuardHeldByLiveRun
<1>1. TInit => Guarded
  BY DEF TInit, Guarded, NewInstance
<1>2. Guarded => GuardHeldByLiveRun
  BY DEF Guarded, GuardHeldByLiveRun, LiveRuns
<1> QED BY <1>1, <1>2, TypedInit, StepTyped, GuardStep, PTL DEF TSpec

-----------------------------------------------------------------------------
(* Hashes.                                                                  *)

\* A run has no hash before fn() returned one, its own from then on, and it only
\* passes confirmation with a transaction that succeeded.
RunHashes ==
    \A r \in Runs :
        /\ runs[r].hash \in {None, r}
        /\ runs[r].pc = "none" => tx[r] = "none"
        /\ runs[r].pc \in {"yield", "sign"} => runs[r].hash = None
        /\ runs[r].pc = "confirm" => tx[r] # "none"
        /\ runs[r].pc = "wait" /\ runs[r].hash # None => tx[r] = "ok"

\* What an instance may show of the chain.
HashSent(h) == h # None => tx[h] # "none"
SuccessTrue(s) == s.state = "success" /\ s.hash # None => tx[s.hash] = "ok"

Hashes ==
    /\ \A i \in Instances : HashSent(inst[i].hash) /\ SuccessTrue(inst[i])
    /\ \A p \in Pages : HashSent(saved[p])
    /\ HashSent(reg.hash)
    /\ RunHashes

\* Removing the entry leaves no unsent hash in it.
LEMMA RemoveHash ==
    ASSUME NEW p, RemoveEntry(p), HashSent(reg.hash), tx' = tx
    PROVE  HashSent(reg.hash)'
  BY DEF RemoveEntry, NoEntry, HashSent

\* No step of an instance shows or stores a hash that was not sent.
LEMMA HashesInstance ==
    ASSUME Typed, Linked, Hashes, NEW i \in Instances, InstanceStep(i)
    PROVE  Hashes'
<1>1. ASSUME NEW p \in Pages, Mount(i, p) PROVE Hashes'
  <2>1. inst[i] \in InstanceType
    BY DEF Typed
  <2>2. /\ inst'[i].hash = saved[p] /\ inst'[i].state # "success"
        /\ \A j \in Instances \ {i} : inst'[j] = inst[j]
    BY <1>1, <2>1 DEF Mount, Typed, InstanceType
  <2>3. UNCHANGED <<runs, tx, saved, reg>>
    BY <1>1 DEF Mount
  <2> QED BY <2>2, <2>3 DEF Hashes, RunHashes, HashSent, SuccessTrue
<1>2. CASE Unmount(i)
  <2>1. inst'[i].hash = None /\ \A j \in Instances \ {i} : inst'[j] = inst[j]
    BY <1>2 DEF Unmount, Typed, InstanceType
  <2>2. UNCHANGED <<runs, tx, saved, reg>>
    BY <1>2 DEF Unmount
  <2> QED BY <2>1, <2>2 DEF Hashes, RunHashes, HashSent, SuccessTrue
<1>3. CASE RunDuplicate(i)
  <2>1. /\ inst'[i].hash = reg.hash /\ inst'[i].state # "success"
        /\ \A j \in Instances \ {i} : inst'[j] = inst[j]
    BY <1>3 DEF RunDuplicate, Typed, InstanceType
  <2>2. UNCHANGED <<runs, tx, saved, reg>>
    BY <1>3 DEF RunDuplicate
  <2> QED BY <2>1, <2>2 DEF Hashes, RunHashes, HashSent, SuccessTrue
<1>4. CASE RunFirst(i) \/ RunUnread(i) \/ Abort(i)
  <2>1. \A j \in Instances : inst'[j].hash = inst[j].hash /\ inst'[j].state = inst[j].state
    BY <1>4 DEF RunFirst, RunUnread, Abort, Typed, InstanceType
  <2>2. \A q \in Runs : runs'[q].pc = runs[q].pc /\ runs'[q].hash = runs[q].hash
    BY <1>4 DEF RunFirst, RunUnread, Abort, Typed, RunType
  <2>3. UNCHANGED <<tx, saved, reg>>
    BY <1>4 DEF RunFirst, RunUnread, Abort
  <2> QED BY <2>1, <2>2, <2>3 DEF Hashes, RunHashes, HashSent, SuccessTrue
<1>5. CASE Register(i)
  <2>1. started + 1 \in Runs
    BY <1>5, TxAssumption DEF Register, Typed, Runs
  <2>2. inst'[i].hash = None /\ \A j \in Instances \ {i} : inst'[j] = inst[j]
    BY <1>5 DEF Register, Typed, InstanceType
  <2>3. /\ runs'[started + 1].hash = None /\ runs'[started + 1].pc = "yield"
        /\ \A q \in Runs \ {started + 1} : runs'[q] = runs[q]
    BY <1>5, <2>1 DEF Register, Typed
  <2>4. reg'.hash \in {None, reg.hash} /\ UNCHANGED <<tx, saved>>
    BY <1>5 DEF Register
  <2> QED BY <2>1, <2>2, <2>3, <2>4 DEF Hashes, RunHashes, HashSent, SuccessTrue
<1>6. CASE Reset(i)
  <2>1. inst'[i].hash = None /\ \A j \in Instances \ {i} : inst'[j] = inst[j]
    BY <1>6 DEF Reset, Typed, NewInstance
  <2>2. \A q \in Runs : runs'[q].pc = runs[q].pc /\ runs'[q].hash = runs[q].hash
    BY <1>6 DEF Reset, Typed, RunType
  <2>3. tx' = tx /\ \A p \in Pages : saved'[p] \in {None, saved[p]}
    BY <1>6 DEF Reset, Typed
  <2>4. HashSent(reg.hash)'
    BY <1>6, <2>3, RemoveHash DEF Reset, FinalizeDedupe, Hashes, HashSent
  <2> QED BY <2>1, <2>2, <2>3, <2>4 DEF Hashes, RunHashes, HashSent, SuccessTrue
<1> QED BY <1>1, <1>2, <1>3, <1>4, <1>5, <1>6 DEF InstanceStep

\* A run may end with an outcome that agrees with the chain.
LEMMA HashesFinish ==
    ASSUME Typed, Linked, Hashes, NEW r \in Runs, Live(r), NEW st, NEW h, NEW c,
           Finish(r, st, h, c), HashSent(h), st = "success" /\ h # None => tx[h] = "ok",
           \A p \in Pages : saved'[p] \in {None, saved[p]}
    PROVE  Hashes'
<1>1. HashSent(reg.hash)'
  BY FinishEffect, RemoveHash DEF FinalizeDedupe, Hashes, HashSent
<1>2. tx' = tx /\ RunHashes'
  BY FinishEffect DEF Hashes, RunHashes
<1>3. \A i \in Instances : HashSent(inst[i].hash)' /\ SuccessTrue(inst[i])'
  BY <1>2, FinishEffect DEF Hashes, HashSent, SuccessTrue
<1> QED BY <1>1, <1>2, <1>3 DEF Hashes, HashSent

\* Showing a sent hash short of success keeps every screen true.
LEMMA HashesShow ==
    ASSUME Typed, Linked, Hashes, NEW r \in Runs, Live(r), NEW st, NEW h, Show(r, st, h),
           HashSent(h), st # "success", tx' = tx
    PROVE  \A i \in Instances : HashSent(inst[i].hash)' /\ SuccessTrue(inst[i])'
  BY ShowEffect DEF Hashes, HashSent, SuccessTrue

\* No step of a run shows, stores or confirms what the chain does not bear out.
LEMMA HashesRun ==
    ASSUME Typed, Linked, Hashes, NEW r \in Runs, RunStep(r)
    PROVE  Hashes'
<1>a. ASSUME ForgetHash(r) PROVE \A p \in Pages : saved'[p] \in {None, saved[p]}
  BY <1>a DEF ForgetHash, Typed
<1>b. ASSUME Live(r) PROVE HashSent(inst[runs[r].inst].hash)
  BY <1>b DEF Linked, Hashes
<1>c. r # None
  BY TxAssumption
<1>1. CASE CancelEarly(r) \/ FnFails(r)
  <2>1. Live(r) /\ saved' = saved
    BY <1>1 DEF CancelEarly, FnFails, At, Live
  <2>2. \E c : Finish(r, "error", inst[runs[r].inst].hash, c)
    BY <1>1 DEF CancelEarly, FnFails
  <2> QED BY <2>1, <2>2, <1>b, HashesFinish
<1>2. CASE Sign(r)
  <2>1. Live(r) /\ Show(r, "signing", inst[runs[r].inst].hash) /\ UNCHANGED <<tx, saved, reg>>
    BY <1>2 DEF Sign, At, Live
  <2>2. RunHashes'
    BY <1>2 DEF Sign, At, Goto, Typed, RunType, Hashes, RunHashes
  <2> QED BY <2>1, <2>2, <1>b, HashesShow DEF Hashes, HashSent
<1>3. CASE Submit(r) \/ Include(r)
  <2>1. \A q \in Runs : /\ tx[q] # "none" => tx'[q] # "none"
                        /\ tx[q] = "ok" => tx'[q] = "ok"
    BY <1>3 DEF Submit, Include, Typed
  <2>2. UNCHANGED <<inst, runs, saved, reg>>
    BY <1>3 DEF Submit, Include
  <2>3. /\ \A i \in Instances : inst[i].hash \in HashOrNone
        /\ \A p \in Pages : saved[p] \in HashOrNone
        /\ reg.hash \in HashOrNone
    BY DEF Typed, InstanceType
  <2>4. \A i \in Instances : HashSent(inst[i].hash)' /\ SuccessTrue(inst[i])'
    BY <2>1, <2>2, <2>3 DEF Hashes, HashSent, SuccessTrue, HashOrNone
  <2>5. HashSent(reg.hash)' /\ \A p \in Pages : HashSent(saved[p])'
    BY <2>1, <2>2, <2>3 DEF Hashes, HashSent, HashOrNone
  <2>6. RunHashes'
    <3>1. \A q \in Runs : tx'[q] = tx[q] \/ runs[q].pc # "none"
      BY <1>3 DEF Submit, Include, Typed, Hashes, RunHashes
    <3> QED BY <2>1, <2>2, <3>1 DEF Hashes, RunHashes
  <2> QED BY <2>4, <2>5, <2>6 DEF Hashes
<1>4. CASE FnReturnsHash(r)
  <2>1. Live(r) /\ Show(r, "confirming", r) /\ tx' = tx /\ HashSent(r)
    BY <1>4 DEF FnReturnsHash, At, Live, HashSent
  <2>2. \A p \in Pages : saved'[p] \in {r, saved[p]}
    BY <1>4 DEF FnReturnsHash, Typed
  <2>3. reg'.hash \in {r, reg.hash}
    BY <1>4 DEF FnReturnsHash, Typed
  <2>4. RunHashes'
    BY <1>4 DEF FnReturnsHash, Typed, RunType, Hashes, RunHashes
  <2> QED BY <2>1, <2>2, <2>3, <2>4, HashesShow DEF Hashes, HashSent
<1>5. CASE FnReturnsNoHash(r)
  <2>1. Live(r) /\ Show(r, "indexer_pending", None) /\ UNCHANGED <<tx, saved, reg>>
    BY <1>5 DEF FnReturnsNoHash, At, Live
  <2>2. RunHashes'
    BY <1>5 DEF FnReturnsNoHash, At, Goto, Typed, RunType, Hashes, RunHashes
  <2> QED BY <2>1, <2>2, HashesShow DEF Hashes, HashSent
<1>6. CASE ConfirmAborted(r)
  <2>1. \A j \in Instances : inst'[j].hash = inst[j].hash /\ inst'[j].state = inst[j].state
    BY <1>6 DEF ConfirmAborted, Typed, InstanceType
  <2>2. RunHashes'
    BY <1>6 DEF ConfirmAborted, Goto, Typed, RunType, Hashes, RunHashes
  <2>3. UNCHANGED <<tx, saved, reg>>
    BY <1>6 DEF ConfirmAborted
  <2> QED BY <2>1, <2>2, <2>3 DEF Hashes, HashSent, SuccessTrue
<1>7. CASE ConfirmSuccess(r)
  <2>1. /\ Live(r) /\ Show(r, "indexer_pending", r) /\ UNCHANGED <<tx, saved, reg>>
        /\ HashSent(r)
    BY <1>7 DEF ConfirmSuccess, At, Live, HashSent
  <2>2. RunHashes'
    BY <1>7 DEF ConfirmSuccess, At, Goto, Typed, RunType, Hashes, RunHashes
  <2> QED BY <2>1, <2>2, HashesShow DEF Hashes, HashSent
<1>8. CASE ConfirmFailed(r) \/ ConfirmTimeout(r)
  <2>1. Live(r) /\ Finish(r, "error", r, None) /\ ForgetHash(r) /\ HashSent(r)
    BY <1>8 DEF ConfirmFailed, ConfirmTimeout, At, Live, Hashes, RunHashes, HashSent
  <2> QED BY <2>1, <1>a, HashesFinish
<1>9. CASE Succeed(r)
  <2>1. /\ Live(r) /\ Finish(r, "success", runs[r].hash, None) /\ ForgetHash(r)
        /\ runs[r].hash # None => tx[runs[r].hash] = "ok"
    BY <1>9 DEF Succeed, At, Live, Hashes, RunHashes
  <2>2. HashSent(runs[r].hash)
    BY <2>1 DEF HashSent
  <2> QED BY <2>1, <2>2, <1>a, HashesFinish
<1> QED
  BY <1>1, <1>2, <1>3, <1>4, <1>5, <1>6, <1>7, <1>8, <1>9 DEF RunStep

\* Every step keeps hashes true to the chain.
LEMMA HashesStep == Typed /\ Linked /\ Hashes /\ [TNext]_tvars => Hashes'
<1> SUFFICES ASSUME Typed, Linked, Hashes, [TNext]_tvars PROVE Hashes'
  OBVIOUS
<1>1. ASSUME NEW p \in Pages, Reload(p) PROVE Hashes'
  <2>1. UNCHANGED <<tx, saved, reg>>
    BY <1>1 DEF Reload
  <2> QED BY <1>1, <2>1, ReloadEffect DEF Hashes, RunHashes, HashSent, SuccessTrue
<1>2. ASSUME NEW p \in Pages, Notice(p) PROVE Hashes'
  <2>1. UNCHANGED <<runs, tx, saved, reg>>
    BY <1>2, ZenonT(30) DEF Notice
  <2> QED BY <1>2, <2>1, NoticeEffect DEF Hashes, RunHashes, HashSent, SuccessTrue
<1>3. CASE Expire
  BY <1>3 DEF Expire, Typed, Hashes, RunHashes, HashSent, SuccessTrue
<1>4. CASE UNCHANGED tvars
  BY <1>4 DEF tvars, Hashes, RunHashes, HashSent, SuccessTrue
<1> QED BY <1>1, <1>2, <1>3, <1>4, HashesInstance, HashesRun DEF TNext

\* An instance that shows its own hash as indexer_pending shows an included one.
OwnConfirmed(i) ==
    inst[i].state = "indexer_pending" /\ inst[i].hash # None /\ runs[inst[i].hash].inst = i
        => tx[inst[i].hash] = "ok"

Confirmed == \A i \in Instances : OwnConfirmed(i)

\* What an instance shows stays confirmed while it, its run and the inclusion stay.
LEMMA KeptConfirmed ==
    ASSUME Typed, Confirmed, NEW j \in Instances,
           \/ inst'[j].hash = None
           \/ inst'[j].state # "indexer_pending"
           \/ inst'[j].hash = inst[j].hash /\ inst'[j].state = inst[j].state,
           \A q \in Runs : tx[q] = "ok" => tx'[q] = "ok",
           \A q \in Runs : runs'[q].inst = runs[q].inst
    PROVE  OwnConfirmed(j)'
<1>1. inst[j].hash \in Runs \cup {None}
  BY DEF Typed, InstanceType, HashOrNone
<1> QED BY <1>1 DEF Confirmed, OwnConfirmed

\* A new instance restores only another's hash, and a new run has none.
LEMMA ConfirmedInstance ==
    ASSUME Typed, Linked, Hashes, Confirmed, NEW i \in Instances, InstanceStep(i)
    PROVE  Confirmed'
<1> SUFFICES ASSUME NEW j \in Instances PROVE OwnConfirmed(j)'
  BY DEF Confirmed
<1>1. ASSUME NEW p \in Pages, Mount(i, p) PROVE OwnConfirmed(j)'
  <2>1. UNCHANGED <<runs, tx>> /\ inst[i].at = "new"
    BY <1>1 DEF Mount
  <2>2. inst'[i].hash = saved[p] /\ \A k \in Instances \ {i} : inst'[k] = inst[k]
    BY <1>1 DEF Mount, Typed, InstanceType
  <2>3. CASE j = i
    <3>1. saved[p] = None \/ runs[saved[p]].inst # i
      BY <2>1 DEF Linked, Typed, HashOrNone
    <3> QED BY <2>1, <2>2, <2>3, <3>1 DEF OwnConfirmed
  <2> QED BY <2>1, <2>2, <2>3 DEF Confirmed, OwnConfirmed
<1>2. CASE Unmount(i) \/ RunDuplicate(i) \/ RunFirst(i) \/ RunUnread(i)
  <2>1. \/ inst'[j].hash = None
        \/ inst'[j].state # "indexer_pending"
        \/ inst'[j].hash = inst[j].hash /\ inst'[j].state = inst[j].state
    BY <1>2 DEF Unmount, RunDuplicate, RunFirst, RunUnread, Typed, InstanceType
  <2>2. UNCHANGED <<runs, tx>>
    BY <1>2 DEF Unmount, RunDuplicate, RunFirst, RunUnread
  <2> QED BY <2>1, <2>2, KeptConfirmed
<1>3. CASE Register(i)
  <2>1. started + 1 \in Runs /\ tx[started + 1] = "none"
    BY <1>3, TxAssumption DEF Register, Typed, Linked, Runs, Hashes, RunHashes
  <2>2. inst'[i].hash = None /\ \A k \in Instances \ {i} : inst'[k] = inst[k]
    BY <1>3 DEF Register, Typed, InstanceType
  <2>3. tx' = tx /\ \A q \in Runs \ {started + 1} : runs'[q] = runs[q]
    BY <1>3, <2>1 DEF Register, Typed
  <2>4. inst[j].hash \in Runs \cup {None} /\ HashSent(inst[j].hash)
    BY DEF Typed, InstanceType, HashOrNone, Hashes
  <2> QED BY <2>1, <2>2, <2>3, <2>4 DEF Confirmed, OwnConfirmed, HashSent
<1>4. CASE Abort(i) \/ Reset(i)
  <2>1. \/ inst'[j].hash = None
        \/ inst'[j].hash = inst[j].hash /\ inst'[j].state = inst[j].state
    <3>1. CASE Abort(i)
      BY <3>1 DEF Abort, Typed, InstanceType
    <3>2. CASE Reset(i)
      BY <3>2 DEF Reset, Typed, NewInstance
    <3> QED BY <1>4, <3>1, <3>2
  <2>2. \A q \in Runs : runs'[q].inst = runs[q].inst
    BY <1>4 DEF Abort, Reset, Typed, RunType
  <2>3. tx' = tx
    BY <1>4 DEF Abort, Reset
  <2> QED BY <2>1, <2>2, <2>3, KeptConfirmed
<1> QED BY <1>1, <1>2, <1>3, <1>4 DEF InstanceStep

\* Showing another state, no hash or an included one keeps the screens confirmed.
LEMMA ConfirmedShow ==
    ASSUME Typed, Linked, Confirmed, NEW r \in Runs, Live(r), NEW st, NEW h,
           Show(r, st, h), st = "indexer_pending" /\ h # None => tx[h] = "ok", tx' = tx,
           \A q \in Runs : runs'[q].inst = runs[q].inst
    PROVE  Confirmed'
<1> SUFFICES ASSUME NEW j \in Instances PROVE OwnConfirmed(j)'
  BY DEF Confirmed
<1>1. CASE inst'[j].state = st /\ inst'[j].hash = h
  BY <1>1 DEF OwnConfirmed
<1>2. CASE inst'[j].hash = inst[j].hash /\ inst'[j].state = inst[j].state
  BY <1>2, KeptConfirmed
<1> QED BY <1>1, <1>2, ShowEffect

\* No run says indexer_pending of its hash before it saw it included.
LEMMA ConfirmedRun ==
    ASSUME Typed, Linked, Hashes, Confirmed, NEW r \in Runs, RunStep(r)
    PROVE  Confirmed'
<1>1. ASSUME NEW st, NEW h, NEW c, Live(r), Finish(r, st, h, c), st # "indexer_pending"
      PROVE  Confirmed'
  <2>1. /\ \A q \in Runs : runs'[q].inst = runs[q].inst
        /\ tx' = tx
    BY <1>1, FinishEffect
  <2>2. ASSUME NEW j \in Instances PROVE OwnConfirmed(j)'
    <3>1. \/ inst'[j].state # "indexer_pending"
          \/ inst'[j].hash = inst[j].hash /\ inst'[j].state = inst[j].state
      BY <1>1, FinishEffect
    <3> QED BY <2>1, <3>1, KeptConfirmed
  <2> QED BY <2>2 DEF Confirmed
<1>2. CASE Sign(r) \/ FnReturnsHash(r)
  <2>1. /\ Live(r) /\ tx' = tx
        /\ \E h : Show(r, "signing", h) \/ Show(r, "confirming", h)
    BY <1>2 DEF Sign, FnReturnsHash, At, Live
  <2>2. \A q \in Runs : runs'[q].inst = runs[q].inst
    BY <1>2 DEF Sign, FnReturnsHash, Goto, Typed, RunType
  <2> QED BY <2>1, <2>2, ConfirmedShow
<1>3. CASE FnReturnsNoHash(r)
  <2>1. Live(r) /\ tx' = tx /\ Show(r, "indexer_pending", None)
    BY <1>3 DEF FnReturnsNoHash, At, Live
  <2>2. \A q \in Runs : runs'[q].inst = runs[q].inst
    BY <1>3 DEF FnReturnsNoHash, Goto, Typed, RunType
  <2> QED BY <2>1, <2>2, ConfirmedShow
<1>4. CASE ConfirmSuccess(r)
  <2>1. Live(r) /\ tx' = tx /\ Show(r, "indexer_pending", r) /\ tx[r] = "ok"
    BY <1>4 DEF ConfirmSuccess, At, Live
  <2>2. \A q \in Runs : runs'[q].inst = runs[q].inst
    BY <1>4 DEF ConfirmSuccess, Goto, Typed, RunType
  <2> QED BY <2>1, <2>2, ConfirmedShow
<1>5. CASE ConfirmAborted(r)
  <2>1. \A j \in Instances : inst'[j].hash = inst[j].hash /\ inst'[j].state = inst[j].state
    BY <1>5 DEF ConfirmAborted, Typed, InstanceType
  <2>2. tx' = tx /\ \A q \in Runs : runs'[q].inst = runs[q].inst
    BY <1>5 DEF ConfirmAborted, Goto, Typed, RunType
  <2> QED BY <2>1, <2>2, KeptConfirmed DEF Confirmed
<1>6. CASE Submit(r) \/ Include(r)
  <2>1. \A q \in Runs : tx[q] = "ok" => tx'[q] = "ok"
    BY <1>6 DEF Submit, Include, Typed
  <2>2. UNCHANGED <<inst, runs>>
    BY <1>6 DEF Submit, Include
  <2> QED BY <2>1, <2>2, KeptConfirmed DEF Confirmed
<1>7. CASE CancelEarly(r) \/ FnFails(r)
  BY <1>7, <1>1 DEF CancelEarly, FnFails, At, Live
<1>8. CASE ConfirmFailed(r) \/ ConfirmTimeout(r) \/ Succeed(r)
  BY <1>8, <1>1 DEF ConfirmFailed, ConfirmTimeout, Succeed, At, Live
<1> QED
  BY <1>2, <1>3, <1>4, <1>5, <1>6, <1>7, <1>8 DEF RunStep

\* Every step keeps what an instance says of its own runs confirmed.
LEMMA ConfirmedStep ==
    Typed /\ Linked /\ Hashes /\ Confirmed /\ [TNext]_tvars => Confirmed'
<1> SUFFICES ASSUME Typed, Linked, Hashes, Confirmed, [TNext]_tvars PROVE Confirmed'
  OBVIOUS
<1>1. ASSUME NEW p \in Pages, Reload(p) PROVE Confirmed'
  <2>1. tx' = tx
    BY <1>1 DEF Reload
  <2>2. \A q \in Runs : runs'[q].inst = runs[q].inst
    BY <1>1, ReloadEffect
  <2>3. \A j \in Instances : inst'[j].hash = None \/ inst'[j] = inst[j]
    BY <1>1, ReloadEffect
  <2> QED BY <2>1, <2>2, <2>3, KeptConfirmed DEF Confirmed
<1>2. ASSUME NEW p \in Pages, Notice(p) PROVE Confirmed'
  <2>1. UNCHANGED <<runs, tx>>
    BY <1>2, ZenonT(30) DEF Notice
  <2> QED BY <1>2, <2>1, NoticeEffect, KeptConfirmed DEF Confirmed
<1>3. CASE Expire \/ UNCHANGED tvars
  BY <1>3 DEF Expire, tvars, Confirmed, OwnConfirmed
<1> QED BY <1>1, <1>2, <1>3, ConfirmedInstance, ConfirmedRun DEF TNext

\* Every hash shown, persisted or registered was sent; one shown with "success", or with
\* "indexer_pending" by the instance that ran it, is included with success (setTxState,
\* sessionStorage, updateIntentStatus), in every reachable state.
THEOREM ScreensTellChain == TSpec => []ScreenTellsChain
<1>1. TInit => Hashes /\ Confirmed
  BY DEF TInit, NoEntry, Hashes, RunHashes, HashSent, SuccessTrue, NewInstance, Confirmed,
     OwnConfirmed
<1>2. Hashes /\ Confirmed => ScreenTellsChain
  BY DEF ScreenTellsChain, Hashes, HashSent, SuccessTrue, Confirmed, OwnConfirmed
<1> QED BY <1>1, <1>2, TypedInit, StepTyped, HashesStep, ConfirmedStep, PTL DEF TSpec

-----------------------------------------------------------------------------
(* One run in flight.                                                       *)

\* A live run's entry stands and its instance would free it; nobody is about to
\* register while one is live; and there is one.
Exclusive ==
    /\ \A r \in Runs : Live(r) => Pending /\ inst[runs[r].inst].scope
    /\ \A i \in Instances, r \in Runs : inst[i].registering => ~Live(r)
    /\ \A r, q \in Runs : Live(r) /\ Live(q) => r = q

Held == ~overridden => Exclusive

\* An instance starts a run when none is live, or a slot was overridden.
LEMMA HeldInstance ==
    ASSUME Typed, Linked, Held, NEW i \in Instances, InstanceStep(i)
    PROVE  Held'
<1> SUFFICES ASSUME ~overridden' PROVE Exclusive'
  BY DEF Held
<1>1. ASSUME NEW p \in Pages, Mount(i, p) PROVE Exclusive'
  <2>1. Exclusive /\ UNCHANGED <<runs, reg>>
    BY <1>1 DEF Mount, Held
  <2>2. \A j \in Instances : /\ inst'[j].scope = inst[j].scope
                             /\ inst'[j].registering = inst[j].registering
    BY <1>1 DEF Mount, Typed, InstanceType
  <2> QED BY <2>1, <2>2 DEF Exclusive, Live, Linked, Pending
<1>2. CASE Unmount(i) \/ RunDuplicate(i)
  <2>1. Exclusive /\ UNCHANGED <<runs, reg>>
    BY <1>2 DEF Unmount, RunDuplicate, Held
  <2>2. \A j \in Instances : /\ inst'[j].scope = inst[j].scope
                             /\ inst'[j].registering = inst[j].registering
    BY <1>2 DEF Unmount, RunDuplicate, Typed, InstanceType
  <2> QED BY <2>1, <2>2 DEF Exclusive, Live, Linked, Pending
<1>7. CASE RunUnread(i)
  BY <1>7, Zenon DEF RunUnread
<1>3. CASE RunFirst(i)
  <2>1. Exclusive /\ ~Pending /\ runs' = runs
    BY <1>3 DEF RunFirst, Held
  <2>2. \A r \in Runs : ~Live(r)'
    BY <2>1 DEF Exclusive, Live
  <2> QED BY <2>2 DEF Exclusive
<1>4. CASE Register(i)
  <2>1. started + 1 \in Runs
    BY <1>4, TxAssumption DEF Register, Typed, Runs
  <2>2. ~overridden /\ \A j \in Instances \ {i} : ~inst[j].registering
    BY <1>4, Zenon DEF Register
  <2>3. \A q \in Runs : ~Live(q)
    BY <1>4, <2>2 DEF Held, Exclusive, Register
  <2>4. /\ runs'[started + 1].inst = i
        /\ \A q \in Runs \ {started + 1} : runs'[q] = runs[q]
    BY <1>4, <2>1 DEF Register, Typed
  <2>5. /\ inst'[i].scope /\ ~inst'[i].registering
        /\ \A j \in Instances \ {i} : inst'[j] = inst[j]
    BY <1>4 DEF Register, Typed, InstanceType
  <2>6. Pending'
    BY <1>4 DEF Register, Pending
  <2> QED BY <2>2, <2>3, <2>4, <2>5, <2>6 DEF Exclusive, Live
<1>5. CASE Abort(i)
  <2>1. Exclusive /\ reg' = reg
    BY <1>5 DEF Abort, Held
  <2>2. \A j \in Instances : /\ inst'[j].scope = inst[j].scope
                             /\ inst'[j].registering = inst[j].registering
    BY <1>5 DEF Abort, Typed, InstanceType
  <2>3. \A q \in Runs : runs'[q].pc = runs[q].pc /\ runs'[q].inst = runs[q].inst
    BY <1>5 DEF Abort, Typed, RunType
  <2> QED BY <2>1, <2>2, <2>3 DEF Exclusive, Live, Linked, Pending
<1>6. CASE Reset(i)
  <2>1. ~overridden /\ (inst[i].scope => LiveRuns = {})
    BY <1>6, Zenon DEF Reset
  <2>2. Exclusive
    BY <2>1 DEF Held
  <2>3. \A q \in Runs : runs'[q].pc = runs[q].pc /\ runs'[q].inst = runs[q].inst
    BY <1>6 DEF Reset, Typed, RunType
  <2>4. CASE inst[i].scope
    <3>1. \A r \in Runs : ~Live(r)'
      BY <2>1, <2>3, <2>4 DEF LiveRuns, Live
    <3> QED BY <3>1 DEF Exclusive
  <2>5. CASE ~inst[i].scope
    <3>1. reg' = reg
      BY <1>6, <2>5 DEF Reset, FinalizeDedupe
    <3>2. ~inst'[i].registering /\ \A j \in Instances \ {i} : inst'[j] = inst[j]
      BY <1>6 DEF Reset, Typed, NewInstance
    <3> QED BY <2>2, <2>3, <2>5, <3>1, <3>2 DEF Exclusive, Live, Linked, Pending
  <2> QED BY <2>4, <2>5
<1> QED BY <1>1, <1>2, <1>3, <1>4, <1>5, <1>6, <1>7 DEF InstanceStep

\* A run that stays live, on its own page, without touching the slot.
LEMMA HeldShow ==
    ASSUME Typed, Linked, Exclusive, NEW r \in Runs, Live(r), NEW st, NEW h, Show(r, st, h),
           \A q \in Runs : runs'[q].inst = runs[q].inst /\ (runs'[q].pc = runs[q].pc \/ q = r),
           Pending => Pending'
    PROVE  Exclusive'
  BY ShowEffect DEF Exclusive, Live, Linked

\* The only live run ends.
LEMMA HeldEnd ==
    ASSUME Exclusive, NEW r \in Runs, Live(r), ~Live(r)',
           \A q \in Runs : runs'[q].pc = runs[q].pc \/ q = r
    PROVE  Exclusive'
<1>1. \A q \in Runs : ~Live(q)'
  BY DEF Exclusive, Live
<1> QED BY <1>1 DEF Exclusive

\* A run keeps its slot until it ends.
LEMMA HeldRun ==
    ASSUME Typed, Linked, Held, NEW r \in Runs, RunStep(r)
    PROVE  Held'
<1>a. ASSUME overridden' = overridden, Exclusive => Exclusive' PROVE Held'
  BY <1>a DEF Held
<1>1. ASSUME NEW st, NEW h, NEW c, Live(r), Finish(r, st, h, c) PROVE Held'
  <2>1. overridden' = overridden /\ runs'[r].pc = "done"
    BY <1>1, FinishEffect
  <2>2. \A q \in Runs : runs'[q].pc = runs[q].pc \/ q = r
    BY <1>1, FinishEffect
  <2>3. ~Live(r)'
    BY <2>1 DEF Live
  <2> QED BY <1>1, <1>a, <2>1, <2>2, <2>3, HeldEnd
<1>2. CASE Sign(r)
  <2>1. Live(r) /\ Show(r, "signing", inst[runs[r].inst].hash) /\ UNCHANGED <<reg, overridden>>
    BY <1>2 DEF Sign, At, Live
  <2>2. \A q \in Runs : runs'[q].inst = runs[q].inst /\ (runs'[q].pc = runs[q].pc \/ q = r)
    BY <1>2 DEF Sign, Goto, Typed, RunType
  <2> QED BY <2>1, <2>2, <1>a, HeldShow DEF Pending
<1>3. CASE FnReturnsHash(r)
  <2>1. Live(r) /\ Show(r, "confirming", r) /\ overridden' = overridden
    BY <1>3 DEF FnReturnsHash, At, Live
  <2>2. \A q \in Runs : runs'[q].inst = runs[q].inst /\ (runs'[q].pc = runs[q].pc \/ q = r)
    BY <1>3 DEF FnReturnsHash, Typed, RunType
  <2>3. Pending => Pending'
    BY <1>3 DEF FnReturnsHash, Typed, Pending
  <2> QED BY <2>1, <2>2, <2>3, <1>a, HeldShow
<1>4. CASE FnReturnsNoHash(r)
  <2>1. Live(r) /\ Show(r, "indexer_pending", None) /\ UNCHANGED <<reg, overridden>>
    BY <1>4 DEF FnReturnsNoHash, At, Live
  <2>2. \A q \in Runs : runs'[q].inst = runs[q].inst /\ (runs'[q].pc = runs[q].pc \/ q = r)
    BY <1>4 DEF FnReturnsNoHash, Goto, Typed, RunType
  <2> QED BY <2>1, <2>2, <1>a, HeldShow DEF Pending
<1>5. CASE ConfirmSuccess(r)
  <2>1. Live(r) /\ Show(r, "indexer_pending", r) /\ UNCHANGED <<reg, overridden>>
    BY <1>5 DEF ConfirmSuccess, At, Live
  <2>2. \A q \in Runs : runs'[q].inst = runs[q].inst /\ (runs'[q].pc = runs[q].pc \/ q = r)
    BY <1>5 DEF ConfirmSuccess, Goto, Typed, RunType
  <2> QED BY <2>1, <2>2, <1>a, HeldShow DEF Pending
<1>6. CASE ConfirmAborted(r)
  <2>1. Live(r) /\ ~Live(r)' /\ overridden' = overridden
    BY <1>6 DEF ConfirmAborted, At, Goto, Live, Typed, RunType
  <2>2. \A q \in Runs : runs'[q].pc = runs[q].pc \/ q = r
    BY <1>6 DEF ConfirmAborted, Goto, Typed, RunType
  <2> QED BY <2>1, <2>2, <1>a, HeldEnd
<1>7. CASE Submit(r) \/ Include(r)
  BY <1>7 DEF Submit, Include, Held, Exclusive, Live, Pending
<1>8. CASE CancelEarly(r) \/ FnFails(r)
  BY <1>8, <1>1 DEF CancelEarly, FnFails, At, Live
<1>9. CASE ConfirmFailed(r) \/ ConfirmTimeout(r) \/ Succeed(r)
  BY <1>9, <1>1 DEF ConfirmFailed, ConfirmTimeout, Succeed, At, Live
<1> QED
  BY <1>2, <1>3, <1>4, <1>5, <1>6, <1>7, <1>8, <1>9 DEF RunStep

\* Every step keeps the slot exclusive unless it overrides it.
LEMMA HeldStep == Typed /\ Linked /\ Held /\ [TNext]_tvars => Held'
<1> SUFFICES ASSUME Typed, Linked, Held, [TNext]_tvars PROVE Held'
  OBVIOUS
<1>1. ASSUME NEW p \in Pages, Reload(p) PROVE Held'
  <2>1. UNCHANGED <<reg, overridden>>
    BY <1>1 DEF Reload
  <2>2. Exclusive => Exclusive'
    BY <1>1, <2>1, ReloadEffect DEF Exclusive, Live, Linked, Pending, Where, PageOf
  <2> QED BY <2>1, <2>2 DEF Held
<1>2. ASSUME NEW p \in Pages, Notice(p) PROVE Held'
  <2>1. UNCHANGED <<runs, reg, overridden>>
    BY <1>2, ZenonT(30) DEF Notice
  <2>2. Exclusive => Exclusive'
    BY <1>2, <2>1, NoticeEffect DEF Exclusive, Live, Linked, Pending
  <2> QED BY <2>1, <2>2 DEF Held
<1>3. CASE Expire
  <2>1. ~overridden' => ~overridden /\ LiveRuns = {}
    BY <1>3, Zenon DEF Expire
  <2>2. LiveRuns = {} => Exclusive'
    BY <1>3 DEF Expire, LiveRuns, Live, Exclusive
  <2> QED BY <2>1, <2>2 DEF Held
<1>4. CASE UNCHANGED tvars
  BY <1>4 DEF tvars, Held, Exclusive, Live, Pending
<1> QED BY <1>1, <1>2, <1>3, <1>4, HeldInstance, HeldRun DEF TNext

\* Without an override the intent has at most one live run, over all pages and instances
\* (beginIntent, finalizeDedupe), in every reachable state.
THEOREM OneRunAtATime == TSpec => []OneRunInFlight
<1>1. TInit => Held
  BY DEF TInit, Held, Exclusive, Live
<1>2. Held => OneRunInFlight
  BY DEF Held, Exclusive, OneRunInFlight, LiveRuns
<1> QED BY <1>1, <1>2, TypedInit, StepTyped, HeldStep, PTL DEF TSpec

-----------------------------------------------------------------------------
(* Watchers on the other pages.                                             *)

\* A step that removes the entry leaves untold watchers on its own page only.
LEMMA RemoveTold ==
    ASSUME Typed, Linked, OtherPagesTold, NEW p, RemoveEntry(p),
           \A i \in Instances : (inst'[i].watch => inst[i].watch) /\ inst'[i].page = inst[i].page
    PROVE  OtherPagesTold'
<1>1. CASE Announce(p) /\ remover' = p
  <2>1. ASSUME NEW i \in Instances, Untold(i)' PROVE PageOf(i)' = p
    <3>1. Mounted(i) /\ PageOf(i) \in Pages /\ inst'[i].page = PageOf(i)
      BY <2>1 DEF Untold, Linked, PageOf
    <3>2. ~told'[PageOf(i)]
      BY <2>1, <3>1 DEF Untold, PageOf
    <3> QED BY <1>1, <3>1, <3>2, ZenonT(30) DEF Announce, PageOf
  <2> QED BY <1>1, <2>1 DEF OtherPagesTold
<1>2. CASE UNCHANGED <<reg, told, remover>>
  BY <1>2 DEF OtherPagesTold, Untold, PageOf
<1> QED BY <1>1, <1>2, Zenon DEF RemoveEntry

\* A step that adds no watcher and unsays nothing.
LEMMA KeptTold ==
    ASSUME OtherPagesTold, UNCHANGED <<reg, told, remover>>,
           \A i \in Instances : inst'[i].watch => inst[i].watch /\ inst'[i].page = inst[i].page
    PROVE  OtherPagesTold'
  BY DEF OtherPagesTold, Untold, PageOf

\* No step of an instance strands a watcher of another page.
LEMMA ToldInstance ==
    ASSUME Typed, Linked, OtherPagesTold, NEW i \in Instances, InstanceStep(i)
    PROVE  OtherPagesTold'
<1>1. ASSUME NEW p \in Pages, Mount(i, p) PROVE OtherPagesTold'
  <2>1. inst[i].at = "new" /\ UNCHANGED <<reg, told, remover>>
    BY <1>1 DEF Mount
  <2>2. inst'[i].watch = inst[i].watch /\ \A j \in Instances \ {i} : inst'[j] = inst[j]
    BY <1>1 DEF Mount, Typed, InstanceType
  <2>3. ~inst[i].watch
    BY <2>1 DEF Linked, Mounted
  <2> QED BY <2>1, <2>2, <2>3, KeptTold
<1>2. CASE Unmount(i) \/ RunFirst(i) \/ RunUnread(i) \/ Abort(i)
  <2>1. \A j \in Instances : inst'[j].watch => inst[j].watch /\ inst'[j].page = inst[j].page
    BY <1>2 DEF Unmount, RunFirst, RunUnread, Abort, Typed, InstanceType
  <2>2. UNCHANGED <<reg, told, remover>>
    BY <1>2 DEF Unmount, RunFirst, RunUnread, Abort
  <2> QED BY <2>1, <2>2, KeptTold
<1>3. CASE RunDuplicate(i)
  BY <1>3 DEF RunDuplicate, Pending, OtherPagesTold
<1>5. CASE Register(i)
  <2>1. \A j \in Instances : inst'[j].watch => inst[j].watch /\ inst'[j].page = inst[j].page
    BY <1>5 DEF Register, Typed, InstanceType
  <2>2. reg'.has \/ UNCHANGED <<reg, told, remover>>
    BY <1>5 DEF Register
  <2> QED BY <2>1, <2>2, KeptTold DEF OtherPagesTold
<1>4. CASE Reset(i)
  <2>1. /\ ~inst'[i].watch /\ inst'[i].page = inst[i].page
        /\ \A j \in Instances \ {i} : inst'[j] = inst[j]
    BY <1>4 DEF Reset, Typed, NewInstance, PageOf
  <2>2. RemoveEntry(PageOf(i)) \/ UNCHANGED <<reg, told, remover>>
    BY <1>4 DEF Reset, FinalizeDedupe
  <2> QED BY <2>1, <2>2, RemoveTold, KeptTold
<1> QED BY <1>1, <1>2, <1>3, <1>4, <1>5 DEF InstanceStep

\* No step of a run strands a watcher of another page.
LEMMA ToldRun ==
    ASSUME Typed, Linked, OtherPagesTold, NEW r \in Runs, RunStep(r)
    PROVE  OtherPagesTold'
<1>1. ASSUME NEW st, NEW h, NEW c, Live(r), Finish(r, st, h, c) PROVE OtherPagesTold'
  <2>1. \A j \in Instances : inst'[j].watch = inst[j].watch /\ inst'[j].page = inst[j].page
    BY <1>1, FinishEffect
  <2>2. RemoveEntry(PageOf(runs[r].inst)) \/ UNCHANGED <<reg, told, remover>>
    BY <1>1, FinishEffect DEF FinalizeDedupe
  <2> QED BY <2>1, <2>2, RemoveTold, KeptTold
<1>2. ASSUME NEW st, NEW h, Live(r), Show(r, st, h), UNCHANGED <<reg, told, remover>>
      PROVE  OtherPagesTold'
  BY <1>2, ShowEffect, KeptTold
<1>3. CASE FnReturnsHash(r)
  <2>1. CASE reg.has
    <3>1. reg'.has
      BY <1>3, <2>1 DEF FnReturnsHash, Typed
    <3> QED BY <3>1 DEF OtherPagesTold
  <2>2. CASE ~reg.has
    <3>1. Live(r) /\ Show(r, "confirming", r) /\ UNCHANGED <<reg, told, remover>>
      BY <1>3, <2>2 DEF FnReturnsHash, At, Live
    <3> QED BY <3>1, <1>2
  <2> QED BY <2>1, <2>2
<1>4. CASE Sign(r) \/ FnReturnsNoHash(r) \/ ConfirmSuccess(r)
  BY <1>4, <1>2 DEF Sign, FnReturnsNoHash, ConfirmSuccess, At, Live
<1>5. CASE ConfirmAborted(r)
  <2>1. \A j \in Instances : inst'[j].watch = inst[j].watch /\ inst'[j].page = inst[j].page
    BY <1>5 DEF ConfirmAborted, Typed, InstanceType
  <2>2. UNCHANGED <<reg, told, remover>>
    BY <1>5 DEF ConfirmAborted
  <2> QED BY <2>1, <2>2, KeptTold
<1>6. CASE Submit(r) \/ Include(r)
  BY <1>6, KeptTold DEF Submit, Include
<1>7. CASE CancelEarly(r) \/ FnFails(r)
  BY <1>7, <1>1 DEF CancelEarly, FnFails, At, Live
<1>8. CASE ConfirmFailed(r) \/ ConfirmTimeout(r) \/ Succeed(r)
  BY <1>8, <1>1 DEF ConfirmFailed, ConfirmTimeout, Succeed, At, Live
<1> QED
  BY <1>3, <1>4, <1>5, <1>6, <1>7, <1>8 DEF RunStep

\* Every step keeps the other pages told.
LEMMA ToldStep == Typed /\ Linked /\ OtherPagesTold /\ [TNext]_tvars => OtherPagesTold'
<1> SUFFICES ASSUME Typed, Linked, OtherPagesTold, [TNext]_tvars PROVE OtherPagesTold'
  OBVIOUS
<1>1. ASSUME NEW p \in Pages, Reload(p) PROVE OtherPagesTold'
  <2>1. \A i \in Instances : inst'[i].watch => inst'[i] = inst[i] /\ PageOf(i) # p
    BY <1>1, ReloadEffect
  <2>2. UNCHANGED <<reg, remover>> /\ \A q \in Pages \ {p} : told'[q] = told[q]
    BY <1>1 DEF Reload, Typed
  <2>3. \A i \in Instances : inst[i].watch => PageOf(i) \in Pages
    BY DEF Linked
  <2> QED BY <2>1, <2>2, <2>3 DEF OtherPagesTold, Untold, PageOf
<1>2. ASSUME NEW p \in Pages, Notice(p) PROVE OtherPagesTold'
  <2>1. UNCHANGED <<reg, remover>> /\ \A q \in Pages \ {p} : told'[q] = told[q]
    BY <1>2, ZenonT(30) DEF Notice, Typed
  <2>2. ASSUME ~reg.has PROVE \A i \in Instances : PageOf(i) = p => ~inst'[i].watch
    BY <1>2, <2>2, NoticeEffect DEF Pending
  <2>3. \A i \in Instances : /\ inst'[i].watch => inst[i].watch
                             /\ inst'[i].page = inst[i].page
    BY <1>2, NoticeEffect
  <2>4. \A i \in Instances : inst[i].watch => PageOf(i) \in Pages
    BY DEF Linked
  <2> QED BY <2>1, <2>2, <2>3, <2>4 DEF OtherPagesTold, Untold, PageOf
<1>3. CASE Expire
  <2>1. reg.has /\ reg'.has
    BY <1>3 DEF Expire, Pending, Typed
  <2> QED BY <2>1 DEF OtherPagesTold
<1>4. CASE UNCHANGED tvars
  BY <1>4 DEF tvars, OtherPagesTold, Untold, PageOf
<1> QED BY <1>1, <1>2, <1>3, <1>4, ToldInstance, ToldRun DEF TNext

\* Once the entry is gone, a watcher that nobody is telling is on the page that removed
\* it (saveScope, watchDuplicateIntent), in every reachable state.
THEOREM OthersAreTold == TSpec => []OtherPagesTold
<1>1. TInit => OtherPagesTold
  BY DEF TInit, OtherPagesTold, Untold, NewInstance
<1> QED BY <1>1, TypedInit, StepTyped, ToldStep, PTL DEF TSpec

=============================================================================
