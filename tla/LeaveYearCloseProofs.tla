----------------------- MODULE LeaveYearCloseProofs -----------------------
(***************************************************************************)
(* Proofs about LeaveYearClose for any number of employees and workers,    *)
(* any balances and any cap, through every failure the model has.  A       *)
(* worker that met no failure has passed employees whose transaction was   *)
(* committed, by itself or by another: this is what a success rests on,    *)
(* and the status of an item is not enough for it, since a slower worker   *)
(* may set it back.                                                        *)
(***************************************************************************)
EXTENDS LeaveYearClose, FiniteSetTheorems, TLAPS

\* An item that succeeded was committed.
ItemsRolledOver == \A e \in Employees : item[e] = "succeeded" => e \in rolledOver

\* What a worker without failures has behind it.
PassedRolledOver ==
  \A w \in Workers : worker[w].pc = "items" =>
    /\ worker[w].next >= 1
    /\ ~worker[w].failures => \A e \in Employees : e < worker[w].next => e \in rolledOver

YearInv ==
  TypeOK /\ CarryRespectsCap /\ ItemsRolledOver /\ PassedRolledOver /\ SuccessLeavesNoOneOut

\* The records of the type invariant.
RunType == [status : RunStatuses, dispatched : BOOLEAN, started : BOOLEAN, stale : BOOLEAN,
            completed : BOOLEAN]
WorkerType == [pc : {"idle", "items"}, retries : 0..MaxRetries, next : Nat, first : BOOLEAN,
               failures : BOOLEAN]
ListType == [run : RunStatuses, others : BOOLEAN]
PageType == [shown : ListType, poll : {"off", "sent", "answered"}, polled : ListType,
             post : {"off", "sent", "answered"}, posted : RunStatuses, overtaken : BOOLEAN]
ItemType == {"none", "succeeded", "failed"}

USE DEF RunStatuses, Unsettled, Settled

\* Employees are numbered.
LEMMA EmployeesAreNat == Employees \subseteq Nat /\ \A e, n \in Nat :
                           e \in Employees /\ n >= 1 /\ n \notin Employees => e < n
PROOF
  <1>1. Cardinality(Employees) \in Nat /\ Employees = 1..Cardinality(Employees)
    BY YearAssumption, FS_CardinalityType
  <1>2. QED
    BY <1>1

\* An idle worker is one.
LEMMA IdleWorkerType == IdleWorker \in WorkerType /\ IdleWorker.pc = "idle"
  BY YearAssumption DEF IdleWorker, WorkerType

\* A list of runs is one.
LEMMA ListsAreLists ==
  /\ \A status \in RunStatuses, active \in BOOLEAN :
       /\ List(status, active) \in ListType
       /\ List(status, active).run = status /\ List(status, active).others = active
  /\ EmptyList \in ListType
  BY DEF List, EmptyList, ListType

\* Before the close there is nothing to claim.
LEMMA InitYearInv == Init => YearInv
PROOF
  <1> SUFFICES ASSUME Init PROVE YearInv
    OBVIOUS
  <1>1. run \in RunType /\ page \in PageType
    BY ListsAreLists DEF Init, RunType, PageType
  <1>2. worker \in [Workers -> WorkerType] /\ \A w \in Workers : worker[w].pc = "idle"
    BY IdleWorkerType DEF Init
  <1>3. /\ item \in [Employees -> ItemType] /\ source \in [Employees -> Nat]
        /\ carried \in [Employees -> Nat] /\ forfeited \in [Employees -> Nat]
        /\ queue \in [0..MaxRetries -> Nat] /\ events \in 0..MaxEvents
    BY YearAssumption DEF Init, ItemType
  <1>4. TypeOK
    BY <1>1, <1>2, <1>3 DEF Init, TypeOK, RunType, ListType, PageType, WorkerType, ItemType
  <1>5. CarryRespectsCap /\ ItemsRolledOver /\ SuccessLeavesNoOneOut
    BY YearAssumption DEF Init, CarryRespectsCap, ItemsRolledOver, SuccessLeavesNoOneOut
  <1>6. PassedRolledOver
    BY <1>2 DEF PassedRolledOver
  <1>7. QED
    BY <1>4, <1>5, <1>6 DEF YearInv

\* A step that commits no employee: workers stand still, begin or stop, and a
\* success is only reported where everyone is rolled over.
LEMMA QuietStep ==
  ASSUME YearInv, TypeOK', UNCHANGED <<item, carried, forfeited, rolledOver>>,
         \A w \in Workers : worker'[w].pc = "items" => worker'[w] = worker[w] \/ worker'[w].next = 1,
         run'.status = "succeeded" \/ period' # "open" =>
           run.status = "succeeded" \/ period # "open" \/ rolledOver = Employees
  PROVE  YearInv'
PROOF
  <1>1. CarryRespectsCap' /\ ItemsRolledOver'
    BY DEF YearInv, CarryRespectsCap, ItemsRolledOver
  <1>2. PassedRolledOver'
    <2> SUFFICES ASSUME NEW w \in Workers, worker'[w].pc = "items"
                 PROVE  /\ worker'[w].next >= 1
                        /\ ~worker'[w].failures =>
                             \A e \in Employees : e < worker'[w].next => e \in rolledOver
      BY DEF PassedRolledOver
    <2>1. CASE worker'[w] = worker[w]
      BY <2>1 DEF YearInv, PassedRolledOver
    <2>2. CASE worker'[w].next = 1
      <3>1. \A e \in Employees : ~(e < 1)
        BY YearAssumption, FS_CardinalityType
      <3>2. QED
        BY <2>2, <3>1
    <2>3. QED
      BY <2>1, <2>2
  <1>3. SuccessLeavesNoOneOut'
    BY DEF YearInv, SuccessLeavesNoOneOut
  <1>4. QED
    BY <1>1, <1>2, <1>3 DEF YearInv

\* Steps of beat, of the clock, of the period and of the workbench, and of a
\* delivery that is dropped: only rows of the run, the queue or the page change.
LEMMA OutsideStep ==
  ASSUME YearInv, UNCHANGED <<item, carried, forfeited, rolledOver, worker>>,
         run' \in RunType, source' \in [Employees -> Nat], page' \in PageType,
         queue' \in [0..MaxRetries -> Nat], events' \in 0..MaxEvents,
         period' \in {"open", "closed", "locked"}, unstarted' \in BOOLEAN, others' \in BOOLEAN,
         run'.status = "succeeded" => run.status = "succeeded",
         period' # "open" => period # "open" \/ run.status = "succeeded"
  PROVE  YearInv'
PROOF
  <1>1. TypeOK'
    BY DEF YearInv, TypeOK, RunType, ListType, PageType
  <1>2. \A w \in Workers : worker'[w] = worker[w]
    OBVIOUS
  <1>3. QED
    BY <1>1, <1>2, QuietStep

\* Beat and the clock.
LEMMA BeatKeepsInv ==
  ASSUME YearInv, Dispatch \/ DispatchRollsBack \/ Recover \/ BecomesStale
  PROVE  YearInv'
PROOF
  <1> USE YearAssumption
  <1>1. /\ run \in RunType /\ page \in PageType /\ source \in [Employees -> Nat]
        /\ queue \in [0..MaxRetries -> Nat] /\ events \in 0..MaxEvents
        /\ period \in {"open", "closed", "locked"} /\ unstarted \in BOOLEAN /\ others \in BOOLEAN
    BY DEF YearInv, TypeOK, RunType, ListType, PageType
  <1>2. CASE Dispatch
    <2>1. run' \in RunType /\ run'.status = "queued"
      BY <1>1, <1>2 DEF Dispatch, Dispatchable, RunType
    <2>2. queue' \in [0..MaxRetries -> Nat]
      BY <1>1, <1>2 DEF Dispatch, Publish
    <2>3. QED
      BY <1>1, <1>2, <2>1, <2>2, OutsideStep DEF Dispatch
  <1>3. CASE DispatchRollsBack
    <2>1. queue' \in [0..MaxRetries -> Nat]
      BY <1>1, <1>3 DEF DispatchRollsBack, Publish
    <2>2. events' \in 0..MaxEvents
      BY <1>1, <1>3 DEF DispatchRollsBack, Fault, Count
    <2>3. QED
      BY <1>1, <1>3, <2>1, <2>2, OutsideStep DEF DispatchRollsBack, serverVars
  <1>4. CASE Recover
    <2>1. run' \in RunType /\ run'.status = "queued"
      BY <1>1, <1>4 DEF Recover, RunType
    <2>2. QED
      BY <1>1, <1>4, <2>1, OutsideStep DEF Recover, taskVars
  <1>5. CASE BecomesStale
    <2>1. run' \in RunType /\ run'.status = run.status
      BY <1>1, <1>5 DEF BecomesStale, RunType
    <2>2. QED
      BY <1>1, <1>5, <2>1, OutsideStep DEF BecomesStale, taskVars
  <1>6. QED
    BY <1>2, <1>3, <1>4, <1>5

\* Other movements and the transitions of the period.
LEMMA LedgerKeepsInv ==
  ASSUME YearInv,
         \/ \E e \in Employees, granted \in BOOLEAN : OtherMovement(e, granted)
         \/ ClosePeriod \/ ReopenPeriod \/ LockPeriod
  PROVE  YearInv'
PROOF
  <1> USE YearAssumption
  <1>1. /\ run \in RunType /\ page \in PageType /\ source \in [Employees -> Nat]
        /\ queue \in [0..MaxRetries -> Nat] /\ events \in 0..MaxEvents
        /\ period \in {"open", "closed", "locked"} /\ unstarted \in BOOLEAN /\ others \in BOOLEAN
    BY DEF YearInv, TypeOK, RunType, ListType, PageType
  <1>2. ASSUME NEW e \in Employees, NEW granted \in BOOLEAN, OtherMovement(e, granted)
        PROVE  YearInv'
    <2>1. source' \in [Employees -> Nat]
      <3>1. (IF granted THEN source[e] + 1 ELSE source[e] - 1) \in Nat
        BY <1>1, <1>2 DEF OtherMovement
      <3>2. QED
        BY <1>1, <1>2, <3>1 DEF OtherMovement
    <2>2. events' \in 0..MaxEvents
      BY <1>1, <1>2 DEF OtherMovement, Count
    <2>3. QED
      BY <1>1, <1>2, <2>1, <2>2, OutsideStep DEF OtherMovement, taskVars
  <1>3. CASE ClosePeriod \/ ReopenPeriod \/ LockPeriod
    BY <1>1, <1>3, OutsideStep DEF ClosePeriod, Closable, ReopenPeriod, LockPeriod, ChangePeriod, Count, taskVars
  <1>4. QED
    BY <1>2, <1>3

\* The workbench and the endpoint it posts to.
LEMMA PageKeepsInv ==
  ASSUME YearInv,
         \/ CommitClose \/ AcceptRun \/ ReceiveAccepted \/ PostFails
         \/ Poll \/ ServePoll \/ ReceivePoll \/ PollFails \/ OtherRunEnds
  PROVE  YearInv'
PROOF
  <1> USE YearAssumption
  <1>1. /\ run \in RunType /\ page \in PageType /\ source \in [Employees -> Nat]
        /\ queue \in [0..MaxRetries -> Nat] /\ events \in 0..MaxEvents
        /\ period \in {"open", "closed", "locked"} /\ unstarted \in BOOLEAN /\ others \in BOOLEAN
    BY DEF YearInv, TypeOK, RunType, ListType, PageType
  <1>2. CASE AcceptRun
    <2>1. run' \in RunType /\ (run'.status = "succeeded" => run.status = "succeeded")
      BY <1>1, <1>2 DEF AcceptRun, RunType
    <2>2. page' \in PageType
      BY <1>1, <1>2, <2>1, ZenonT(60) DEF AcceptRun, PageType, RunType
    <2>3. QED
      BY <1>1, <1>2, <2>1, <2>2, OutsideStep DEF AcceptRun, taskVars
  <1>3. CASE CommitClose \/ PostFails \/ PollFails
    <2>1. page' \in PageType
      <3>1. CASE CommitClose
        BY <1>1, <3>1 DEF CommitClose, PageType
      <3>2. CASE PostFails
        BY <1>1, <3>2 DEF PostFails, PageType
      <3>3. CASE PollFails
        BY <1>1, <3>3, ListsAreLists DEF PollFails, PageType
      <3>4. QED
        BY <1>3, <3>1, <3>2, <3>3
    <2>2. events' \in 0..MaxEvents
      BY <1>1, <1>3 DEF CommitClose, PostFails, PollFails, Fault, Count
    <2>3. QED
      BY <1>1, <1>3, <2>1, <2>2, OutsideStep DEF CommitClose, PostFails, PollFails, serverVars, taskVars
  <1>4. CASE ReceiveAccepted
    <2> DEFINE list == List(page.posted, page.shown.others)
    <2>1. list \in ListType
      BY <1>1, ListsAreLists DEF PageType, ListType
    <2> HIDE DEF list
    <2>2. Show(list) \in PageType
      <3>1. [page EXCEPT !.shown = list] \in PageType
        BY <1>1, <2>1 DEF PageType
      <3>2. [page EXCEPT !.shown = list, !.poll = "off", !.polled = EmptyList] \in PageType
        BY <1>1, <2>1, ListsAreLists DEF PageType
      <3>3. QED
        BY <3>1, <3>2 DEF Show
    <2>3. page' = [Show(list) EXCEPT !.post = "off", !.posted = "none", !.overtaken = FALSE]
      BY <1>4 DEF ReceiveAccepted, list
    <2>4. page' \in PageType
      BY <2>2, <2>3 DEF PageType
    <2>5. QED
      BY <1>1, <1>4, <2>4, OutsideStep DEF ReceiveAccepted, serverVars, taskVars
  <1>5. CASE Poll \/ ServePoll
    <2>1. List(run.status, others) \in ListType
      BY <1>1, ListsAreLists DEF RunType
    <2>2. page' \in PageType
      BY <1>1, <1>5, <2>1 DEF Poll, ServePoll, PageType
    <2>3. QED
      BY <1>1, <1>5, <2>2, OutsideStep DEF Poll, ServePoll, serverVars, taskVars
  <1>6. CASE ReceivePoll
    <2> DEFINE lost == page.overtaken \/ (page.shown.run # "none" /\ page.polled.run = "none")
    <2>1. PICK now \in BOOLEAN : now = lost
      OBVIOUS
    <2>2. page' = [page EXCEPT !.shown = page.polled, !.poll = "off", !.polled = EmptyList,
                               !.overtaken = now]
      BY <1>6, <2>1 DEF ReceivePoll
    <2>3. page' \in PageType
      BY <1>1, <2>2, ListsAreLists DEF PageType
    <2>4. QED
      BY <1>1, <1>6, <2>3, OutsideStep DEF ReceivePoll, serverVars, taskVars
  <1>7. CASE OtherRunEnds
    BY <1>1, <1>7, OutsideStep DEF OtherRunEnds, serverVars, taskVars
  <1>8. QED
    BY <1>2, <1>3, <1>4, <1>5, <1>6, <1>7

\* Deliveries, lost workers and the end of an execution.  A worker that ends
\* without failures has everyone behind it.
LEMMA DeliveryKeepsInv ==
  ASSUME YearInv, NEW w \in Workers,
         \/ \E r \in 0..MaxRetries :
              DropDelivery(w, r) \/ Start(w, r) \/ StartRaises(w, r) \/ NotStarted(w, r)
         \/ Finish(w) \/ CrashBeforeAck(w)
         \/ Crash(w) \/ HardTimeLimit(w) \/ ExecutionRaises(w)
  PROVE  YearInv'
PROOF
  <1> USE YearAssumption
  <1>1. /\ run \in RunType /\ page \in PageType /\ source \in [Employees -> Nat]
        /\ queue \in [0..MaxRetries -> Nat] /\ events \in 0..MaxEvents
        /\ period \in {"open", "closed", "locked"} /\ unstarted \in BOOLEAN /\ others \in BOOLEAN
        /\ worker \in [Workers -> WorkerType] /\ worker[w].retries \in 0..MaxRetries
    BY DEF YearInv, TypeOK, RunType, ListType, PageType, WorkerType
  <1>2. ASSUME run' \in RunType, queue' \in [0..MaxRetries -> Nat], events' \in 0..MaxEvents,
               worker' \in [Workers -> WorkerType],
               UNCHANGED <<item, source, carried, forfeited, rolledOver, period, unstarted, others, page>>
        PROVE  TypeOK'
    BY <1>2, SMTT(30) DEF YearInv, TypeOK, RunType, WorkerType
  <1>3. ASSUME NEW r \in 0..MaxRetries, DropDelivery(w, r) PROVE YearInv'
    <2>1. queue' \in [0..MaxRetries -> Nat]
      BY <1>1, <1>3 DEF DropDelivery, Deliver
    <2>2. QED
      BY <1>1, <1>3, <2>1, OutsideStep DEF DropDelivery, serverVars
  <1>4. ASSUME NEW r \in 0..MaxRetries, Start(w, r) PROVE YearInv'
    <2> DEFINE begun == [pc |-> "items", retries |-> r, next |-> 1, first |-> ~run.started,
                         failures |-> FALSE]
    <2>1. begun \in WorkerType /\ begun.next = 1
      BY <1>1 DEF WorkerType, RunType
    <2>2. worker' = [worker EXCEPT ![w] = begun]
      BY <1>4 DEF Start
    <2> HIDE DEF begun
    <2>3. worker' \in [Workers -> WorkerType]
      BY <1>1, <2>1, <2>2
    <2>4. \A x \in Workers : worker'[x] = worker[x] \/ worker'[x].next = 1
      BY <1>1, <2>1, <2>2
    <2>5. queue' \in [0..MaxRetries -> Nat]
      BY <1>1, <1>4 DEF Start, Deliver
    <2>6. run' \in RunType /\ run'.status = "running"
      BY <1>1, <1>4 DEF Start, RunType
    <2>7. TypeOK'
      BY <1>1, <1>2, <1>4, <2>3, <2>5, <2>6 DEF Start
    <2>8. QED
      BY <1>4, <2>4, <2>6, <2>7, QuietStep DEF Start
  <1>5. ASSUME worker' = [worker EXCEPT ![w] = IdleWorker]
        PROVE  /\ worker' \in [Workers -> WorkerType]
               /\ \A x \in Workers : worker'[x].pc = "items" => worker'[x] = worker[x]
    BY <1>1, <1>5, IdleWorkerType
  <1>6. Requeue(w) => queue' \in [0..MaxRetries -> Nat]
    BY <1>1 DEF Requeue
  <1>7. \A kind : Fault(kind) => events' \in 0..MaxEvents
    BY <1>1 DEF Fault, Count
  <1>8. ASSUME Settle(w), queue' \in [0..MaxRetries -> Nat], events' \in 0..MaxEvents PROVE YearInv'
    <2>1. run' \in RunType /\ run'.status = Outcome(w)
      BY <1>1, <1>8 DEF Settle, Outcome, RunType
    <2>2. Outcome(w) = "succeeded" => rolledOver = Employees
      <3> SUFFICES ASSUME ~worker[w].failures PROVE rolledOver = Employees
        BY DEF Outcome
      <3>1. worker[w].next >= 1 /\ worker[w].next \in Nat /\ worker[w].next \notin Employees
        BY <1>1, <1>8 DEF Settle, AtEnd, YearInv, PassedRolledOver, WorkerType
      <3>2. \A e \in Employees : e < worker[w].next
        BY <3>1, EmployeesAreNat
      <3>3. \A e \in Employees : e \in rolledOver
        BY <1>8, <3>2 DEF Settle, AtEnd, YearInv, PassedRolledOver
      <3>4. rolledOver \subseteq Employees
        BY DEF YearInv, TypeOK
      <3>5. QED
        BY <3>3, <3>4
    <2>3. TypeOK'
      BY <1>2, <1>5, <1>8, <2>1 DEF Settle
    <2>4. QED
      BY <1>5, <1>8, <2>1, <2>2, <2>3, QuietStep DEF Settle
  <1>9. ASSUME NEW r \in 0..MaxRetries, StartRaises(w, r) \/ NotStarted(w, r) PROVE YearInv'
    <2>1. queue' \in [0..MaxRetries -> Nat]
      <3>1. CASE NotStarted(w, r)
        BY <1>1, <3>1 DEF NotStarted, Deliver
      <3>2. CASE StartRaises(w, r)
        <4>1. queue[r] - 1 \in Nat /\ \A x \in 0..MaxRetries : queue[x] + 1 \in Nat
          <5>1. \A x \in 0..MaxRetries : queue[x] \in Nat
            BY <1>1
          <5>2. queue[r] > 0
            BY <3>2 DEF StartRaises, RetryDelivered
          <5>3. QED
            BY <5>1, <5>2
        <4>2. CASE r < MaxRetries
          BY <1>1, <3>2, <4>1, <4>2 DEF StartRaises, RetryDelivered
        <4>3. CASE ~(r < MaxRetries)
          BY <1>1, <3>2, <4>1, <4>3 DEF StartRaises, RetryDelivered
        <4>4. QED
          BY <4>2, <4>3
      <3>3. QED
        BY <1>9, <3>1, <3>2
    <2>2. /\ events' \in 0..MaxEvents /\ unstarted' \in BOOLEAN
          /\ UNCHANGED <<serverVars, worker, others, page>>
      BY <1>1, <1>7, <1>9 DEF StartRaises, NotStarted
    <2>3. QED
      BY <1>1, <2>1, <2>2, OutsideStep DEF serverVars
  <1>10. CASE Finish(w) \/ CrashBeforeAck(w)
    BY <1>1, <1>6, <1>7, <1>8, <1>10 DEF Finish, CrashBeforeAck
  <1>11. CASE Crash(w) \/ HardTimeLimit(w) \/ ExecutionRaises(w)
    <2>1. queue' \in [0..MaxRetries -> Nat]
      <3>1. CASE Crash(w) \/ HardTimeLimit(w)
        BY <1>1, <1>6, <3>1 DEF Crash, HardTimeLimit
      <3>2. CASE ExecutionRaises(w)
        <4>1. CASE worker[w].retries < MaxRetries
          BY <1>1, <3>2, <4>1 DEF ExecutionRaises, Retry, Publish
        <4>2. CASE ~(worker[w].retries < MaxRetries)
          BY <1>1, <3>2, <4>2 DEF ExecutionRaises, Retry
        <4>3. QED
          BY <4>1, <4>2
      <3>3. QED
        BY <1>11, <3>1, <3>2
    <2>2. /\ worker' = [worker EXCEPT ![w] = IdleWorker] /\ events' \in 0..MaxEvents
          /\ UNCHANGED <<serverVars, unstarted, others, page>>
      BY <1>7, <1>11 DEF Crash, HardTimeLimit, ExecutionRaises
    <2>3. TypeOK'
      BY <1>1, <1>2, <1>5, <2>1, <2>2 DEF serverVars
    <2>4. QED
      BY <1>5, <2>2, <2>3, QuietStep DEF serverVars
  <1>12. QED
    BY <1>3, <1>4, <1>9, <1>10, <1>11

\* A worker goes on to the next employee: what it has behind it is still true.
LEMMA AdvanceKeepsPassed ==
  ASSUME YearInv, NEW w \in Workers, AtItem(w), NEW failed \in BOOLEAN, Advance(w, failed),
         rolledOver \subseteq rolledOver', failed \/ worker[w].next \in rolledOver'
  PROVE  worker' \in [Workers -> WorkerType] /\ PassedRolledOver'
PROOF
  <1>1. worker \in [Workers -> WorkerType] /\ worker[w] \in WorkerType
    BY DEF YearInv, TypeOK, WorkerType
  <1>2. PICK fails \in BOOLEAN : fails = (worker[w].failures \/ failed)
    OBVIOUS
  <1> DEFINE on == [worker[w] EXCEPT !.next = worker[w].next + 1, !.failures = fails]
  <1>3. on \in WorkerType /\ on.next = worker[w].next + 1 /\ on.failures = fails
    <2>1. worker[w].next + 1 \in Nat
      BY <1>1 DEF WorkerType
    <2>2. QED
      BY <1>1, <2>1 DEF WorkerType
  <1>4. worker' = [worker EXCEPT ![w] = on]
    BY <1>2 DEF Advance
  <1> HIDE DEF on
  <1>5. worker' \in [Workers -> WorkerType]
    BY <1>1, <1>3, <1>4
  <1>6. ASSUME NEW x \in Workers, worker'[x].pc = "items"
        PROVE  /\ worker'[x].next >= 1
               /\ ~worker'[x].failures => \A e \in Employees : e < worker'[x].next => e \in rolledOver'
    <2>1. CASE x # w
      BY <1>1, <1>4, <1>6, <2>1 DEF YearInv, PassedRolledOver
    <2>2. CASE x = w
      <3>1. worker'[x].next = worker[w].next + 1 /\ worker'[x].failures = fails
        BY <1>1, <1>3, <1>4, <2>2
      <3>2. worker[w].next \in Nat /\ worker[w].next >= 1
        BY <1>1 DEF AtItem, YearInv, PassedRolledOver, WorkerType
      <3>3. ASSUME ~worker'[x].failures, NEW e \in Employees, e < worker'[x].next
            PROVE  e \in rolledOver'
        <4>1. ~worker[w].failures /\ ~failed
          BY <1>2, <3>1, <3>3
        <4>2. e \in Nat /\ (e < worker[w].next \/ e = worker[w].next)
          BY <3>1, <3>2, <3>3, EmployeesAreNat
        <4>3. e < worker[w].next => e \in rolledOver
          BY <4>1 DEF AtItem, YearInv, PassedRolledOver
        <4>4. QED
          BY <4>1, <4>2, <4>3
      <3>4. QED
        BY <3>1, <3>2, <3>3
    <2>3. QED
      BY <2>1, <2>2
  <1>7. QED
    BY <1>5, <1>6 DEF PassedRolledOver

\* The transaction of one employee: the movements respect the cap, whatever an
\* earlier attempt has left.
LEMMA ProcessItemKeepsInv ==
  ASSUME YearInv, NEW w \in Workers, ProcessItem(w)
  PROVE  YearInv'
PROOF
  <1> USE YearAssumption
  <1> DEFINE e == worker[w].next
  <1>1. /\ e \in Employees /\ AtItem(w) /\ item[e] # "succeeded" /\ ~Raises(e) /\ Advance(w, FALSE)
        /\ item' = [item EXCEPT ![e] = "succeeded"]
        /\ forfeited' = [forfeited EXCEPT ![e] = AppendMovement(@, Forfeit(e))]
        /\ source' = [source EXCEPT ![e] = IF forfeited[e] = 0 THEN @ - Forfeit(e) ELSE @]
        /\ carried' = [carried EXCEPT ![e] = AppendMovement(@, Carry(e))]
        /\ rolledOver' = rolledOver \cup {e}
        /\ UNCHANGED <<run, period, queue, unstarted, others, page, events>>
    BY DEF ProcessItem, AtItem
  <1> HIDE DEF e
  <1>2. /\ item \in [Employees -> ItemType] /\ source \in [Employees -> Nat] /\ Cap \in Nat
        /\ carried \in [Employees -> Nat] /\ forfeited \in [Employees -> Nat]
        /\ source[e] \in Nat /\ carried[e] \in Nat /\ forfeited[e] \in Nat
    BY <1>1 DEF YearInv, TypeOK, ItemType
  <1>3. /\ Carry(e) \in Nat /\ Carry(e) <= Cap
        /\ Forfeit(e) \in Nat /\ source[e] - Forfeit(e) \in Nat
        /\ Forfeit(e) # 0 => Carry(e) = Cap
    BY <1>2 DEF Carry, Forfeit
  <1>4. ~Mismatch(forfeited[e], Forfeit(e)) /\ ~Mismatch(carried[e], Carry(e))
    BY <1>1 DEF Raises
  <1>5. /\ AppendMovement(forfeited[e], Forfeit(e)) \in Nat
        /\ AppendMovement(carried[e], Carry(e)) \in Nat
        /\ AppendMovement(carried[e], Carry(e)) <= Cap
    BY <1>1, <1>2, <1>3 DEF AppendMovement, YearInv, CarryRespectsCap
  <1>6. AppendMovement(forfeited[e], Forfeit(e)) > 0 => AppendMovement(carried[e], Carry(e)) = Cap
    BY <1>1, <1>2, <1>3, <1>4 DEF AppendMovement, Mismatch, YearInv, CarryRespectsCap
  <1>7. worker' \in [Workers -> WorkerType] /\ PassedRolledOver'
    BY <1>1, AdvanceKeepsPassed DEF e
  <1>8. /\ item' \in [Employees -> ItemType] /\ source' \in [Employees -> Nat]
        /\ carried' \in [Employees -> Nat] /\ forfeited' \in [Employees -> Nat]
        /\ rolledOver' \subseteq Employees
    <2>1. item' \in [Employees -> ItemType] /\ rolledOver' \subseteq Employees
      BY <1>1, <1>2 DEF ItemType, YearInv, TypeOK
    <2>2. carried' \in [Employees -> Nat] /\ forfeited' \in [Employees -> Nat]
      BY <1>1, <1>2, <1>5
    <2>3. source' \in [Employees -> Nat]
      BY <1>1, <1>2, <1>3
    <2>4. QED
      BY <2>1, <2>2, <2>3
  <1>9. TypeOK'
    BY <1>1, <1>7, <1>8, SMTT(30) DEF YearInv, TypeOK, WorkerType, ItemType
  <1>10. CarryRespectsCap'
    BY <1>1, <1>2, <1>5, <1>6 DEF YearInv, CarryRespectsCap
  <1>11. ItemsRolledOver' /\ SuccessLeavesNoOneOut'
    BY <1>1, <1>2, <1>8 DEF YearInv, ItemsRolledOver, SuccessLeavesNoOneOut
  <1>12. QED
    BY <1>7, <1>9, <1>10, <1>11 DEF YearInv

\* Skipped and failed employees: the ledger does not change.
LEMMA OtherItemKeepsInv ==
  ASSUME YearInv, NEW w \in Workers, SkipItem(w) \/ ItemMismatch(w) \/ ItemFails(w)
  PROVE  YearInv'
PROOF
  <1> USE YearAssumption
  <1>1. item \in [Employees -> ItemType] /\ events \in 0..MaxEvents
    BY DEF YearInv, TypeOK, ItemType
  <1>2. CASE SkipItem(w)
    <2>1. /\ AtItem(w) /\ Advance(w, FALSE) /\ worker[w].next \in rolledOver
          /\ UNCHANGED <<serverVars, queue, unstarted, others, page, events>>
      BY <1>2 DEF SkipItem, AtItem, YearInv, ItemsRolledOver
    <2>2. worker' \in [Workers -> WorkerType] /\ PassedRolledOver'
      BY <2>1, AdvanceKeepsPassed DEF serverVars
    <2>3. TypeOK'
      <3>1. worker' \in [Workers -> [pc : {"idle", "items"}, retries : 0..MaxRetries, next : Nat,
                                    first : BOOLEAN, failures : BOOLEAN]]
        BY <2>2 DEF WorkerType
      <3>2. TypeOK
        BY DEF YearInv
      <3>3. UNCHANGED <<serverVars, queue, unstarted, others, page, events>>
        BY <2>1
      <3>4. QED
        BY ONLY <3>1, <3>2, <3>3, SMTT(30) DEF serverVars, TypeOK
    <2>4. CarryRespectsCap' /\ ItemsRolledOver' /\ SuccessLeavesNoOneOut'
      BY <2>1 DEF serverVars, YearInv, CarryRespectsCap, ItemsRolledOver, SuccessLeavesNoOneOut
    <2>5. QED
      BY <2>2, <2>3, <2>4 DEF YearInv
  <1>3. CASE ItemMismatch(w) \/ ItemFails(w)
    <2>1. AtItem(w) /\ RecordFailure(w)
      BY <1>3 DEF ItemMismatch, ItemFails
    <2>2. events' \in 0..MaxEvents
      BY <1>1, <1>3 DEF ItemMismatch, ItemFails, Fault, Count
    <2>3. /\ item' = [item EXCEPT ![worker[w].next] = "failed"] /\ Advance(w, TRUE)
          /\ UNCHANGED <<run, source, carried, forfeited, rolledOver, period, queue, unstarted, others, page>>
      BY <2>1 DEF RecordFailure
    <2>4. worker' \in [Workers -> WorkerType] /\ PassedRolledOver'
      BY <2>1, <2>3, AdvanceKeepsPassed
    <2>5. item' \in [Employees -> ItemType]
      BY <1>1, <2>3 DEF ItemType
    <2>6. TypeOK'
      <3>1. worker' \in [Workers -> [pc : {"idle", "items"}, retries : 0..MaxRetries, next : Nat,
                                    first : BOOLEAN, failures : BOOLEAN]]
        BY <2>4 DEF WorkerType
      <3>2. item' \in [Employees -> {"none", "succeeded", "failed"}]
        BY <2>5 DEF ItemType
      <3>3. TypeOK
        BY DEF YearInv
      <3>4. QED
        BY ONLY <2>2, <2>3, <3>1, <3>2, <3>3, SMTT(30) DEF TypeOK
    <2>7. CarryRespectsCap' /\ SuccessLeavesNoOneOut'
      BY <2>3 DEF YearInv, CarryRespectsCap, SuccessLeavesNoOneOut
    <2>8. ItemsRolledOver'
      BY <1>1, <2>3 DEF YearInv, ItemsRolledOver
    <2>9. QED
      BY <2>4, <2>6, <2>7, <2>8 DEF YearInv
  <1>4. QED
    BY <1>2, <1>3

\* Every step of the close keeps the invariant.
LEMMA NextYearInv == YearInv /\ [Next]_yearVars => YearInv'
PROOF
  <1> SUFFICES ASSUME YearInv, [Next]_yearVars PROVE YearInv'
    OBVIOUS
  <1>1. ASSUME NEW w \in Workers,
               \/ \E r \in 0..MaxRetries :
                    DropDelivery(w, r) \/ Start(w, r) \/ StartRaises(w, r) \/ NotStarted(w, r)
               \/ WorkOn(w) \/ ItemFails(w)
               \/ Crash(w) \/ CrashBeforeAck(w) \/ HardTimeLimit(w) \/ ExecutionRaises(w)
        PROVE  YearInv'
    BY <1>1, DeliveryKeepsInv, ProcessItemKeepsInv, OtherItemKeepsInv DEF WorkOn
  <1>2. CASE UNCHANGED yearVars
    BY <1>2 DEF yearVars, serverVars, taskVars, YearInv, TypeOK, CarryRespectsCap, ItemsRolledOver,
                PassedRolledOver, SuccessLeavesNoOneOut
  <1>3. QED
    BY <1>1, <1>2, BeatKeepsInv, LedgerKeepsInv, PageKeepsInv DEF Next

\* The invariant holds throughout.
THEOREM YearInvariant == Spec => []YearInv
  BY InitYearInv, NextYearInv, PTL DEF Spec

\* The run, its items, its ledger and the workbench stay well formed.
THEOREM YearTypeCorrect == Spec => []TypeOK
PROOF
  <1>1. YearInv => TypeOK
    BY DEF YearInv
  <1>2. QED
    BY <1>1, YearInvariant, PTL

\* However often execute_leave_year_close_run processes an employee, at the
\* same time or again, nobody carries more than the cap into the new year, and
\* nobody forfeits units without having carried the whole cap.
THEOREM CapIsRespected == Spec => []CarryRespectsCap
PROOF
  <1>1. YearInv => CarryRespectsCap
    BY DEF YearInv
  <1>2. QED
    BY <1>1, YearInvariant, PTL

\* A close run that reports success, and a period closed on it, has rolled
\* every employee over, although workers overlap, fail and overwrite each
\* other's results.
THEOREM SuccessIsComplete == Spec => []SuccessLeavesNoOneOut
PROOF
  <1>1. YearInv => SuccessLeavesNoOneOut
    BY DEF YearInv
  <1>2. QED
    BY <1>1, YearInvariant, PTL
=============================================================================
