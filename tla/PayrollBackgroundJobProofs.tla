-------------------- MODULE PayrollBackgroundJobProofs --------------------
(***************************************************************************)
(* For any number of jobs, processes and faults: type correctness of       *)
(* PayrollBackgroundJob, that its two retry counters stay in step, that a  *)
(* job has one execution at a time and one commit, and that it is not left *)
(* queued with nothing to carry it.                                        *)
(***************************************************************************)
EXTENDS PayrollBackgroundJob, FiniteSetTheorems, TLAPS

\* The step relation without its quantifiers: what a proof distinguishes.
LEMMA NextCases ==
  ASSUME Next
  PROVE \/ \E j \in Jobs : Enqueue(j)
        \/ \E j \in Jobs : BackoffEnds(j)
        \/ \E j \in Jobs : HeartbeatExpires(j)
        \/ \E d \in Dispatchers, j \in Jobs : LoadForDispatch(d, j)
        \/ \E d \in Dispatchers : Send(d)
        \/ \E d \in Dispatchers : SendFails(d)
        \/ \E d \in Dispatchers : RecordDispatch(d)
        \/ \E m \in queue : DropDelivery(m)
        \/ \E m \in queue : Claim(m)
        \/ \E m \in queue : LoseMessage(m) \/ ClaimRaises(m)
        \/ \E e \in execution : Succeed(e)
        \/ \E e \in execution, b \in BOOLEAN : FailForGood(e, b)
        \/ \E e \in execution : FailTransiently(e)
        \/ \E e \in execution : PublishRetry(e)
        \/ \E e \in execution : Ack(e)
        \/ \E e \in execution : Crash(e)
        \/ \E e \in execution : HardTimeLimit(e)
        \/ \E r \in Recoverers, j \in Jobs : SelectStale(r, j)
        \/ \E r \in Recoverers : Recover(r)
        \/ \E u \in Retriers, j \in Jobs : CheckRetry(u, j)
        \/ \E u \in Retriers : ApplyRetry(u)
  BY Zenon DEF Next, Settle

LEMMA TypeOKInit == Init => TypeOK
  BY JobAssumption DEF Init, TypeOK, NewRow, IdleDispatcher, IdleRecoverer, Row, NoTask

LEMMA TypeOKStep == TypeOK /\ [Next]_jobVars => TypeOK'
<1> SUFFICES ASSUME TypeOK, [Next]_jobVars PROVE TypeOK'
  OBVIOUS
<1> USE JobAssumption
<1>t. /\ job \in [Jobs -> Row] /\ queue \subseteq Message /\ execution \subseteq Execution
      /\ \A d \in Dispatchers : dispatcher[d].pc # "idle" => dispatcher[d].job \in Jobs
  BY DEF TypeOK
<1>e. ASSUME NEW e \in execution
      PROVE e.msg.job \in Jobs /\ e.msg.task \in Nat /\ e.msg \in Message
  BY <1>t DEF Execution, Message
<1>p. ASSUME NEW e \in execution, NEW pc \in {"retry", "ack"}, Proceed(e, pc)
      PROVE execution' \subseteq Execution
  <2>1. e \in Execution
    BY <1>t
  <2>2. [e EXCEPT !.pc = pc] \in Execution
    BY <2>1 DEF Execution
  <2> QED
    BY <1>p, <1>t, <2>2 DEF Proceed
<1>n. ASSUME NEW kind \in Mishaps, NEW j \in Jobs, Note(kind, j)
      PROVE mishap' \subseteq Mishaps \X Jobs
  BY <1>n DEF Note, TypeOK
<1>1. CASE UNCHANGED jobVars
  BY <1>1 DEF TypeOK, jobVars
<1>2. ASSUME NEW j \in Jobs, Enqueue(j) PROVE TypeOK'
  BY <1>2 DEF TypeOK, Enqueue, Row
<1>3. ASSUME NEW j \in Jobs, BackoffEnds(j) PROVE TypeOK'
  <2>1. job' \in [Jobs -> Row]
    BY <1>3, <1>t DEF BackoffEnds, Row
  <2> QED
    BY <1>3, <2>1 DEF TypeOK, BackoffEnds
<1>4. ASSUME NEW j \in Jobs, HeartbeatExpires(j) PROVE TypeOK'
  BY <1>4, ZenonT(60) DEF TypeOK, HeartbeatExpires, Row
<1>5. ASSUME NEW d \in Dispatchers, NEW j \in Jobs, LoadForDispatch(d, j) PROVE TypeOK'
  BY <1>5 DEF TypeOK, LoadForDispatch, NoTask
<1>6. ASSUME NEW d \in Dispatchers, Send(d) PROVE TypeOK'
  <2> DEFINE n == published + 1
             m == [number |-> n, task |-> n, job |-> dispatcher[d].job, retries |-> 0]
  <2>1. n \in Nat
    BY DEF TypeOK
  <2>2. m \in Message
    BY <1>6, <1>t, <2>1 DEF Send, Message
  <2>3. queue' \subseteq Message
    BY <1>6, <1>t, <2>2 DEF Send
  <2>4. /\ dispatcher' \in [Dispatchers -> [pc : {"idle", "loaded", "sent", "failed"},
                                           job : Jobs \cup {NoJob}, task : Nat]]
        /\ \A c \in Dispatchers : dispatcher'[c].pc # "idle" => dispatcher'[c].job \in Jobs
    BY <1>6, <2>1, ZenonT(60) DEF TypeOK, Send
  <2> QED
    BY <1>6, <2>1, <2>3, <2>4 DEF TypeOK, Send
<1>7. ASSUME NEW d \in Dispatchers, SendFails(d) PROVE TypeOK'
  BY <1>7 DEF TypeOK, SendFails, Fault
<1>8. ASSUME NEW d \in Dispatchers, RecordDispatch(d) PROVE TypeOK'
  <2>1. dispatcher[d].job \in Jobs /\ dispatcher[d].task \in Nat
    BY <1>8, <1>t DEF TypeOK, RecordDispatch
  <2>2. job' \in [Jobs -> Row]
    <3>1. CASE job[dispatcher[d].job].status # "queued"
      BY <1>8, <1>t, <3>1 DEF RecordDispatch
    <3>2. CASE job[dispatcher[d].job].status = "queued" /\ dispatcher[d].pc = "sent"
      BY <1>8, <1>t, <2>1, <3>2, ZenonT(60) DEF RecordDispatch, Row
    <3>3. CASE job[dispatcher[d].job].status = "queued" /\ dispatcher[d].pc # "sent"
      BY <1>8, <1>t, <2>1, <3>3, ZenonT(60) DEF RecordDispatch, Row
    <3> QED
      BY <3>1, <3>2, <3>3
  <2>3. /\ dispatcher' \in [Dispatchers -> [pc : {"idle", "loaded", "sent", "failed"},
                                           job : Jobs \cup {NoJob}, task : Nat]]
        /\ \A c \in Dispatchers : dispatcher'[c].pc # "idle" => dispatcher'[c].job \in Jobs
    BY <1>8 DEF TypeOK, RecordDispatch, IdleDispatcher, NoTask
  <2> QED
    BY <1>8, <2>2, <2>3 DEF TypeOK, RecordDispatch
<1>9. ASSUME NEW m \in queue, DropDelivery(m) PROVE TypeOK'
  BY <1>9 DEF TypeOK, DropDelivery
<1>10. ASSUME NEW m \in queue, Claim(m) PROVE TypeOK'
  <2> DEFINE n == job[m.job].attempts + 1
  <2>1. m \in Message /\ m.job \in Jobs /\ m.task \in Nat /\ n \in Nat
    BY <1>t DEF Message, Row
  <2>2. job' \in [Jobs -> Row]
    BY <1>10, <1>t, <2>1 DEF Claim, Row
  <2>3. [msg |-> m, attempt |-> n, pc |-> "running"] \in Execution
    BY <2>1 DEF Execution
  <2>4. execution' \subseteq Execution
    BY <1>10, <1>t, <2>3 DEF Claim
  <2> QED
    BY <1>10, <2>2, <2>4 DEF TypeOK, Claim
<1>11. ASSUME NEW m \in queue, LoseMessage(m) \/ ClaimRaises(m) PROVE TypeOK'
  <2>1. mishap' \subseteq Mishaps \X Jobs
    BY <1>11, <1>n, <1>t DEF LoseMessage, ClaimRaises, Message, Mishaps
  <2> QED
    BY <1>11, <2>1 DEF TypeOK, LoseMessage, ClaimRaises, Fault
<1>12. ASSUME NEW e \in execution, Succeed(e) PROVE TypeOK'
  <2>1. job' \in [Jobs -> Row]
    BY <1>12, <1>t, <1>e DEF Succeed, Row
  <2>2. execution' \subseteq Execution
    BY <1>12, <1>p DEF Succeed
  <2>3. commits' \in [Jobs -> Nat]
    BY <1>12, <1>e DEF TypeOK, Succeed
  <2> QED
    BY <1>12, <2>1, <2>2, <2>3 DEF TypeOK, Succeed
<1>13. ASSUME NEW e \in execution, NEW b \in BOOLEAN, FailForGood(e, b) PROVE TypeOK'
  <2>1. job' \in [Jobs -> Row]
    BY <1>13, <1>t, <1>e DEF FailForGood, Row
  <2>2. execution' \subseteq Execution
    BY <1>13, <1>p DEF FailForGood
  <2> QED
    BY <1>13, <2>1, <2>2 DEF TypeOK, FailForGood
<1>14. ASSUME NEW e \in execution, FailTransiently(e) PROVE TypeOK'
  <2>1. job' \in [Jobs -> Row]
    BY <1>14, <1>t, <1>e DEF FailTransiently, Row
  <2>2. execution' \subseteq Execution
    BY <1>14, <1>p DEF FailTransiently
  <2> QED
    BY <1>14, <2>1, <2>2 DEF TypeOK, FailTransiently
<1>15. ASSUME NEW e \in execution, PublishRetry(e) PROVE TypeOK'
  <2>0. published + 1 \in Nat /\ e.msg \in Message
    BY <1>e DEF TypeOK
  <2>1. [number |-> published + 1, task |-> e.msg.task, job |-> e.msg.job,
         retries |-> e.msg.retries + 1] \in Message
    BY <2>0 DEF Message
  <2>2. queue' \subseteq Message
    BY <1>15, <1>t, <2>1 DEF PublishRetry
  <2>3. execution' \subseteq Execution
    BY <1>15, <1>p DEF PublishRetry
  <2> QED
    BY <1>15, <2>2, <2>3 DEF TypeOK, PublishRetry
<1>16. ASSUME NEW e \in execution, Ack(e) PROVE TypeOK'
  BY <1>16 DEF TypeOK, Ack
<1>17. ASSUME NEW e \in execution, Crash(e) PROVE TypeOK'
  <2>1. mishap' \subseteq Mishaps \X Jobs
    BY <1>17, <1>e, <1>n DEF TypeOK, Crash, Mishaps
  <2> QED
    BY <1>17, <1>e, <2>1 DEF TypeOK, Crash, Fault
<1>18. ASSUME NEW e \in execution, HardTimeLimit(e) PROVE TypeOK'
  BY <1>18 DEF TypeOK, HardTimeLimit, Fault
<1>19. ASSUME NEW r \in Recoverers, NEW j \in Jobs, SelectStale(r, j) PROVE TypeOK'
  BY <1>19 DEF TypeOK, SelectStale
<1>20. ASSUME NEW r \in Recoverers, Recover(r) PROVE TypeOK'
  <2>1. recoverer[r].job \in Jobs
    BY <1>20 DEF TypeOK, Recover
  <2>2. job' \in [Jobs -> Row]
    <3> DEFINE st == IF recoverer[r].exhausted THEN "failed" ELSE "queued"
    <3>1. CASE job[recoverer[r].job].status # "running"
      BY <1>20, <1>t, <3>1 DEF Recover
    <3>2. CASE job[recoverer[r].job].status = "running"
      <4>1. st \in {"failed", "queued"}
        OBVIOUS
      <4>2. job' = [job EXCEPT ![recoverer[r].job] = [@ EXCEPT
                     !.status = st, !.task = NoTask, !.retryable = TRUE, !.backoff = FALSE]]
        BY <1>20, <3>2 DEF Recover
      <4> HIDE DEF st
      <4> QED
        BY <1>t, <2>1, <4>1, <4>2 DEF Row, NoTask
    <3> QED
      BY <3>1, <3>2
  <2>3. mishap' \subseteq Mishaps \X Jobs
    BY <1>20, <1>n, <2>1 DEF TypeOK, Recover, Mishaps
  <2> QED
    BY <1>20, <2>2, <2>3 DEF TypeOK, Recover, IdleRecoverer
<1>21. ASSUME NEW u \in Retriers, NEW j \in Jobs, CheckRetry(u, j) PROVE TypeOK'
  BY <1>21 DEF TypeOK, CheckRetry
<1>22. ASSUME NEW u \in Retriers, ApplyRetry(u) PROVE TypeOK'
  <2>1. retrier[u] \in Jobs
    BY <1>22 DEF TypeOK, ApplyRetry
  <2>2. mishap' \subseteq Mishaps \X Jobs
    BY <1>22, <2>1 DEF TypeOK, ApplyRetry, NoteRetry, Mishaps
  <2>3. job' \in [Jobs -> Row] /\ retrier' \in [Retriers -> Jobs \cup {NoJob}]
    BY <1>22, ZenonT(60) DEF TypeOK, ApplyRetry, Row, NoTask
  <2> QED
    BY <1>22, <2>2, <2>3 DEF TypeOK, ApplyRetry
<1> QED
  BY NextCases, <1>1, <1>2, <1>3, <1>4, <1>5, <1>6, <1>7, <1>8, <1>9, <1>10, <1>11, <1>12,
     <1>13, <1>14, <1>15, <1>16, <1>17, <1>18, <1>19, <1>20, <1>21, <1>22

\* Every field of the job rows, messages and process records keeps its type.
THEOREM JobTypeCorrect == Spec => []TypeOK
  BY TypeOKInit, TypeOKStep, PTL DEF Spec
-----------------------------------------------------------------------------
\* A message was retried at most as often as its job was attempted, and less
\* often than the attempt that holds it; this is why the limits agree.
MessageBound == \A m \in queue : m.retries <= job[m.job].attempts

AttemptBound ==
  \A e \in execution : /\ e.msg.retries < e.attempt
                       /\ e.attempt <= job[e.msg.job].attempts
                       /\ e.pc = "retry" => e.attempt < MaxAttempts

RetryInv == TypeOK /\ MessageBound /\ AttemptBound /\ AttemptsAreDistinct

LEMMA RetryInvInit == Init => RetryInv
  BY TypeOKInit DEF Init, RetryInv, MessageBound, AttemptBound, AttemptsAreDistinct

LEMMA RetryInvImplies == RetryInv => RetryBudgetSuffices
  BY RetryLimitsAgree, JobAssumption
  DEF RetryInv, AttemptBound, RetryBudgetSuffices, TypeOK, Execution, Message

\* A step that forgets messages and executions, and never lowers attempts.
LEMMA RetryInvShrinks ==
  ASSUME RetryInv, TypeOK',
         queue' \subseteq queue, execution' \subseteq execution,
         \A j \in Jobs : job'[j].attempts = job[j].attempts
  PROVE RetryInv'
  BY DEF RetryInv, MessageBound, AttemptBound, AttemptsAreDistinct, TypeOK, Message, Execution

\* An execution moves to its next program counter; no other changes.
LEMMA RetryInvProceeds ==
  ASSUME RetryInv, TypeOK', NEW e \in execution, NEW pc \in {"retry", "ack"}, Proceed(e, pc),
         pc = "retry" => e.attempt < MaxAttempts,
         \A m \in queue' : m \in queue \/ (m.job = e.msg.job /\ m.retries <= e.attempt),
         \A j \in Jobs : job'[j].attempts = job[j].attempts
  PROVE RetryInv'
<1> DEFINE f == [e EXCEPT !.pc = pc]
<1>0. /\ e \in Execution /\ queue \subseteq Message /\ execution \subseteq Execution
      /\ queue' \subseteq Message /\ execution' \subseteq Execution
  BY DEF RetryInv, TypeOK
<1>1. f.msg = e.msg /\ f.attempt = e.attempt /\ f.pc = pc
  BY <1>0 DEF Execution
<1>2. execution' = (execution \ {e}) \cup {f}
  BY DEF Proceed
<1> HIDE DEF f
<1>3. \A j \in Jobs : job[j].attempts \in Nat
  BY DEF RetryInv, TypeOK, Row
<1>4. MessageBound'
  BY <1>0, <1>3 DEF RetryInv, MessageBound, AttemptBound, Message, Execution
<1>5. AttemptBound'
  BY <1>0, <1>1, <1>2 DEF RetryInv, AttemptBound, Message, Execution
<1>6. AttemptsAreDistinct'
  BY <1>0, <1>1, <1>2 DEF RetryInv, AttemptsAreDistinct
<1> QED
  BY <1>4, <1>5, <1>6 DEF RetryInv

LEMMA RetryInvStep == RetryInv /\ [Next]_jobVars => RetryInv'
<1> SUFFICES ASSUME RetryInv, [Next]_jobVars PROVE RetryInv'
  OBVIOUS
<1>0. TypeOK /\ TypeOK'
  BY TypeOKStep DEF RetryInv
<1>t. /\ job \in [Jobs -> Row] /\ queue \subseteq Message /\ execution \subseteq Execution
      /\ \A d \in Dispatchers : dispatcher[d].pc # "idle" => dispatcher[d].job \in Jobs
  BY <1>0 DEF TypeOK
<1>1. CASE UNCHANGED jobVars
  BY <1>0, <1>1, RetryInvShrinks DEF jobVars
<1>2. ASSUME NEW j \in Jobs, Enqueue(j) \/ BackoffEnds(j) \/ HeartbeatExpires(j) PROVE RetryInv'
  <2>1. \A i \in Jobs : job'[i].attempts = job[i].attempts
    BY <1>2, <1>t DEF Enqueue, BackoffEnds, HeartbeatExpires, Row
  <2> QED
    BY <1>0, <1>2, <2>1, RetryInvShrinks DEF Enqueue, BackoffEnds, HeartbeatExpires
<1>3. ASSUME NEW d \in Dispatchers, NEW j \in Jobs, LoadForDispatch(d, j) PROVE RetryInv'
  BY <1>0, <1>3, RetryInvShrinks DEF LoadForDispatch
<1>4. ASSUME NEW d \in Dispatchers, Send(d) PROVE RetryInv'
  <2> DEFINE m == [number |-> published + 1, task |-> published + 1,
                   job |-> dispatcher[d].job, retries |-> 0]
  <2>1. queue' = queue \cup {m} /\ UNCHANGED <<job, execution>>
    BY <1>4 DEF Send
  <2>2. m.retries = 0 /\ m.job \in Jobs
    BY <1>4, <1>t DEF Send
  <2> HIDE DEF m
  <2>3. MessageBound'
    BY <1>t, <2>1, <2>2 DEF RetryInv, MessageBound, Row
  <2> QED
    BY <1>0, <2>1, <2>3 DEF RetryInv, AttemptBound, AttemptsAreDistinct
<1>5. ASSUME NEW d \in Dispatchers, SendFails(d) PROVE RetryInv'
  BY <1>0, <1>5, RetryInvShrinks DEF SendFails
<1>6. ASSUME NEW d \in Dispatchers, RecordDispatch(d) PROVE RetryInv'
  <2>1. \A i \in Jobs : job'[i].attempts = job[i].attempts
    BY <1>6, <1>t DEF RecordDispatch, Row
  <2> QED
    BY <1>0, <1>6, <2>1, RetryInvShrinks DEF RecordDispatch
<1>7. ASSUME NEW m \in queue, DropDelivery(m) \/ LoseMessage(m) \/ ClaimRaises(m) PROVE RetryInv'
  BY <1>0, <1>7, RetryInvShrinks DEF DropDelivery, LoseMessage, ClaimRaises
<1>8. ASSUME NEW m \in queue, Claim(m) PROVE RetryInv'
  <2> DEFINE n == job[m.job].attempts + 1
             f == [msg |-> m, attempt |-> n, pc |-> "running"]
  <2>1. m \in Message /\ m.job \in Jobs /\ job[m.job].attempts \in Nat
    BY <1>t DEF Message, Row
  <2>2. /\ job'[m.job].attempts = n
        /\ \A j \in Jobs : j # m.job => job'[j].attempts = job[j].attempts
    BY <1>8, <1>t, <2>1 DEF Claim, Row
  <2>3. \A j \in Jobs : /\ job[j].attempts \in Nat /\ job'[j].attempts \in Nat
                        /\ job[j].attempts <= job'[j].attempts
    BY <1>t, <2>1, <2>2 DEF Row
  <2>4. execution' = execution \cup {f} /\ queue' \subseteq queue
    BY <1>8 DEF Claim
  <2>5. f.msg = m /\ f.attempt = n /\ f.pc = "running" /\ m.retries < n
    BY <2>1 DEF RetryInv, MessageBound, Message
  <2>6. n > job[m.job].attempts /\ n \in Nat
    BY <2>1
  <2> HIDE DEF f, n
  <2>7. MessageBound'
    BY <1>t, <2>3, <2>4 DEF RetryInv, MessageBound, Message
  <2>8. AttemptBound'
    BY <1>t, <2>1, <2>2, <2>3, <2>4, <2>5, <2>6 DEF RetryInv, AttemptBound, Message, Execution
  <2>9. AttemptsAreDistinct'
    BY <1>t, <2>1, <2>4, <2>5, <2>6 DEF RetryInv, AttemptBound, AttemptsAreDistinct, Execution
  <2> QED
    BY <1>0, <2>7, <2>8, <2>9 DEF RetryInv
<1>9. ASSUME NEW e \in execution, Succeed(e) PROVE RetryInv'
  <2>1. e.msg.job \in Jobs
    BY <1>t DEF Execution, Message
  <2>2. \A i \in Jobs : job'[i].attempts = job[i].attempts
    BY <1>9, <1>t, <2>1 DEF Succeed, Row
  <2> QED
    BY <1>0, <1>9, <2>2, RetryInvProceeds DEF Succeed
<1>10. ASSUME NEW e \in execution, NEW b \in BOOLEAN, FailForGood(e, b) PROVE RetryInv'
  <2>1. e.msg.job \in Jobs
    BY <1>t DEF Execution, Message
  <2>2. \A i \in Jobs : job'[i].attempts = job[i].attempts
    BY <1>10, <1>t, <2>1 DEF FailForGood, Row
  <2> QED
    BY <1>0, <1>10, <2>2, RetryInvProceeds DEF FailForGood
<1>11. ASSUME NEW e \in execution, FailTransiently(e) PROVE RetryInv'
  <2>1. e.msg.job \in Jobs /\ e.attempt < MaxAttempts
    BY <1>11, <1>t, JobAssumption DEF Execution, Message, FailTransiently, Exhausted
  <2>2. \A i \in Jobs : job'[i].attempts = job[i].attempts
    BY <1>11, <1>t, <2>1 DEF FailTransiently, Row
  <2> QED
    BY <1>0, <1>11, <2>1, <2>2, RetryInvProceeds DEF FailTransiently
<1>12. ASSUME NEW e \in execution, PublishRetry(e) PROVE RetryInv'
  <2> DEFINE m == [number |-> published + 1, task |-> e.msg.task, job |-> e.msg.job,
                   retries |-> e.msg.retries + 1]
  <2>1. e \in Execution /\ e.msg \in Message
    BY <1>t DEF Execution
  <2>2. m.job = e.msg.job /\ m.retries = e.msg.retries + 1
    BY <2>1 DEF Message
  <2>3. queue' = queue \cup {m} /\ Proceed(e, "ack") /\ UNCHANGED job
    BY <1>12 DEF PublishRetry
  <2> HIDE DEF m
  <2>4. e.msg.retries + 1 <= e.attempt
    BY <2>1 DEF RetryInv, AttemptBound, Message, Execution
  <2> QED
    BY <1>0, <2>2, <2>3, <2>4, RetryInvProceeds
<1>13. ASSUME NEW e \in execution, Ack(e) \/ HardTimeLimit(e) PROVE RetryInv'
  BY <1>0, <1>13, RetryInvShrinks DEF Ack, HardTimeLimit
<1>14. ASSUME NEW e \in execution, Crash(e) PROVE RetryInv'
  <2>1. /\ queue' = queue \cup {e.msg}
        /\ execution' \subseteq execution /\ UNCHANGED job
    BY <1>14 DEF Crash
  <2>2. e.msg \in Message /\ job[e.msg.job].attempts \in Nat /\ e.attempt \in Nat
    BY <1>t DEF Execution, Message, Row
  <2>3. e.msg.retries <= job[e.msg.job].attempts
    BY <2>2 DEF RetryInv, AttemptBound, Message
  <2> QED
    BY <1>0, <2>1, <2>3 DEF RetryInv, MessageBound, AttemptBound, AttemptsAreDistinct
<1>15. ASSUME NEW r \in Recoverers, NEW j \in Jobs, SelectStale(r, j) PROVE RetryInv'
  BY <1>0, <1>15, RetryInvShrinks DEF SelectStale
<1>16. ASSUME NEW r \in Recoverers, Recover(r) PROVE RetryInv'
  <2>1. \A i \in Jobs : job'[i].attempts = job[i].attempts
    BY <1>16, <1>t DEF Recover, Row
  <2> QED
    BY <1>0, <1>16, <2>1, RetryInvShrinks DEF Recover
<1>17. ASSUME NEW u \in Retriers, NEW j \in Jobs, CheckRetry(u, j) PROVE RetryInv'
  BY <1>0, <1>17, RetryInvShrinks DEF CheckRetry
<1>18. ASSUME NEW u \in Retriers, ApplyRetry(u) PROVE RetryInv'
  <2>1. \A i \in Jobs : job'[i].attempts = job[i].attempts
    BY <1>18, <1>t DEF ApplyRetry, Row
  <2> QED
    BY <1>0, <1>18, <2>1, RetryInvShrinks DEF ApplyRetry
<1> QED
  BY NextCases, <1>1, <1>2, <1>3, <1>4, <1>5, <1>6, <1>7, <1>8, <1>9, <1>10, <1>11, <1>12,
     <1>13, <1>14, <1>15, <1>16, <1>17, <1>18

\* self.retry never finds the Celery limit used up after the row was returned
\* to "queued", whatever is delivered twice, crashes or is retried by hand.
THEOREM JobRetryBudget == Spec => []RetryBudgetSuffices
  BY RetryInvInit, RetryInvImplies, RetryInvStep, PTL DEF Spec

\* Overlapping executions of a job are counted as different attempts.
THEOREM JobAttemptsDistinct == Spec => []AttemptsAreDistinct
<1>1. RetryInv => AttemptsAreDistinct
  BY DEF RetryInv
<1> QED
  BY <1>1, RetryInvInit, RetryInvStep, PTL DEF Spec
-----------------------------------------------------------------------------
(***************************************************************************)
(* The lease: at most one execution of a job, and one commit of it, as     *)
(* long as its row was not overtaken and no task of it had two messages.   *)
(***************************************************************************)
Steady(j) == Unharmed(j, {"overtaken", "twin"})

\* The executions that may still end or publish a retry.
Live == {e \in execution : e.pc # "ack"}

\* Tasks are numbered in the order in which they are published.
TasksPublished ==
  /\ \A m \in queue : m.task \in 1..published
  /\ \A e \in execution : e.msg.task \in 1..published

\* A task of the job has one message or one live execution.
OneHolder(j) ==
  /\ \A m, n \in queue : m.job = j /\ n.job = j /\ m.task = n.task => m = n
  /\ \A e, f \in Live : e.msg.job = j /\ f.msg.job = j /\ e.msg.task = f.msg.task => e = f
  /\ \A m \in queue, e \in Live : m.job = j /\ e.msg.job = j => m.task # e.msg.task

\* An execution holds the lease of its row.
LeaseHolder(j) ==
  \A e \in Executing(j) : job[j].status = "running" /\ ~job[j].stale /\ job[j].task = e.msg.task

CommittedOnce(j) == commits[j] <= 1 /\ (commits[j] = 1 <=> job[j].status = "succeeded")

Leased(j) == OneHolder(j) /\ LeaseHolder(j) /\ CommittedOnce(j)

LeaseInv == TypeOK /\ TasksPublished /\ \A j \in Jobs : Steady(j) => Leased(j)

LEMMA LeaseInit == Init => LeaseInv
  BY TypeOKInit DEF Init, LeaseInv, TasksPublished, Leased, OneHolder, Live, LeaseHolder,
                    Executing, CommittedOnce, NewRow

\* What happened to a job is not forgotten.
LEMMA MishapGrows == ASSUME [Next]_jobVars PROVE mishap \subseteq mishap'
<1>1. CASE UNCHANGED jobVars
  BY <1>1 DEF jobVars
<1>2. ASSUME NEW j \in Jobs, Enqueue(j) \/ BackoffEnds(j) \/ HeartbeatExpires(j) PROVE mishap \subseteq mishap'
  BY <1>2 DEF Enqueue, BackoffEnds, HeartbeatExpires
<1>3. ASSUME NEW d \in Dispatchers,
             (\E j \in Jobs : LoadForDispatch(d, j)) \/ Send(d) \/ SendFails(d) \/ RecordDispatch(d)
      PROVE mishap \subseteq mishap'
  BY <1>3 DEF LoadForDispatch, Send, SendFails, RecordDispatch
<1>4. ASSUME NEW m \in queue, DropDelivery(m) \/ Claim(m) \/ LoseMessage(m) \/ ClaimRaises(m)
      PROVE mishap \subseteq mishap'
  BY <1>4 DEF DropDelivery, Claim, LoseMessage, ClaimRaises, Note
<1>5. ASSUME NEW e \in execution,
             \/ Succeed(e) \/ (\E b \in BOOLEAN : FailForGood(e, b)) \/ FailTransiently(e)
             \/ PublishRetry(e) \/ Ack(e) \/ Crash(e) \/ HardTimeLimit(e)
      PROVE mishap \subseteq mishap'
  BY <1>5 DEF Succeed, FailForGood, FailTransiently, PublishRetry, Ack, Crash, HardTimeLimit, Note
<1>6. ASSUME NEW r \in Recoverers, Recover(r) \/ \E j \in Jobs : SelectStale(r, j) PROVE mishap \subseteq mishap'
  BY <1>6 DEF SelectStale, Recover, Note
<1>7. ASSUME NEW u \in Retriers, ApplyRetry(u) \/ \E j \in Jobs : CheckRetry(u, j) PROVE mishap \subseteq mishap'
  BY <1>7 DEF CheckRetry, ApplyRetry, NoteRetry
<1> QED
  BY NextCases, <1>1, <1>2, <1>3, <1>4, <1>5, <1>6, <1>7

LEMMA StaysUnharmed ==
  ASSUME [Next]_jobVars, NEW j, NEW kinds, Unharmed(j, kinds)' PROVE Unharmed(j, kinds)
BY MishapGrows DEF Unharmed

\* An execution that moves on keeps its message.
LEMMA LiveProceeds ==
  ASSUME TypeOK, NEW e \in execution, NEW pc \in {"retry", "ack"}, Proceed(e, pc)
  PROVE  \E f : /\ f.msg = e.msg /\ f.pc = pc /\ execution' = (execution \ {e}) \cup {f}
                /\ Live' = IF pc = "ack" THEN Live \ {e} ELSE (Live \ {e}) \cup {f}
<1> DEFINE f == [e EXCEPT !.pc = pc]
<1>1. f.msg = e.msg /\ f.pc = pc
  BY DEF TypeOK, Execution
<1>2. execution' = (execution \ {e}) \cup {f}
  BY DEF Proceed
<1> HIDE DEF f
<1> QED
  BY <1>1, <1>2 DEF Live

\* A step whose messages and executions carry tasks that are already known.
LEMMA TasksKnown ==
  ASSUME TypeOK, TasksPublished, published' \in Nat, published <= published',
         \A m \in queue' : m.task \in 1..published' \/ m \in queue,
         \A e \in execution' : (\E m \in queue : e.msg = m) \/ (\E f \in execution : e.msg = f.msg)
  PROVE  TasksPublished'
<1>0. published \in Nat
  BY DEF TypeOK
<1>1. 1..published \subseteq 1..published'
  BY <1>0
<1> QED
  BY <1>1 DEF TasksPublished

LEMMA TasksStep == ASSUME TypeOK, TasksPublished, [Next]_jobVars PROVE TasksPublished'
<1>0. published \in Nat
  BY DEF TypeOK
<1>1. ASSUME published' = published, queue' \subseteq queue, execution' \subseteq execution PROVE TasksPublished'
  BY <1>1 DEF TasksPublished
<1>2. CASE UNCHANGED jobVars
  BY <1>1, <1>2 DEF jobVars
<1>3. ASSUME NEW j \in Jobs, Enqueue(j) \/ BackoffEnds(j) \/ HeartbeatExpires(j) PROVE TasksPublished'
  BY <1>1, <1>3 DEF Enqueue, BackoffEnds, HeartbeatExpires
<1>4. ASSUME NEW d \in Dispatchers, (\E j \in Jobs : LoadForDispatch(d, j)) \/ SendFails(d) \/ RecordDispatch(d)
      PROVE TasksPublished'
  BY <1>1, <1>4 DEF LoadForDispatch, SendFails, RecordDispatch
<1>5. ASSUME NEW d \in Dispatchers, Send(d) PROVE TasksPublished'
  <2> DEFINE m == [number |-> published + 1, task |-> published + 1,
                   job |-> dispatcher[d].job, retries |-> 0]
  <2>1. queue' = queue \cup {m} /\ published' = published + 1 /\ execution' = execution
    BY <1>5 DEF Send
  <2>2. m.task \in 1..(published + 1) /\ published + 1 \in Nat /\ published <= published + 1
    BY <1>0
  <2> HIDE DEF m
  <2> QED
    BY <2>1, <2>2, TasksKnown
<1>6. ASSUME NEW m \in queue, DropDelivery(m) \/ LoseMessage(m) \/ ClaimRaises(m) PROVE TasksPublished'
  BY <1>1, <1>6 DEF DropDelivery, LoseMessage, ClaimRaises
<1>7. ASSUME NEW m \in queue, Claim(m) PROVE TasksPublished'
  BY <1>0, <1>7, TasksKnown DEF Claim
<1>8. ASSUME NEW e \in execution, Succeed(e) \/ (\E b \in BOOLEAN : FailForGood(e, b)) \/ FailTransiently(e)
      PROVE TasksPublished'
  <2>1. PICK pc \in {"retry", "ack"} : Proceed(e, pc)
    BY <1>8 DEF Succeed, FailForGood, FailTransiently
  <2>2. PICK f : f.msg = e.msg /\ execution' = (execution \ {e}) \cup {f}
    BY <2>1, LiveProceeds
  <2>3. UNCHANGED <<queue, published>>
    BY <1>8 DEF Succeed, FailForGood, FailTransiently
  <2> QED
    BY <1>0, <2>2, <2>3, TasksKnown
<1>9. ASSUME NEW e \in execution, PublishRetry(e) PROVE TasksPublished'
  <2> DEFINE m == [number |-> published + 1, task |-> e.msg.task, job |-> e.msg.job,
                   retries |-> e.msg.retries + 1]
  <2>1. Proceed(e, "ack") /\ queue' = queue \cup {m} /\ published' = published + 1
    BY <1>9 DEF PublishRetry
  <2>2. PICK f : f.msg = e.msg /\ execution' = (execution \ {e}) \cup {f}
    BY <2>1, LiveProceeds
  <2>3. m.task \in 1..(published + 1) /\ published + 1 \in Nat /\ published <= published + 1
    BY <1>0 DEF TasksPublished
  <2> HIDE DEF m
  <2> QED
    BY <2>1, <2>2, <2>3, TasksKnown
<1>10. ASSUME NEW e \in execution, Ack(e) \/ HardTimeLimit(e) PROVE TasksPublished'
  BY <1>1, <1>10 DEF Ack, HardTimeLimit
<1>11. ASSUME NEW e \in execution, Crash(e) PROVE TasksPublished'
  BY <1>11 DEF Crash, TasksPublished
<1>12. ASSUME NEW r \in Recoverers, Recover(r) \/ \E j \in Jobs : SelectStale(r, j) PROVE TasksPublished'
  BY <1>1, <1>12 DEF SelectStale, Recover
<1>13. ASSUME NEW u \in Retriers, ApplyRetry(u) \/ \E j \in Jobs : CheckRetry(u, j) PROVE TasksPublished'
  BY <1>1, <1>13 DEF CheckRetry, ApplyRetry
<1> QED
  BY NextCases, <1>2, <1>3, <1>4, <1>5, <1>6, <1>7, <1>8, <1>9, <1>10, <1>11, <1>12, <1>13
-----------------------------------------------------------------------------
\* A step that adds no message and no execution of the job, and leaves its
\* lease alone or touches a row that nobody executes and that is not, and does
\* not become, succeeded.
LEMMA LeaseKept ==
  ASSUME NEW j \in Jobs, Leased(j), commits'[j] = commits[j],
         \A m \in queue' : m.job = j => m \in queue,
         \A e \in execution' : e.msg.job = j /\ e.pc # "ack" => e \in execution,
         \/ /\ job'[j].status = job[j].status /\ job'[j].stale = job[j].stale
            /\ job'[j].task = job[j].task
         \/ Executing(j)' = {} /\ job[j].status # "succeeded" /\ job'[j].status # "succeeded"
  PROVE  Leased(j)'
<1>1. OneHolder(j)'
  BY DEF Leased, OneHolder, Live
<1>2. LeaseHolder(j)'
  BY DEF Leased, LeaseHolder, Executing
<1>3. CommittedOnce(j)'
  BY DEF Leased, CommittedOnce
<1> QED
  BY <1>1, <1>2, <1>3 DEF Leased

\* A new message has a new task, or takes that of an execution it replaces.
LEMMA LeasePublishes ==
  ASSUME NEW j \in Jobs, Leased(j), NEW m, queue' = queue \cup {m}, UNCHANGED <<job, commits>>,
         \A e \in execution' : e.msg.job = j /\ e.pc # "ack" => e \in execution,
         m.job = j => /\ \A n \in queue : n.job = j => n.task # m.task
                      /\ \A e \in execution' : e.msg.job = j /\ e.pc # "ack" => e.msg.task # m.task
  PROVE  Leased(j)'
<1>1. OneHolder(j)'
  BY DEF Leased, OneHolder, Live
<1>2. LeaseHolder(j)'
  BY DEF Leased, LeaseHolder, Executing
<1>3. CommittedOnce(j)'
  BY DEF Leased, CommittedOnce
<1> QED
  BY <1>1, <1>2, <1>3 DEF Leased

\* A claim of the job finds nobody executing it.
LEMMA LeaseClaimed ==
  ASSUME TypeOK, NEW m \in queue, Leased(m.job), Claim(m) PROVE Leased(m.job)'
<1> DEFINE f == [msg |-> m, attempt |-> job[m.job].attempts + 1, pc |-> "running"]
<1>t. m.job \in Jobs /\ job \in [Jobs -> Row]
  BY DEF TypeOK, Message
<1>1. /\ execution' = execution \cup {f} /\ queue' = queue \ {m} /\ commits' = commits
      /\ job[m.job].status # "succeeded" /\ ~LeaseHeld(m)
  BY DEF Claim
<1>2. f.msg = m /\ f.pc = "running"
  OBVIOUS
<1>3. job'[m.job].status = "running" /\ ~job'[m.job].stale /\ job'[m.job].task = m.task
  BY <1>t DEF Claim, Row
<1> HIDE DEF f
<1>4. Live' = Live \cup {f}
  BY <1>1, <1>2 DEF Live
<1>5. Executing(m.job) = {}
  <2> SUFFICES ASSUME NEW e \in Executing(m.job) PROVE FALSE
    OBVIOUS
  <2>1. e \in Live /\ e.msg.job = m.job
    BY DEF Executing, Live
  <2>2. m.task # e.msg.task
    BY <2>1 DEF Leased, OneHolder
  <2> QED
    BY <1>1, <2>2 DEF Leased, LeaseHolder, LeaseHeld
<1>6. OneHolder(m.job)'
  BY <1>1, <1>2, <1>4 DEF Leased, OneHolder
<1>7. Executing(m.job)' \subseteq {f}
  BY <1>1, <1>5 DEF Executing
<1>8. LeaseHolder(m.job)'
  BY <1>2, <1>3, <1>7 DEF LeaseHolder
<1>9. CommittedOnce(m.job)'
  BY <1>1, <1>3 DEF Leased, CommittedOnce
<1> QED
  BY <1>6, <1>8, <1>9 DEF Leased

\* Only its own execution settles a running row.
LEMMA LeaseSettles ==
  ASSUME TypeOK, NEW e \in execution, e.pc = "running", NEW j \in Jobs, e.msg.job = j, Leased(j),
         NEW pc \in {"retry", "ack"}, Proceed(e, pc), queue' = queue,
         \/ job'[j].status # "succeeded" /\ commits' = commits
         \/ job'[j].status = "succeeded" /\ commits' = [commits EXCEPT ![j] = @ + 1]
  PROVE  Leased(j)'
<1>1. PICK f : /\ f.msg = e.msg /\ f.pc = pc /\ execution' = (execution \ {e}) \cup {f}
               /\ Live' = IF pc = "ack" THEN Live \ {e} ELSE (Live \ {e}) \cup {f}
  BY LiveProceeds
<1>2. e \in Executing(j) /\ job[j].status = "running"
  BY DEF Executing, Leased, LeaseHolder
<1>3. Executing(j) \subseteq {e}
  BY <1>2 DEF Leased, LeaseHolder, OneHolder, Live, Executing
<1>4. Executing(j)' = {}
  BY <1>1, <1>3 DEF Executing
<1>5. OneHolder(j)'
  BY <1>1, <1>2 DEF Leased, OneHolder, Executing, Live
<1>6. commits \in [Jobs -> Nat] /\ commits[j] = 0
  <2>1. commits \in [Jobs -> Nat]
    BY DEF TypeOK
  <2>2. commits[j] <= 1 /\ commits[j] # 1 /\ commits[j] \in Nat
    BY <1>2, <2>1 DEF Leased, CommittedOnce
  <2> QED
    BY <2>1, <2>2
<1>7. CommittedOnce(j)'
  BY <1>6 DEF CommittedOnce
<1> QED
  BY <1>4, <1>5, <1>7 DEF Leased, LeaseHolder

\* An execution publishes its retry in its place.
LEMMA LeaseRetries ==
  ASSUME TypeOK, NEW e \in execution, NEW j \in Jobs, Leased(j), PublishRetry(e) PROVE Leased(j)'
<1> DEFINE m == [number |-> published + 1, task |-> e.msg.task, job |-> e.msg.job,
                 retries |-> e.msg.retries + 1]
<1>1. /\ e.pc = "retry" /\ Proceed(e, "ack") /\ queue' = queue \cup {m} /\ UNCHANGED <<job, commits>>
  BY DEF PublishRetry
<1>2. m.task = e.msg.task /\ m.job = e.msg.job
  OBVIOUS
<1> HIDE DEF m
<1>3. PICK f : f.pc = "ack" /\ execution' = (execution \ {e}) \cup {f}
  BY <1>1, LiveProceeds
<1>4. e \in Live
  BY <1>1 DEF Live
<1>5. \A g \in execution' : g.pc # "ack" => g \in Live /\ g # e
  BY <1>3 DEF Live
<1>6. ASSUME m.job = j
      PROVE  /\ \A n \in queue : n.job = j => n.task # m.task
             /\ \A g \in execution' : g.msg.job = j /\ g.pc # "ack" => g.msg.task # m.task
  BY <1>2, <1>4, <1>5, <1>6 DEF Leased, OneHolder
<1>7. \A g \in execution' : g.msg.job = j /\ g.pc # "ack" => g \in execution
  BY <1>3
<1> QED
  BY <1>1, <1>6, <1>7, LeasePublishes

LEMMA LeaseStep == ASSUME LeaseInv, [Next]_jobVars PROVE LeaseInv'
<1>0. TypeOK /\ TypeOK' /\ TasksPublished /\ TasksPublished'
  BY TypeOKStep, TasksStep DEF LeaseInv
<1> SUFFICES ASSUME NEW j \in Jobs, Steady(j)' PROVE Leased(j)'
  BY <1>0 DEF LeaseInv
<1>s. Leased(j)
  BY StaysUnharmed DEF Steady, LeaseInv
<1>t. /\ job \in [Jobs -> Row] /\ published \in Nat /\ commits \in [Jobs -> Nat]
      /\ \A m \in queue : m.job \in Jobs
      /\ \A e \in execution : e.msg.job \in Jobs
      /\ \A d \in Dispatchers : dispatcher[d].pc # "idle" => dispatcher[d].job \in Jobs
  BY <1>0 DEF TypeOK, Execution, Message
<1>1. ASSUME job'[j] = job[j], commits'[j] = commits[j],
             \A m \in queue' : m.job = j => m \in queue,
             \A e \in execution' : e.msg.job = j /\ e.pc # "ack" => e \in execution
      PROVE  Leased(j)'
  BY <1>s, <1>1, LeaseKept
<1>2. CASE UNCHANGED jobVars
  BY <1>1, <1>2 DEF jobVars
<1>3. ASSUME NEW i \in Jobs, Enqueue(i) \/ BackoffEnds(i) \/ HeartbeatExpires(i) PROVE Leased(j)'
  <2>1. UNCHANGED <<queue, execution, commits>>
    BY <1>3 DEF Enqueue, BackoffEnds, HeartbeatExpires
  <2>2. CASE Enqueue(i) /\ i = j
    <3>1. job[j].status = "none" /\ job'[j].status = "queued"
      BY <1>t, <2>2 DEF Enqueue, Row
    <3>2. Executing(j)' = {}
      BY <1>s, <2>1, <3>1 DEF Leased, LeaseHolder, Executing
    <3> QED
      BY <1>s, <2>1, <3>1, <3>2, LeaseKept
  <2>3. CASE BackoffEnds(i)
    <3>1. job'[j].status = job[j].status /\ job'[j].stale = job[j].stale /\ job'[j].task = job[j].task
      BY <1>t, <2>3 DEF BackoffEnds, Row
    <3> QED
      BY <1>s, <2>1, <3>1, LeaseKept
  <2>4. CASE HeartbeatExpires(i) /\ i = j
    <3>1. job[j].status = "running" /\ job'[j].status = "running" /\ Executing(j) = {}
      BY <1>t, <2>4 DEF HeartbeatExpires, Row
    <3>2. Executing(j)' = {}
      BY <2>1, <3>1 DEF Executing
    <3> QED
      BY <1>s, <2>1, <3>1, <3>2, LeaseKept
  <2>5. CASE i # j
    <3>1. job'[j] = job[j]
      BY <1>3, <1>t, <2>5 DEF Enqueue, BackoffEnds, HeartbeatExpires
    <3> QED
      BY <1>1, <2>1, <3>1
  <2> QED
    BY <1>3, <2>2, <2>3, <2>4, <2>5
<1>4. ASSUME NEW d \in Dispatchers, (\E i \in Jobs : LoadForDispatch(d, i)) \/ SendFails(d)
      PROVE Leased(j)'
  BY <1>1, <1>4 DEF LoadForDispatch, SendFails
<1>5. ASSUME NEW d \in Dispatchers, Send(d) PROVE Leased(j)'
  <2> DEFINE m == [number |-> published + 1, task |-> published + 1,
                   job |-> dispatcher[d].job, retries |-> 0]
  <2>1. queue' = queue \cup {m} /\ UNCHANGED <<job, execution, commits>>
    BY <1>5 DEF Send
  <2>2. m.task = published + 1
    OBVIOUS
  <2>3. (\A n \in queue : n.task # m.task) /\ \A e \in execution : e.msg.task # m.task
    BY <1>0, <1>t, <2>2 DEF TasksPublished
  <2> HIDE DEF m
  <2> QED
    BY <1>s, <2>1, <2>3, LeasePublishes
<1>6. ASSUME NEW d \in Dispatchers, RecordDispatch(d) PROVE Leased(j)'
  <2>1. UNCHANGED <<queue, execution, commits>>
    BY <1>6 DEF RecordDispatch
  <2>2. CASE dispatcher[d].job # j \/ job[j].status # "queued"
    <3>1. job'[j] = job[j]
      BY <1>6, <1>t, <2>2 DEF RecordDispatch
    <3> QED
      BY <1>1, <2>1, <3>1
  <2>3. CASE dispatcher[d].job = j /\ job[j].status = "queued"
    <3>1. job'[j].status = "queued"
      BY <1>6, <1>t, <2>3 DEF RecordDispatch, Row
    <3>2. Executing(j)' = {}
      BY <1>s, <2>1, <2>3 DEF Leased, LeaseHolder, Executing
    <3> QED
      BY <1>s, <2>1, <2>3, <3>1, <3>2, LeaseKept
  <2> QED
    BY <2>2, <2>3
<1>7. ASSUME NEW m \in queue, DropDelivery(m) \/ LoseMessage(m) \/ ClaimRaises(m) PROVE Leased(j)'
  BY <1>1, <1>7 DEF DropDelivery, LoseMessage, ClaimRaises
<1>8. ASSUME NEW m \in queue, Claim(m) PROVE Leased(j)'
  <2>1. CASE m.job = j
    BY <1>0, <1>8, <1>s, <2>1, LeaseClaimed
  <2>2. CASE m.job # j
    BY <1>1, <1>8, <1>t, <2>2 DEF Claim
  <2> QED
    BY <2>1, <2>2
<1>9. ASSUME NEW e \in execution, Succeed(e) \/ (\E b \in BOOLEAN : FailForGood(e, b)) \/ FailTransiently(e)
      PROVE Leased(j)'
  <2>1. PICK pc \in {"retry", "ack"} : Proceed(e, pc)
    BY <1>9 DEF Succeed, FailForGood, FailTransiently
  <2>2. e.pc = "running" /\ queue' = queue
    BY <1>9 DEF Succeed, FailForGood, FailTransiently
  <2>3. CASE e.msg.job = j
    <3>1. \/ job'[j].status # "succeeded" /\ commits' = commits
          \/ job'[j].status = "succeeded" /\ commits' = [commits EXCEPT ![j] = @ + 1]
      <4>1. CASE Succeed(e)
        BY <1>t, <2>3, <4>1 DEF Succeed, Row
      <4>2. CASE \E b \in BOOLEAN : FailForGood(e, b)
        BY <1>t, <2>3, <4>2 DEF FailForGood, Row
      <4>3. CASE FailTransiently(e)
        BY <1>t, <2>3, <4>3 DEF FailTransiently, Row
      <4> QED
        BY <1>9, <4>1, <4>2, <4>3
    <3> QED
      BY <1>0, <1>s, <2>1, <2>2, <2>3, <3>1, LeaseSettles
  <2>4. CASE e.msg.job # j
    <3>1. job'[j] = job[j] /\ commits'[j] = commits[j]
      BY <1>9, <1>t, <2>4 DEF Succeed, FailForGood, FailTransiently
    <3>2. PICK f : f.msg = e.msg /\ execution' = (execution \ {e}) \cup {f}
      BY <1>0, <2>1, LiveProceeds
    <3> QED
      BY <1>1, <2>2, <2>4, <3>1, <3>2
  <2> QED
    BY <2>3, <2>4
<1>10. ASSUME NEW e \in execution, PublishRetry(e) PROVE Leased(j)'
  BY <1>0, <1>10, <1>s, LeaseRetries
<1>11. ASSUME NEW e \in execution, Ack(e) \/ HardTimeLimit(e) PROVE Leased(j)'
  BY <1>1, <1>11 DEF Ack, HardTimeLimit
<1>12. ASSUME NEW e \in execution, Crash(e) PROVE Leased(j)'
  <2>1. /\ execution' = execution \ {e} /\ queue' = queue \cup {e.msg} /\ UNCHANGED <<job, commits>>
    BY <1>12 DEF Crash
  <2>2. e.msg.job = j => ~HasTwin(e)
    BY <1>12 DEF Crash, Note, Steady, Unharmed
  <2>3. ASSUME e.msg.job = j
        PROVE  /\ \A n \in queue : n.task # e.msg.task
               /\ \A f \in execution' : f.pc # "ack" => f.msg.task # e.msg.task
    BY <2>1, <2>2, <2>3 DEF HasTwin
  <2> QED
    BY <1>s, <2>1, <2>3, LeasePublishes
<1>13. ASSUME NEW r \in Recoverers, NEW i \in Jobs, SelectStale(r, i) PROVE Leased(j)'
  BY <1>1, <1>13 DEF SelectStale
<1>14. ASSUME NEW r \in Recoverers, Recover(r) PROVE Leased(j)'
  <2>1. UNCHANGED <<queue, execution, commits>>
    BY <1>14 DEF Recover
  <2>2. CASE recoverer[r].job # j \/ job[j].status # "running"
    <3>1. job'[j] = job[j]
      BY <1>14, <1>t, <2>2 DEF Recover
    <3> QED
      BY <1>1, <2>1, <3>1
  <2>3. CASE recoverer[r].job = j /\ job[j].status = "running"
    <3>1. job[j].stale
      BY <1>14, <2>3 DEF Recover, Note, Steady, Unharmed
    <3>2. Executing(j)' = {}
      BY <1>s, <2>1, <3>1 DEF Leased, LeaseHolder, Executing
    <3>3. job'[j].status # "succeeded"
      BY <1>14, <1>t, <2>3 DEF Recover, Row
    <3> QED
      BY <1>s, <2>1, <2>3, <3>2, <3>3, LeaseKept
  <2> QED
    BY <2>2, <2>3
<1>15. ASSUME NEW u \in Retriers, NEW i \in Jobs, CheckRetry(u, i) PROVE Leased(j)'
  BY <1>1, <1>15 DEF CheckRetry
<1>16. ASSUME NEW u \in Retriers, ApplyRetry(u) PROVE Leased(j)'
  <2>1. UNCHANGED <<queue, execution, commits>>
    BY <1>16 DEF ApplyRetry
  <2>2. CASE retrier[u] # j
    <3>1. job'[j] = job[j]
      BY <1>16, <1>t, <2>2 DEF ApplyRetry
    <3> QED
      BY <1>1, <2>1, <3>1
  <2>3. CASE retrier[u] = j
    <3>1. job[j].status = "failed"
      BY <1>16, <2>3 DEF ApplyRetry, NoteRetry, Steady, Unharmed
    <3>2. Executing(j)' = {}
      BY <1>s, <2>1, <3>1 DEF Leased, LeaseHolder, Executing
    <3>3. job'[j].status # "succeeded"
      BY <1>16, <1>t, <2>3 DEF ApplyRetry, Row
    <3> QED
      BY <1>s, <2>1, <3>1, <3>2, <3>3, LeaseKept
  <2> QED
    BY <2>2, <2>3
<1> QED
  BY NextCases, <1>2, <1>3, <1>4, <1>5, <1>6, <1>7, <1>8, <1>9, <1>10, <1>11, <1>12, <1>13, <1>14,
     <1>15, <1>16

\* No two workers execute the same job at a time, for any number of jobs,
\* dispatch runs, scans, retry requests, workers and failures, unless a recovery
\* or a manual retry has overtaken its row or a task of it has two messages.
THEOREM JobExclusive == Spec => []ExclusiveExecution
<1>1. LeaseInv => ExclusiveExecution
  <2> SUFFICES ASSUME LeaseInv, NEW j \in Jobs, Steady(j) PROVE Cardinality(Executing(j)) <= 1
    BY DEF ExclusiveExecution, Steady
  <2>1. \A e, f \in Executing(j) : e = f
    BY DEF LeaseInv, Leased, LeaseHolder, OneHolder, Live, Executing
  <2>2. CASE Executing(j) = {}
    BY <2>2, FS_EmptySet
  <2>3. CASE Executing(j) # {}
    <3>1. PICK e : Executing(j) = {e}
      BY <2>1, <2>3
    <3>2. Cardinality({e}) = 1
      BY FS_Singleton
    <3> QED
      BY <3>1, <3>2
  <2> QED
    BY <2>2, <2>3
<1>2. LeaseInv /\ [Next]_jobVars => LeaseInv'
  BY LeaseStep
<1> QED
  BY <1>1, <1>2, LeaseInit, PTL DEF Spec

\* An operation is committed once and its row stays succeeded, with the same
\* two exceptions, although every process updates the row by its identifier.
THEOREM JobSuccessIsFinal == Spec => []SuccessIsFinal
<1>1. LeaseInv => SuccessIsFinal
  BY DEF LeaseInv, Leased, CommittedOnce, Steady, SuccessIsFinal
<1>2. LeaseInv /\ [Next]_jobVars => LeaseInv'
  BY LeaseStep
<1> QED
  BY <1>1, <1>2, LeaseInit, PTL DEF Spec
-----------------------------------------------------------------------------
(***************************************************************************)
(* What carries a queued row on, as long as no message of the job was      *)
(* lost, its row was not overtaken, and nobody queued it by hand while a   *)
(* dispatch was to be recorded.                                            *)
(***************************************************************************)
Kept(j) == Unharmed(j, {"lost", "overtaken", "requeued"})

HasMessage(j) == \E m \in queue : m.job = j
Carries(j) == HasMessage(j) \/ \E e \in execution : e.msg.job = j /\ e.pc = "retry"
Sent(j) == \E d \in Dispatchers : dispatcher[d].job = j /\ dispatcher[d].pc = "sent"

\* A queued row with a task id, or whose dispatch is still to be recorded, has
\* a message or a pending retry; so has a stale row whose dispatch is to be
\* recorded, since only a claim would take the message; and a row that was
\* never enqueued has no dispatcher.
Carried(j) ==
  /\ job[j].status = "queued" /\ (job[j].task # NoTask \/ Sent(j)) => Carries(j)
  /\ job[j].status = "running" /\ job[j].stale /\ Sent(j) => HasMessage(j)
  /\ job[j].status = "none" => job[j].task = NoTask /\ \A d \in Dispatchers : dispatcher[d].job # j

CarriedInv == TypeOK /\ \A j \in Jobs : Kept(j) => Carried(j)

LEMMA CarriedInit == Init => CarriedInv
<1> SUFFICES ASSUME Init PROVE CarriedInv
  OBVIOUS
<1>1. /\ \A j \in Jobs : job[j].status = "none" /\ job[j].task = NoTask
      /\ \A d \in Dispatchers : dispatcher[d].job \notin Jobs
  BY JobAssumption DEF Init, NewRow, IdleDispatcher
<1> QED
  BY <1>1, TypeOKInit DEF CarriedInv, Carried

\* A step that leaves the row's status and task alone, keeps what carries the
\* job, and sends nothing for it.
LEMMA CarriedKept ==
  ASSUME NEW j \in Jobs, Carried(j),
         job'[j].status = job[j].status, job'[j].stale = job[j].stale, job'[j].task = job[j].task,
         Carries(j) => Carries(j)', HasMessage(j) => HasMessage(j)', Sent(j)' => Sent(j),
         \A d \in Dispatchers : dispatcher'[d].job = j => dispatcher[d].job = j
  PROVE  Carried(j)'
BY DEF Carried

LEMMA CarriedStep == ASSUME CarriedInv, [Next]_jobVars PROVE CarriedInv'
<1>0. TypeOK /\ TypeOK'
  BY TypeOKStep DEF CarriedInv
<1> SUFFICES ASSUME NEW j \in Jobs, Kept(j)' PROVE Carried(j)'
  BY <1>0 DEF CarriedInv
<1>s. Carried(j)
  BY StaysUnharmed DEF Kept, CarriedInv
<1>t. /\ job \in [Jobs -> Row]
      /\ \A m \in queue : m.job \in Jobs
      /\ \A e \in execution : e.msg.job \in Jobs
      /\ \A d \in Dispatchers : dispatcher[d].pc # "idle" => dispatcher[d].job \in Jobs
  BY <1>0 DEF TypeOK, Execution, Message
<1>n. NoTask = 0 /\ NoJob \notin Jobs
  BY JobAssumption DEF NoTask
<1>d. UNCHANGED dispatcher => /\ Sent(j)' => Sent(j)
                              /\ \A d \in Dispatchers : dispatcher'[d].job = j => dispatcher[d].job = j
  BY DEF Sent
<1>1. ASSUME UNCHANGED dispatcher, Carries(j) => Carries(j)', HasMessage(j) => HasMessage(j)',
             job'[j].status = job[j].status, job'[j].stale = job[j].stale, job'[j].task = job[j].task
      PROVE  Carried(j)'
  BY <1>s, <1>d, <1>1, CarriedKept
<1>2. ASSUME job'[j].status \in {"running", "succeeded", "failed"},
             job'[j].status = "running" => ~job'[j].stale
      PROVE  Carried(j)'
  BY <1>2 DEF Carried
<1>3. CASE UNCHANGED jobVars
  BY <1>1, <1>3 DEF jobVars, Carries, HasMessage
<1>4. ASSUME NEW i \in Jobs, Enqueue(i) \/ BackoffEnds(i) \/ HeartbeatExpires(i) PROVE Carried(j)'
  <2>1. /\ UNCHANGED <<queue, execution, dispatcher>> /\ (Carries(j) => Carries(j)')
        /\ HasMessage(j) => HasMessage(j)'
    BY <1>4 DEF Enqueue, BackoffEnds, HeartbeatExpires, Carries, HasMessage
  <2>2. CASE Enqueue(i) /\ i = j
    <3>1. job[j].status = "none" /\ job'[j].status = "queued" /\ job'[j].task = job[j].task
      BY <1>t, <2>2 DEF Enqueue, Row
    <3> QED
      BY <1>s, <2>1, <3>1 DEF Carried, Sent
  <2>3. CASE BackoffEnds(i)
    <3>1. job'[j].status = job[j].status /\ job'[j].stale = job[j].stale /\ job'[j].task = job[j].task
      BY <1>t, <2>3 DEF BackoffEnds, Row
    <3> QED
      BY <1>1, <2>1, <3>1
  <2>4. CASE HeartbeatExpires(i) /\ i = j
    <3>1. job'[j].status = "running" /\ ~Sent(j)'
      BY <1>t, <2>4 DEF HeartbeatExpires, Row, Between, Sent
    <3> QED
      BY <3>1 DEF Carried
  <2>5. CASE i # j
    <3>1. job'[j] = job[j]
      BY <1>4, <1>t, <2>5 DEF Enqueue, BackoffEnds, HeartbeatExpires
    <3> QED
      BY <1>1, <2>1, <3>1
  <2> QED
    BY <1>4, <2>2, <2>3, <2>4, <2>5
<1>5. ASSUME NEW d \in Dispatchers, NEW i \in Jobs, LoadForDispatch(d, i) PROVE Carried(j)'
  <2>1. /\ UNCHANGED <<job, queue, execution>> /\ job[i].status = "queued"
        /\ \A c \in Dispatchers \ {d} : dispatcher'[c] = dispatcher[c]
        /\ dispatcher'[d].pc = "loaded" /\ dispatcher'[d].job = i
    BY <1>0, <1>5 DEF LoadForDispatch, Dispatchable, TypeOK
  <2>2. Carries(j)' = Carries(j) /\ HasMessage(j)' = HasMessage(j) /\ (Sent(j)' => Sent(j))
    BY <2>1 DEF Carries, HasMessage, Sent
  <2> QED
    BY <1>s, <2>1, <2>2 DEF Carried
<1>6. ASSUME NEW d \in Dispatchers, Send(d) PROVE Carried(j)'
  <2>1. /\ UNCHANGED <<job, execution>> /\ queue \subseteq queue'
        /\ \A c \in Dispatchers \ {d} : dispatcher'[c] = dispatcher[c]
        /\ dispatcher'[d].job = dispatcher[d].job /\ dispatcher[d].job \in Jobs
    BY <1>0, <1>6, <1>t DEF Send, TypeOK
  <2>2. CASE dispatcher[d].job = j
    <3>1. HasMessage(j)'
      <4> DEFINE m == [number |-> published + 1, task |-> published + 1, job |-> j, retries |-> 0]
      <4>1. m \in queue' /\ m.job = j
        BY <1>6, <2>2 DEF Send
      <4> QED
        BY <4>1 DEF HasMessage
    <3> QED
      BY <1>s, <2>1, <2>2, <3>1 DEF Carried, Carries
  <2>3. CASE dispatcher[d].job # j
    <3>1. (Carries(j) => Carries(j)') /\ (HasMessage(j) => HasMessage(j)') /\ (Sent(j)' => Sent(j))
      BY <2>1, <2>3 DEF Carries, HasMessage, Sent
    <3>2. \A c \in Dispatchers : dispatcher'[c].job = j => dispatcher[c].job = j
      BY <2>1
    <3> QED
      BY <1>s, <2>1, <3>1, <3>2, CarriedKept
  <2> QED
    BY <2>2, <2>3
<1>7. ASSUME NEW d \in Dispatchers, SendFails(d) PROVE Carried(j)'
  <2>1. /\ UNCHANGED <<job, queue, execution>>
        /\ \A c \in Dispatchers \ {d} : dispatcher'[c] = dispatcher[c]
        /\ dispatcher'[d].pc = "failed" /\ dispatcher'[d].job = dispatcher[d].job
    BY <1>0, <1>7 DEF SendFails, TypeOK
  <2>2. Carries(j)' = Carries(j) /\ HasMessage(j)' = HasMessage(j) /\ (Sent(j)' => Sent(j))
    BY <2>1 DEF Carries, HasMessage, Sent
  <2>3. \A c \in Dispatchers : dispatcher'[c].job = j => dispatcher[c].job = j
    BY <2>1
  <2> QED
    BY <1>s, <2>1, <2>2, <2>3, CarriedKept
<1>8. ASSUME NEW d \in Dispatchers, RecordDispatch(d) PROVE Carried(j)'
  <2>1. /\ UNCHANGED <<queue, execution>> /\ \A c \in Dispatchers \ {d} : dispatcher'[c] = dispatcher[c]
        /\ dispatcher'[d].job = NoJob /\ dispatcher'[d].pc = "idle"
    BY <1>0, <1>8 DEF RecordDispatch, TypeOK, IdleDispatcher
  <2>2. Carries(j)' = Carries(j) /\ HasMessage(j)' = HasMessage(j) /\ (Sent(j)' => Sent(j))
    BY <2>1 DEF Carries, HasMessage, Sent
  <2>3. \A c \in Dispatchers : dispatcher'[c].job = j => dispatcher[c].job = j
    BY <1>n, <2>1
  <2>4. CASE dispatcher[d].job # j
    <3>1. job'[j] = job[j]
      BY <1>8, <1>t, <2>4 DEF RecordDispatch
    <3> QED
      BY <1>s, <2>2, <2>3, <3>1, CarriedKept
  <2>5. CASE dispatcher[d].job = j
    <3>1. job'[j].status = job[j].status /\ job'[j].stale = job[j].stale
      BY <1>8, <1>t, <2>5 DEF RecordDispatch, Row
    <3>2. CASE job'[j].task = job[j].task
      BY <1>s, <2>2, <2>3, <3>1, <3>2, CarriedKept
    <3>3. CASE job'[j].task # job[j].task
      <4>1. job[j].status = "queued" /\ dispatcher[d].pc = "sent"
        BY <1>8, <1>t, <2>5, <3>3 DEF RecordDispatch, Row
      <4>2. Sent(j)
        BY <2>5, <4>1 DEF Sent
      <4> QED
        BY <1>s, <2>2, <3>1, <4>1, <4>2 DEF Carried
    <3> QED
      BY <3>2, <3>3
  <2> QED
    BY <2>4, <2>5
<1>9. ASSUME NEW m \in queue, DropDelivery(m) PROVE Carried(j)'
  <2>1. UNCHANGED <<job, execution, dispatcher>> /\ queue' = queue \ {m}
    BY <1>9 DEF DropDelivery
  <2>2. CASE m.job = j
    BY <1>2, <1>9, <2>1, <2>2 DEF DropDelivery, LeaseHeld
  <2>3. CASE m.job # j
    <3>1. (Carries(j) => Carries(j)') /\ (HasMessage(j) => HasMessage(j)')
      BY <2>1, <2>3 DEF Carries, HasMessage
    <3> QED
      BY <1>1, <2>1, <3>1
  <2> QED
    BY <2>2, <2>3
<1>10. ASSUME NEW m \in queue, LoseMessage(m) \/ ClaimRaises(m) PROVE Carried(j)'
  <2>1. UNCHANGED <<job, execution, dispatcher>> /\ queue' = queue \ {m} /\ Note("lost", m.job)
    BY <1>10 DEF LoseMessage, ClaimRaises
  <2>2. m.job # j
    BY <2>1 DEF Note, Kept, Unharmed
  <2>3. (Carries(j) => Carries(j)') /\ (HasMessage(j) => HasMessage(j)')
    BY <2>1, <2>2 DEF Carries, HasMessage
  <2> QED
    BY <1>1, <2>1, <2>3
<1>11. ASSUME NEW m \in queue, Claim(m) PROVE Carried(j)'
  <2>1. CASE m.job = j
    <3>1. job'[j].status = "running" /\ ~job'[j].stale
      BY <1>11, <1>t, <2>1 DEF Claim, Row
    <3> QED
      BY <1>2, <3>1
  <2>2. CASE m.job # j
    <3>1. job'[j] = job[j] /\ queue' = queue \ {m} /\ execution \subseteq execution' /\ UNCHANGED dispatcher
      BY <1>11, <1>t, <2>2 DEF Claim
    <3>2. (Carries(j) => Carries(j)') /\ (HasMessage(j) => HasMessage(j)')
      BY <2>2, <3>1 DEF Carries, HasMessage
    <3> QED
      BY <1>1, <3>1, <3>2
  <2> QED
    BY <2>1, <2>2
<1>12. ASSUME NEW e \in execution, Succeed(e) \/ (\E b \in BOOLEAN : FailForGood(e, b)) \/ FailTransiently(e)
       PROVE Carried(j)'
  <2>1. PICK pc \in {"retry", "ack"} : Proceed(e, pc)
    BY <1>12 DEF Succeed, FailForGood, FailTransiently
  <2>2. e.pc = "running" /\ UNCHANGED <<queue, dispatcher>>
    BY <1>12 DEF Succeed, FailForGood, FailTransiently
  <2>3. PICK f : f.msg = e.msg /\ f.pc = pc /\ execution' = (execution \ {e}) \cup {f}
    BY <1>0, <2>1, LiveProceeds
  <2>4. CASE e.msg.job # j
    <3>1. job'[j] = job[j]
      BY <1>12, <1>t, <2>4 DEF Succeed, FailForGood, FailTransiently
    <3>2. (Carries(j) => Carries(j)') /\ (HasMessage(j) => HasMessage(j)')
      BY <2>2, <2>3, <2>4 DEF Carries, HasMessage
    <3> QED
      BY <1>1, <2>2, <3>1, <3>2
  <2>5. CASE e.msg.job = j /\ Succeed(e)
    <3>1. job'[j].status = "succeeded"
      BY <1>t, <2>5 DEF Succeed, Row
    <3> QED
      BY <1>2, <3>1
  <2>6. CASE e.msg.job = j /\ \E b \in BOOLEAN : FailForGood(e, b)
    <3>1. job'[j].status = "failed"
      BY <1>t, <2>6 DEF FailForGood, Row
    <3> QED
      BY <1>2, <3>1
  <2>7. CASE e.msg.job = j /\ FailTransiently(e)
    <3>1. job'[j].status = "queued"
      BY <1>t, <2>7 DEF FailTransiently, Row
    <3>2. [e EXCEPT !.pc = "retry"] \in execution'
      BY <2>7 DEF FailTransiently, Proceed
    <3>3. [e EXCEPT !.pc = "retry"].msg = e.msg /\ [e EXCEPT !.pc = "retry"].pc = "retry"
      BY <1>0 DEF TypeOK, Execution
    <3>4. Carries(j)'
      BY <2>7, <3>2, <3>3 DEF Carries
    <3> QED
      BY <3>1, <3>4 DEF Carried
  <2> QED
    BY <1>12, <2>4, <2>5, <2>6, <2>7
<1>13. ASSUME NEW e \in execution, PublishRetry(e) PROVE Carried(j)'
  <2> DEFINE m == [number |-> published + 1, task |-> e.msg.task, job |-> e.msg.job,
                   retries |-> e.msg.retries + 1]
  <2>1. UNCHANGED <<job, dispatcher>> /\ Proceed(e, "ack") /\ queue' = queue \cup {m}
    BY <1>13 DEF PublishRetry
  <2>2. m.job = e.msg.job
    OBVIOUS
  <2> HIDE DEF m
  <2>3. PICK f : execution' = (execution \ {e}) \cup {f}
    BY <1>0, <2>1, LiveProceeds
  <2>4. (Carries(j) => Carries(j)') /\ (HasMessage(j) => HasMessage(j)')
    BY <2>1, <2>2, <2>3 DEF Carries, HasMessage
  <2> QED
    BY <1>1, <2>1, <2>4
<1>14. ASSUME NEW e \in execution, Ack(e) \/ HardTimeLimit(e) PROVE Carried(j)'
  <2>1. UNCHANGED <<job, queue, dispatcher>> /\ execution' = execution \ {e} /\ e.pc # "retry"
    BY <1>14 DEF Ack, HardTimeLimit
  <2>2. (Carries(j) => Carries(j)') /\ (HasMessage(j) => HasMessage(j)')
    BY <2>1 DEF Carries, HasMessage
  <2> QED
    BY <1>1, <2>1, <2>2
<1>15. ASSUME NEW e \in execution, Crash(e) PROVE Carried(j)'
  <2>1. UNCHANGED <<job, dispatcher>> /\ queue' = queue \cup {e.msg} /\ execution' = execution \ {e}
    BY <1>15 DEF Crash
  <2>2. (Carries(j) => Carries(j)') /\ (HasMessage(j) => HasMessage(j)')
    BY <2>1 DEF Carries, HasMessage
  <2> QED
    BY <1>1, <2>1, <2>2
<1>16. ASSUME NEW r \in Recoverers, NEW i \in Jobs, SelectStale(r, i) PROVE Carried(j)'
  BY <1>1, <1>16 DEF SelectStale, Carries, HasMessage
<1>17. ASSUME NEW r \in Recoverers, Recover(r) PROVE Carried(j)'
  <2>1. UNCHANGED <<queue, execution, dispatcher>>
    BY <1>17 DEF Recover
  <2>2. Carries(j)' = Carries(j) /\ HasMessage(j)' = HasMessage(j) /\ Sent(j)' = Sent(j)
    BY <2>1 DEF Carries, HasMessage, Sent
  <2>3. CASE recoverer[r].job # j \/ job[j].status # "running"
    <3>1. job'[j] = job[j]
      BY <1>17, <1>t, <2>3 DEF Recover
    <3> QED
      BY <1>1, <2>1, <2>2, <3>1
  <2>4. CASE recoverer[r].job = j /\ job[j].status = "running"
    <3>1. job[j].stale
      BY <1>17, <2>4 DEF Recover, Note, Kept, Unharmed
    <3>2. job'[j].status \in {"queued", "failed"} /\ job'[j].task = NoTask
      BY <1>17, <1>t, <2>4 DEF Recover, Row
    <3> QED
      BY <1>s, <2>2, <2>4, <3>1, <3>2 DEF Carried, Carries
  <2> QED
    BY <2>3, <2>4
<1>18. ASSUME NEW u \in Retriers, NEW i \in Jobs, CheckRetry(u, i) PROVE Carried(j)'
  BY <1>1, <1>18 DEF CheckRetry, Carries, HasMessage
<1>19. ASSUME NEW u \in Retriers, ApplyRetry(u) PROVE Carried(j)'
  <2>1. UNCHANGED <<queue, execution, dispatcher>>
    BY <1>19 DEF ApplyRetry
  <2>2. Carries(j)' = Carries(j) /\ HasMessage(j)' = HasMessage(j) /\ Sent(j)' = Sent(j)
    BY <2>1 DEF Carries, HasMessage, Sent
  <2>3. CASE retrier[u] # j
    <3>1. job'[j] = job[j]
      BY <1>19, <1>t, <2>3 DEF ApplyRetry
    <3> QED
      BY <1>1, <2>1, <2>2, <3>1
  <2>4. CASE retrier[u] = j
    <3>1. ~Sent(j)
      BY <1>19, <2>4 DEF ApplyRetry, NoteRetry, Kept, Unharmed, Sent
    <3>2. job'[j].status = "queued" /\ job'[j].task = NoTask
      BY <1>19, <1>t, <2>4 DEF ApplyRetry, Row
    <3> QED
      BY <2>2, <3>1, <3>2 DEF Carried
  <2> QED
    BY <2>3, <2>4
<1> QED
  BY NextCases, <1>3, <1>4, <1>5, <1>6, <1>7, <1>8, <1>9, <1>10, <1>11, <1>12, <1>13, <1>14,
     <1>15, <1>16, <1>17, <1>18, <1>19

\* No queued job is left behind with a task id that nothing carries any more,
\* with redelivery, recovery and manual retries together, unless a message of
\* it was lost, its row was overtaken, or it was queued by hand between a
\* dispatch and its record.
THEOREM JobNotStranded == Spec => []NotStranded
<1>1. CarriedInv => NotStranded
  BY DEF CarriedInv, Carried, Carries, HasMessage, Kept, NotStranded
<1>2. CarriedInv /\ [Next]_jobVars => CarriedInv'
  BY CarriedStep
<1> QED
  BY <1>1, <1>2, CarriedInit, PTL DEF Spec
=============================================================================
