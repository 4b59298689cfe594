------------------------ MODULE WorkspacePageProofs ------------------------
(***************************************************************************)
(* Proofs about WorkspacePage, for any number of submissions, queries and  *)
(* reads, with every dialog, with and without a session storage, and also  *)
(* when a dialog is closed and opened again beside a live submission.      *)
(*                                                                         *)
(* The page with its endpoint is shown to be an IdempotencyRecord and a    *)
(* WorkspaceResource: it makes no step that either of them could not make, *)
(* so what was proved of each holds of the composition.  For that the keys *)
(* and queries that the client remembers have to be well formed.           *)
(***************************************************************************)
EXTENDS WorkspacePage, IdempotencyRecordProofs, WorkspaceResourceProofs, FiniteSetTheorems

SubmissionType == [stage : {"none", "sent", "reloading", "over"}, intent : Nat, told : BOOLEAN,
                   query : Queries, read : 0..MaxLoads, beside : SUBSET Calls]
StoredType == [key : Keys \cup {NoKey}, signature : Payloads \cup {NoPayload}]

\* The client's own part of the type invariant.
ClientOK ==
  /\ panel \in Panels /\ dialog \in {"closed", "open", "locked"}
  /\ submitting \in Calls \cup {Nothing}
  /\ stored \in StoredType
  /\ submission \in [Calls -> SubmissionType]
  /\ steps \in Nat

PageInv == RecordInv /\ ResourceInv /\ ClientOK

\* The page as it is first rendered.
LEMMA InitClientOK == PageInit => ClientOK
PROOF
  <1> SUFFICES ASSUME PageInit PROVE ClientOK
    OBVIOUS
  <1>1. NoSubmission \in SubmissionType
    BY ResourceAssumption DEF NoSubmission, SubmissionType
  <1>2. NoStored \in StoredType
    BY DEF NoStored, StoredType
  <1>3. QED
    BY <1>1, <1>2 DEF PageInit, ClientOK, Nothing

\* A submission that ends, or goes on to its read, remains one.
LEMMA OverType ==
  ASSUME NEW s \in SubmissionType
  PROVE  /\ Over(s) \in SubmissionType
         /\ [Over(s) EXCEPT !.told = TRUE] \in SubmissionType
         /\ \A v \in 0..MaxLoads :
              [Over(s) EXCEPT !.stage = "reloading", !.told = TRUE, !.read = v] \in SubmissionType
PROOF
  <1>1. 0 \in 0..MaxLoads /\ InitialQuery \in Queries
    BY ResourceAssumption
  <1>2. Over(s) \in SubmissionType
    BY <1>1 DEF Over, SubmissionType
  <1>3. QED
    BY <1>2 DEF SubmissionType

\* The keys the client uses: the stored one or a fresh one.
LEMMA MutationKeyType ==
  ASSUME ClientOK, NEW c \in Calls, NEW p \in Payloads
  PROVE  MutationKey(c, p) \in Keys
  BY PageAssumption DEF ClientOK, StoredType, MutationKey

\* The server sees the steps of IdempotencyRecord only.
LEMMA PageRecordStep == PageInv /\ [PageNext]_pageVars => [RecordNext]_recordVars
PROOF
  <1> SUFFICES ASSUME PageInv, [PageNext]_pageVars PROVE [RecordNext]_recordVars
    OBVIOUS
  <1>1. CASE OpenDialog \/ CloseDialog \/ Browse \/ LeavePage \/ ReloadPage
    BY <1>1 DEF OpenDialog, CloseDialog, Browse, LeavePage, ReloadPage
  <1>2. ASSUME NEW c \in Calls, NEW p \in Payloads, Submit(c, p) PROVE RecordNext
    <2>1. MutationKey(c, p) \in Keys
      BY MutationKeyType DEF PageInv
    <2>2. Receive(c, MutationKey(c, p), p)
      BY <1>2 DEF Submit
    <2>3. QED
      BY <2>1, <2>2 DEF RecordNext
  <1>3. ASSUME NEW c \in Calls, AnswerSubmission(c) PROVE UNCHANGED recordVars
    BY <1>3 DEF AnswerSubmission, NetworkError, ReceiveError, ReceiveIncomplete, FailSubmission,
                ApplySaved, DecisionSaved, RegularizationSaved
  <1>4. ASSUME NEW v \in 1..MaxLoads, AnswerRead(v) \/ SettlePage(v) PROVE UNCHANGED recordVars
    BY <1>4 DEF AnswerRead, SettlePage, SettleUnawaited, ReconcileOk, ReconcileNotOk
  <1>5. CASE ServerStep
    BY <1>5 DEF ServerStep, RecordNext
  <1>6. ASSUME NEW k \in Keys, RowExpires(k) PROVE RecordNext
    BY <1>6 DEF RowExpires, RecordNext
  <1>7. CASE UNCHANGED pageVars
    BY <1>7 DEF pageVars
  <1>8. QED
    BY <1>1, <1>2, <1>3, <1>4, <1>5, <1>6, <1>7 DEF PageNext

\* An answer to a read of the page is one the server may give.
LEMMA AnswerReadServes ==
  ASSUME PageInv, NEW v \in 1..MaxLoads, AnswerRead(v)
  PROVE  \E q \in Queries : ServeRead(v, applied, q) /\ (panel = "apply" => q = reads[v].query)
PROOF
  <1>1. PICK q \in Resolutions(reads[v].query) : ServeRead(v, applied, q)
    BY DEF AnswerRead
  <1>2. reads[v].query \in Queries
    BY DEF PageInv, ResourceInv, ResourceTypeOK
  <1>3. q \in Queries /\ (panel = "apply" => q = reads[v].query)
    BY <1>2, ResourceAssumption DEF Resolutions
  <1>4. QED
    BY <1>1, <1>3

\* The data of the page changes by the steps of WorkspaceResource only.
LEMMA PageResourceStep == PageInv /\ [PageNext]_pageVars => [ResourceNext]_resourceVars
PROOF
  <1> SUFFICES ASSUME PageInv, [PageNext]_pageVars PROVE [ResourceNext]_resourceVars
    OBVIOUS
  <1>0. applied \in SUBSET Rows
    BY PageAssumption DEF PageInv, RecordInv, RecordTypeOK
  <1>1. CASE OpenDialog \/ CloseDialog
    BY <1>1 DEF OpenDialog, CloseDialog
  <1>2. CASE Browse \/ LeavePage
    BY <1>2 DEF Browse, LeavePage, ResourceNext
  <1>3. CASE ReloadPage
    BY <1>0, <1>3 DEF ReloadPage, ResourceNext
  <1>4. ASSUME NEW c \in Calls, NEW p \in Payloads, Submit(c, p) PROVE UNCHANGED resourceVars
    BY <1>4 DEF Submit
  <1>5. ASSUME NEW c \in Calls, AnswerSubmission(c) PROVE [ResourceNext]_resourceVars
    <2>1. submission[c].query \in Queries /\ DefaultQuery \in Queries
      BY ResourceAssumption DEF PageInv, ClientOK, SubmissionType
    <2>2. CASE NetworkError(c) \/ ReceiveError(c) \/ ReceiveIncomplete(c)
      BY <2>2 DEF NetworkError, ReceiveError, ReceiveIncomplete, FailSubmission
    <2>3. CASE ApplySaved(c)
      BY <2>1, <2>3 DEF ApplySaved, ResourceNext
    <2>4. CASE DecisionSaved(c) \/ RegularizationSaved(c)
      BY <2>1, <2>4 DEF DecisionSaved, RegularizationSaved, ResourceNext
    <2>5. QED
      BY <1>5, <2>2, <2>3, <2>4 DEF AnswerSubmission
  <1>6. ASSUME NEW v \in 1..MaxLoads, AnswerRead(v) PROVE ResourceNext
    <2>1. PICK q \in Queries : ServeRead(v, applied, q)
      BY <1>6, AnswerReadServes
    <2>2. QED
      BY <1>0, <2>1 DEF ResourceNext
  <1>7. ASSUME NEW v \in 1..MaxLoads, SettlePage(v) PROVE ResourceNext
    BY <1>7 DEF SettlePage, SettleUnawaited, ReconcileOk, ReconcileNotOk, Settle, ResourceNext
  <1>8. CASE ServerStep \/ \E k \in Keys : RowExpires(k)
    BY <1>8 DEF ServerStep, RowExpires
  <1>9. CASE UNCHANGED pageVars
    BY <1>9 DEF pageVars
  <1>10. QED
    BY <1>1, <1>2, <1>3, <1>4, <1>5, <1>6, <1>7, <1>8, <1>9 DEF PageNext

\* The end of a submission keeps the client's state well formed.
LEMMA EndKeepsClientOK ==
  ASSUME ClientOK, NEW c \in Calls, NEW s \in SubmissionType,
         submission' = [submission EXCEPT ![c] = s],
         panel' = panel, dialog' \in {"closed", "locked", dialog},
         submitting' \in {Nothing, submitting}, stored' \in {NoStored, stored}, steps' = steps
  PROVE  ClientOK'
PROOF
  <1>1. stored' \in StoredType
    BY DEF ClientOK, NoStored, StoredType
  <1>2. submission' \in [Calls -> SubmissionType]
    BY DEF ClientOK
  <1>3. QED
    BY <1>1, <1>2 DEF ClientOK

\* Every step keeps the keys, payloads and queries that the client remembers
\* well formed.
LEMMA NextClientOK == PageInv /\ [PageNext]_pageVars => ClientOK'
PROOF
  <1> SUFFICES ASSUME PageInv, [PageNext]_pageVars PROVE ClientOK'
    OBVIOUS
  <1>0. ClientOK
    BY DEF PageInv
  <1>over. ASSUME NEW c \in Calls
        PROVE  /\ Over(submission[c]) \in SubmissionType
               /\ [Over(submission[c]) EXCEPT !.told = TRUE] \in SubmissionType
               /\ \A v \in 0..MaxLoads : [Over(submission[c]) EXCEPT !.stage = "reloading",
                                            !.told = TRUE, !.read = v] \in SubmissionType
    BY <1>0, <1>over, OverType DEF ClientOK
  <1>1. CASE OpenDialog \/ CloseDialog \/ Browse \/ LeavePage
    BY <1>0, <1>1 DEF OpenDialog, CloseDialog, Browse, LeavePage, Step, ClientOK
  <1>2. CASE ReloadPage
    <2>1. submission' \in [Calls -> SubmissionType]
      BY <1>0, <1>2, <1>over DEF ReloadPage, ClientOK
    <2>2. QED
      BY <1>0, <1>2, <2>1 DEF ReloadPage, Step, ClientOK
  <1>3. ASSUME NEW c \in Calls, NEW p \in Payloads, Submit(c, p) PROVE ClientOK'
    <2>1. MutationKey(c, p) \in Keys
      BY <1>0, MutationKeyType
    <2>2. stored' \in StoredType
      BY <1>3, <2>1 DEF Submit, StoredType, NoStored
    <2>3. Intent(c, p) \in Nat
      <3>1. c \in Nat /\ (c > 1 => c - 1 \in Calls)
        BY PageAssumption, FS_CardinalityType
      <3>2. QED
        BY <1>0, <3>1 DEF Intent, ClientOK, SubmissionType
    <2>4. shown.query \in Queries /\ 0 \in 0..MaxLoads
      BY ResourceAssumption DEF PageInv, ResourceInv, ResourceTypeOK
    <2>5. [stage |-> "sent", intent |-> Intent(c, p), told |-> FALSE, query |-> shown.query,
           read |-> 0, beside |-> Live] \in SubmissionType
      BY <2>3, <2>4 DEF SubmissionType, Live
    <2>6. submission' \in [Calls -> SubmissionType]
      BY <1>0, <1>3, <2>5 DEF Submit, ClientOK
    <2>7. QED
      BY <1>0, <1>3, <2>2, <2>6 DEF Submit, Step, ClientOK
  <1>4. ASSUME NEW c \in Calls, AnswerSubmission(c) PROVE ClientOK'
    <2>1. CASE NetworkError(c) \/ ReceiveError(c) \/ ReceiveIncomplete(c)
      <3>1. FailSubmission(c)
        BY <2>1 DEF NetworkError, ReceiveError, ReceiveIncomplete
      <3>2. QED
        BY <1>0, <1>over, <3>1, EndKeepsClientOK DEF FailSubmission, Release
    <2>2. CASE ApplySaved(c) \/ DecisionSaved(c)
      <3>1. version + 1 \in 0..MaxLoads
        <4>1. version < MaxLoads
          BY <2>2 DEF ApplySaved, DecisionSaved, Reconcile, Load
        <4>2. QED
          BY <4>1, ResourceAssumption DEF PageInv, ResourceInv, ResourceTypeOK
      <3>2. QED
        BY <1>0, <1>over, <2>2, <3>1, EndKeepsClientOK DEF ApplySaved, DecisionSaved, Reloading
    <2>3. CASE RegularizationSaved(c)
      BY <1>0, <1>over, <2>3, EndKeepsClientOK DEF RegularizationSaved
    <2>4. QED
      BY <1>4, <2>1, <2>2, <2>3 DEF AnswerSubmission
  <1>5. ASSUME NEW v \in 1..MaxLoads, SettlePage(v) PROVE ClientOK'
    <2>1. CASE SettleUnawaited(v)
      BY <1>0, <2>1 DEF SettleUnawaited, clientVars, ClientOK
    <2>2. CASE ReconcileOk(v) \/ ReconcileNotOk(v)
      <3>1. PICK c \in Calls : /\ EndOfWait(c) /\ panel' = panel /\ steps' = steps
                               /\ dialog' \in {"closed", dialog}
                               /\ submitting' \in {Nothing, submitting}
                               /\ stored' \in {NoStored, stored}
        BY <2>2 DEF ReconcileOk, ReconcileNotOk, WaitingFor, Release
      <3>2. QED
        BY <1>0, <1>over, <3>1, EndKeepsClientOK DEF EndOfWait
    <2>3. QED
      BY <1>5, <2>1, <2>2 DEF SettlePage
  <1>6. ASSUME NEW v \in 1..MaxLoads, AnswerRead(v) PROVE ClientOK'
    BY <1>0, <1>6 DEF AnswerRead, clientVars, ClientOK
  <1>7. CASE ServerStep \/ UNCHANGED pageVars
    BY <1>0, <1>7 DEF ServerStep, pageVars, clientVars, ClientOK
  <1>8. ASSUME NEW k \in Keys, RowExpires(k) PROVE ClientOK'
    BY <1>0, <1>8 DEF RowExpires, Step, ClientOK
  <1>9. QED
    BY <1>1, <1>2, <1>3, <1>4, <1>5, <1>6, <1>7, <1>8 DEF PageNext

\* Every step keeps the three parts of the invariant.
LEMMA PageStep == PageInv /\ [PageNext]_pageVars => PageInv'
  BY PageRecordStep, PageResourceStep, NextRecordInv, NextResourceInv, NextClientOK DEF PageInv

\* The three parts of the invariant hold throughout.
THEOREM PageInvariant == PageSpec => []PageInv
PROOF
  <1>1. PageInit => PageInv
    BY InitRecordInv, InitResourceInv, InitClientOK DEF PageInit, PageInv
  <1>2. PageInv /\ [PageNext]_pageVars => PageInv'
    BY PageStep
  <1>3. QED
    BY <1>1, <1>2, PTL DEF PageSpec

\* The state of the page, its dialog and its endpoint stays well formed.
THEOREM PageTypeCorrect == PageSpec => []PageTypeOK
PROOF
  <1>1. PageInv => PageTypeOK
    BY DEF PageInv, RecordInv, ResourceInv, ClientOK, StoredType, SubmissionType, PageTypeOK
  <1>2. QED
    BY <1>1, PageInvariant, PTL

\* The page's endpoint is an execute_idempotent_mutation: whatever the dialogs
\* and the session storage do, it sees well-formed requests only.
THEOREM PageImplementsRecord == PageSpec => RecordSpec
PROOF
  <1>1. PageInit => RecordInit
    BY DEF PageInit
  <1>2. QED
    BY <1>1, PageRecordStep, PageInvariant, PTL DEF PageSpec, RecordSpec

\* The page's data is a useScopedWorkspaceResource: the mutations reach it by
\* its own load only.
THEOREM PageImplementsResource == PageSpec => ResourceSpec
PROOF
  <1>1. PageInit => ResourceInit
    BY DEF PageInit
  <1>2. QED
    BY <1>1, PageResourceStep, PageInvariant, PTL DEF PageSpec, ResourceSpec

\* On the page, too, a key commits its mutation at most once and every success
\* answer is of a committed one.
THEOREM PageKeyCommitsOnce == PageSpec => [](OncePerKey /\ AnswersAreTrue)
  BY PageImplementsRecord, KeyCommitsOnce, AnswersTellTheTruth, PTL

\* On the page, too, the reads that follow a mutation never let an older answer
\* win: an idle page shows the query it asked for last.
THEOREM PageLastRequestWins == PageSpec => []IdleShowsLastRequest
  BY PageImplementsResource, LastRequestWins, PTL
-----------------------------------------------------------------------------
(* What the page says and shows of the mutations.                          *)

Submitted == {c \in Calls : call[c].stage # "unused"}

\* A read can only show what was committed.
RowsAreReal == shown.rows \subseteq applied /\ \A v \in 1..MaxLoads : reads[v].rows \subseteq applied

\* Submission c, or another one under its key, is among rows.
Shows(rows, c) == \E d \in rows : call[d].key = call[c].key

\* What the user was told is committed, and no answer that could still be
\* applied was computed before it was.
ToldIsShown ==
  \A c \in Calls : submission[c].told =>
    /\ c \in Submitted /\ Shows(applied, c)
    /\ Idle => Shows(shown.rows, c)
    /\ \A v \in 1..MaxLoads : v = version /\ reads[v].stage = "served" => Shows(reads[v].rows, c)

\* A submission waits for a read that started after its mutation was committed.
WaitsForItsRead ==
  \A c \in Calls : submission[c].stage = "reloading" =>
    /\ submission[c].told /\ submission[c].read \in 1..version
    /\ reads[submission[c].read].stage = "served" => Shows(reads[submission[c].read].rows, c)

ShownInv == RowsAreReal /\ ToldIsShown /\ WaitsForItsRead

\* No submission is told of a success or begins to wait for a read.
NoNews ==
  \A c \in Calls :
    /\ submission'[c].told => submission[c].told
    /\ submission'[c].stage = "reloading" => submission'[c] = submission[c]

\* Submission c is told of its success and may wait for the read that starts now.
News(c) ==
  /\ Succeeded(c) /\ submission'[c].told
  /\ submission'[c].stage = "reloading" => submission'[c].read = version + 1
  /\ \A d \in Calls \ {c} : submission'[d] = submission[d]

\* Requests keep their key and payload, and what is committed stays.
LEMMA KeysStay ==
  ASSUME PageInv, [PageNext]_pageVars
  PROVE  /\ applied \subseteq applied' /\ applied \subseteq Submitted
         /\ \A c \in Submitted : /\ c \in Submitted' /\ call'[c].key = call[c].key
                                 /\ call'[c].payload = call[c].payload
PROOF
  <1>0. RecordTypeOK /\ RowOfApplied
    BY DEF PageInv, RecordInv
  <1>1. applied \subseteq Submitted
    BY <1>0 DEF Submitted, RecordTypeOK, RowOfApplied
  <1>2. [RecordNext]_recordVars
    BY PageRecordStep
  <1>3. ASSUME NEW c \in Calls, NEW k \in Keys, NEW p \in Payloads, Receive(c, k, p)
        PROVE  \A d \in Submitted : call'[d] = call[d]
    BY <1>0, <1>3 DEF Receive, Submitted, RecordTypeOK
  <1>4. ASSUME NEW c \in Calls, Serve(c)
        PROVE  /\ applied \subseteq applied'
               /\ \A d \in Submitted : /\ call'[d].stage # "unused" /\ call'[d].key = call[d].key
                                       /\ call'[d].payload = call[d].payload
    <2>1. CASE Replay(c) \/ Begin(c) \/ Rollback(c)
      <3>1. CASE Begin(c)
        BY <1>0, <3>1 DEF Begin, Submitted, RecordTypeOK
      <3>2. CASE Replay(c) \/ Rollback(c)
        <4>1. /\ applied' = applied /\ call[c].stage # "unused"
              /\ \E a \in Answers : call' = [call EXCEPT ![c] = [@ EXCEPT !.stage = "done", !.answer = a]]
          BY <3>2 DEF Replay, Rollback, StoredAnswer, Answers
        <4>2. PICK a \in Answers : Answered(c, a)
          BY <1>0, <4>1, AnsweredCall
        <4>3. QED
          BY <1>0, <4>1, <4>2 DEF Answered, Submitted, RecordTypeOK
      <3>3. QED
        BY <2>1, <3>1, <3>2
    <2>2. ASSUME NEW o \in Outcomes, Complete(c, o)
          PROVE  /\ applied \subseteq applied'
                 /\ \A d \in Submitted : /\ call'[d].stage # "unused" /\ call'[d].key = call[d].key
                                         /\ call'[d].payload = call[d].payload
      <3> DEFINE s == [call[c] EXCEPT !.stage = "done", !.answer = o]
      <3>1. call' = [call EXCEPT ![c] = s] /\ applied \subseteq applied'
        BY <2>2 DEF Complete
      <3>2. s.stage = "done" /\ s.key = call[c].key /\ s.payload = call[c].payload
        BY <1>0 DEF RecordTypeOK
      <3> HIDE DEF s
      <3>3. QED
        BY <1>0, <3>1, <3>2 DEF Submitted, RecordTypeOK
    <2>3. QED
      BY <1>4, <2>1, <2>2 DEF Serve
  <1>5. CASE \E k \in Keys : Expire(k)
    BY <1>1, <1>5 DEF Expire, Submitted
  <1>6. CASE UNCHANGED recordVars
    BY <1>1, <1>6 DEF recordVars, Submitted
  <1>7. CASE \E c \in Calls, k \in Keys, p \in Payloads : Receive(c, k, p)
    BY <1>1, <1>3, <1>7 DEF Submitted, Receive
  <1>8. CASE \E c \in Calls : Serve(c)
    BY <1>1, <1>4, <1>8 DEF Submitted
  <1>9. QED
    BY <1>2, <1>5, <1>6, <1>7, <1>8 DEF RecordNext

\* What is shown of a submission stays shown.
LEMMA ShowsStays ==
  ASSUME PageInv, [PageNext]_pageVars, NEW rows \in SUBSET applied, NEW c \in Submitted, Shows(rows, c)
  PROVE  \E d \in rows : call'[d].key = call'[c].key
  BY KeysStay DEF Shows

\* A submission that ends brings no news; nor does one that begins.
LEMMA OverBringsNoNews ==
  ASSUME ClientOK, NEW c \in Calls, NEW s,
         submission' = [submission EXCEPT ![c] = s], s.told => submission[c].told, s.stage # "reloading"
  PROVE  NoNews
  BY DEF NoNews, ClientOK

\* A submission that is told of its success is news.
LEMMA SuccessIsNews ==
  ASSUME ClientOK, NEW c \in Calls, Succeeded(c), NEW s,
         submission' = [submission EXCEPT ![c] = s], s.told,
         s.stage = "reloading" => s.read = version + 1
  PROVE  News(c)
PROOF
  <1>1. submission'[c] = s /\ \A d \in Calls \ {c} : submission'[d] = submission[d]
    BY DEF ClientOK
  <1>2. submission'[c].told
    BY <1>1, Zenon
  <1>3. QED
    BY <1>1, <1>2 DEF News

\* What a step does to the data of the page and what it tells the user.
LEMMA PageEffect ==
  ASSUME PageInv, [PageNext]_pageVars
  PROVE  \/ UNCHANGED resourceVars /\ NoNews
         \/ (\E q \in Queries, m \in Modes : Load(q, m)) /\ (NoNews \/ \E c \in Calls : News(c))
         \/ Unmount /\ NoNews
         \/ Restart(applied) /\ NoNews /\ \A c \in Calls : submission'[c].stage # "reloading"
         \/ (\E v \in 1..MaxLoads : (\E q \in Queries : ServeRead(v, applied, q)) \/ Settle(v)) /\ NoNews
PROOF
  <1>0. ClientOK /\ submission \in [Calls -> SubmissionType]
    BY DEF PageInv, ClientOK
  <1>over. ASSUME NEW c \in Calls
           PROVE  /\ Over(submission[c]).told = submission[c].told /\ Over(submission[c]).stage = "over"
                  /\ [Over(submission[c]) EXCEPT !.told = TRUE].told
                  /\ [Over(submission[c]) EXCEPT !.told = TRUE].stage = "over"
                  /\ \A v \in Nat :
                       LET s == [Over(submission[c]) EXCEPT !.stage = "reloading", !.told = TRUE, !.read = v]
                       IN  s.told /\ s.stage = "reloading" /\ s.read = v
    BY <1>0, <1>over DEF Over, SubmissionType
  <1>same. ASSUME submission' = submission PROVE NoNews
    BY <1>same DEF NoNews
  <1>end. ASSUME NEW c \in Calls, submission' = [submission EXCEPT ![c] = Over(@)] PROVE NoNews
    BY <1>0, <1>over, <1>end, OverBringsNoNews
  <1>1. CASE OpenDialog \/ CloseDialog \/ ServerStep \/ (\E k \in Keys : RowExpires(k)) \/ UNCHANGED pageVars
    BY <1>1, <1>same DEF OpenDialog, CloseDialog, ServerStep, RowExpires, pageVars, clientVars
  <1>2. CASE Browse
    <2>1. submission' = submission
      BY <1>2 DEF Browse
    <2>2. ASSUME NEW q \in Queries, Navigate(q) PROVE \E x \in Queries, m \in Modes : Load(x, m)
      BY <2>2 DEF Navigate, Modes
    <2>3. ASSUME Retry PROVE \E x \in Queries, m \in Modes : Load(x, m)
      <3>1. shown.query \in Queries /\ "none" \in Modes
        BY DEF PageInv, ResourceInv, ResourceTypeOK, Modes
      <3>2. QED
        BY <2>3, <3>1 DEF Retry
    <2>4. ASSUME NEW to \in 1..Len(entries), PopState(to) PROVE \E x \in Queries, m \in Modes : Load(x, m)
      <3>1. entries[to] \in Queries /\ "history" \in Modes
        BY <2>4, ElementOfSeq DEF PopState, PageInv, ResourceInv, OwnHistory, Modes
      <3>2. QED
        BY <2>4, <3>1 DEF PopState
    <2>5. QED
      BY <1>2, <1>same, <2>1, <2>2, <2>3, <2>4 DEF Browse
  <1>3. CASE LeavePage
    BY <1>3, <1>same DEF LeavePage
  <1>4. CASE ReloadPage
    <2>1. \A c \in Calls : /\ submission'[c].told = submission[c].told
                           /\ submission'[c].stage # "reloading"
      BY <1>0, <1>4, <1>over DEF ReloadPage, Live
    <2>2. QED
      BY <1>4, <2>1 DEF ReloadPage, NoNews
  <1>5. ASSUME NEW c \in Calls, NEW p \in Payloads, Submit(c, p)
        PROVE  UNCHANGED resourceVars /\ NoNews
    <2> DEFINE s == [stage |-> "sent", intent |-> Intent(c, p), told |-> FALSE, query |-> shown.query,
                     read |-> 0, beside |-> Live]
    <2>1. submission' = [submission EXCEPT ![c] = s] /\ UNCHANGED resourceVars
      BY <1>5 DEF Submit
    <2>2. ~s.told /\ s.stage # "reloading"
      OBVIOUS
    <2> HIDE DEF s
    <2>3. QED
      BY <1>0, <2>1, <2>2, OverBringsNoNews
  <1>6. ASSUME NEW c \in Calls, NetworkError(c) \/ ReceiveError(c) \/ ReceiveIncomplete(c)
        PROVE  UNCHANGED resourceVars /\ NoNews
    BY <1>6, <1>end DEF NetworkError, ReceiveError, ReceiveIncomplete, FailSubmission
  <1>7. ASSUME NEW c \in Calls, ApplySaved(c) \/ DecisionSaved(c) \/ RegularizationSaved(c)
        PROVE  (\E q \in Queries, m \in Modes : Load(q, m)) /\ News(c)
    <2>1. submission[c].query \in Queries /\ DefaultQuery \in Queries /\ {"replace", "none"} \subseteq Modes
      BY <1>0, ResourceAssumption DEF SubmissionType, Modes
    <2>2. \E q \in Queries, m \in Modes : Load(q, m)
      BY <1>7, <2>1 DEF ApplySaved, DecisionSaved, RegularizationSaved, Reconcile
    <2>3. Succeeded(c)
      BY <1>7 DEF ApplySaved, DecisionSaved, RegularizationSaved
    <2>4. version + 1 \in Nat
      BY ResourceAssumption DEF PageInv, ResourceInv, ResourceTypeOK
    <2>5. CASE Reloading(c)
      <3> DEFINE s == [Over(submission[c]) EXCEPT !.stage = "reloading", !.told = TRUE, !.read = version + 1]
      <3>1. submission' = [submission EXCEPT ![c] = s]
        BY <2>5 DEF Reloading
      <3>2. s.told /\ s.read = version + 1
        BY <1>over, <2>4
      <3> HIDE DEF s
      <3>3. QED
        BY <1>0, <2>2, <2>3, <3>1, <3>2, SuccessIsNews
    <2>6. CASE RegularizationSaved(c)
      <3> DEFINE s == [Over(submission[c]) EXCEPT !.told = TRUE]
      <3>1. submission' = [submission EXCEPT ![c] = s]
        BY <2>6 DEF RegularizationSaved
      <3>2. s.told /\ s.stage = "over"
        BY <1>over
      <3> HIDE DEF s
      <3>3. QED
        BY <1>0, <2>2, <2>3, <3>1, <3>2, SuccessIsNews
    <2>7. QED
      BY <1>7, <2>2, <2>5, <2>6 DEF ApplySaved, DecisionSaved
  <1>8. ASSUME NEW v \in 1..MaxLoads, AnswerRead(v)
        PROVE  (\E q \in Queries : ServeRead(v, applied, q)) /\ NoNews
    BY <1>8, <1>same, AnswerReadServes DEF AnswerRead, clientVars
  <1>9. ASSUME NEW v \in 1..MaxLoads, SettlePage(v) PROVE Settle(v) /\ NoNews
    <2>1. CASE SettleUnawaited(v)
      BY <1>same, <2>1 DEF SettleUnawaited, clientVars
    <2>2. CASE ReconcileOk(v) \/ ReconcileNotOk(v)
      <3>1. Settle(v) /\ \E c \in Calls : EndOfWait(c)
        BY <2>2 DEF ReconcileOk, ReconcileNotOk, Settle, WaitingFor
      <3>2. QED
        BY <1>end, <3>1 DEF EndOfWait
    <2>3. QED
      BY <1>9, <2>1, <2>2 DEF SettlePage
  <1>10. ASSUME NEW c \in Calls, AnswerSubmission(c)
         PROVE  \/ UNCHANGED resourceVars /\ NoNews
                \/ (\E q \in Queries, m \in Modes : Load(q, m)) /\ News(c)
    BY <1>6, <1>7, <1>10 DEF AnswerSubmission
  <1>11. QED
    BY <1>1, <1>2, <1>3, <1>4, <1>5, <1>8, <1>9, <1>10 DEF PageNext

\* Whoever is told of a success is told the truth.
LEMMA NewsIsTrue ==
  ASSUME PageInv, ToldIsShown, NoNews \/ \E d \in Calls : News(d),
         NEW c \in Calls, submission'[c].told
  PROVE  c \in Submitted /\ Shows(applied, c)
PROOF
  <1>1. CASE submission[c].told
    BY <1>1 DEF ToldIsShown
  <1>2. CASE Succeeded(c)
    <2>1. call[c].answer = "applied" /\ call[c].stage # "unused"
      BY <1>2 DEF Succeeded
    <2>2. QED
      BY <2>1 DEF PageInv, RecordInv, PromiseKept, Submitted, Shows
  <1>3. QED
    BY <1>1, <1>2 DEF NoNews, News

\* The reads of the page: what a read's beginning, answer and end leave of them.
LEMMA LoadEffect ==
  ASSUME PageInv, NEW q, NEW m, Load(q, m)
  PROVE  /\ version' = version + 1 /\ version' \in 1..MaxLoads /\ active' = version'
         /\ shown' = shown /\ mounted' = mounted /\ notice' = "none"
         /\ reads'[version'].stage = "sent" /\ reads'[version'].rows = {}
         /\ reads'[version'].query = q /\ reads'[version'].mode = m
         /\ \A v \in 1..MaxLoads : v # version' => reads'[v] = reads[v]
  BY ResourceAssumption DEF Load, PageInv, ResourceInv, ResourceTypeOK

LEMMA ServeReadEffect ==
  ASSUME PageInv, NEW v \in 1..MaxLoads, NEW rows, NEW q, ServeRead(v, rows, q)
  PROVE  /\ reads'[v].stage = "served" /\ reads'[v].rows = rows
         /\ reads'[v].query = q /\ reads'[v].mode = reads[v].mode
         /\ \A w \in 1..MaxLoads : w # v => reads'[w] = reads[w]
         /\ UNCHANGED <<shown, notice, version, active, mounted, entries, position, lostRead>>
PROOF
  <1>1. reads[v] \in ReadType
    BY DEF PageInv, ResourceInv, ResourceTypeOK, ReadType
  <1>2. reads' = [reads EXCEPT ![v] = [reads[v] EXCEPT !.stage = "served", !.rows = rows, !.query = q]]
    BY DEF ServeRead
  <1>3. QED
    BY <1>1, <1>2 DEF ServeRead, ReadType, PageInv, ResourceInv, ResourceTypeOK

LEMMA SettleEffect ==
  ASSUME PageInv, NEW v \in 1..MaxLoads, Settle(v)
  PROVE  /\ reads'[v].stage = "none" /\ reads'[v].rows = {}
         /\ \A w \in 1..MaxLoads : w # v => reads'[w] = reads[w]
         /\ version' = version /\ mounted' = mounted
         /\ \/ Apply(v) /\ v = version /\ reads[v].stage = "served" /\ shown'.rows = reads[v].rows
            \/ shown' = shown /\ (Idle' => Idle)
PROOF
  <1>0. /\ reads \in [1..MaxLoads -> ReadType] /\ (mounted => active \in {0, version})
    BY DEF PageInv, ResourceInv, ResourceTypeOK, ReadType, WaitsForLatest
  <1>1. Finish(v) /\ version' = version /\ mounted' = mounted
    BY DEF Settle, Apply, NotApplied, Reject, Discard
  <1>2. /\ reads'[v].stage = "none" /\ reads'[v].rows = {}
        /\ \A w \in 1..MaxLoads : w # v => reads'[w] = reads[w]
    BY <1>0, <1>1 DEF Finish, NoRead
  <1>3. CASE Apply(v)
    BY <1>1, <1>2, <1>3 DEF Apply, Current
  <1>4. CASE \E failure \in {"error", "unauthorized"} : Reject(v, failure)
    BY <1>1, <1>2, <1>4 DEF Reject, Idle
  <1>5. CASE Discard(v)
    <2>1. shown' = shown /\ notice' = notice /\ v # version
      BY <1>5 DEF Discard, Current
    <2>2. mounted => active' = active
      BY <1>0, <1>1, <2>1 DEF Finish
    <2>3. QED
      BY <1>1, <1>2, <2>1, <2>2 DEF Idle, Pending
  <1>6. QED
    BY <1>3, <1>4, <1>5 DEF Settle, NotApplied

\* Only committed rows reach the page.
LEMMA RowsNext == PageInv /\ RowsAreReal /\ [PageNext]_pageVars => RowsAreReal'
PROOF
  <1> SUFFICES ASSUME PageInv, RowsAreReal, [PageNext]_pageVars PROVE RowsAreReal'
    OBVIOUS
  <1>0. applied \subseteq applied'
    BY KeysStay
  <1>1. CASE UNCHANGED resourceVars
    BY <1>0, <1>1 DEF resourceVars, RowsAreReal
  <1>2. ASSUME NEW q \in Queries, NEW m \in Modes, Load(q, m) PROVE RowsAreReal'
    BY <1>0, <1>2, LoadEffect DEF RowsAreReal
  <1>3. CASE Unmount
    BY <1>0, <1>3 DEF Unmount, RowsAreReal
  <1>4. CASE Restart(applied)
    <2>1. shown'.rows = applied /\ \A v \in 1..MaxLoads : reads'[v].rows = {}
      BY <1>4 DEF Restart, NoRead
    <2>2. QED
      BY <1>0, <2>1 DEF RowsAreReal
  <1>5. ASSUME NEW v \in 1..MaxLoads, NEW q \in Queries, ServeRead(v, applied, q) PROVE RowsAreReal'
    BY <1>0, <1>5, ServeReadEffect DEF RowsAreReal
  <1>6. ASSUME NEW v \in 1..MaxLoads, Settle(v) PROVE RowsAreReal'
    BY <1>0, <1>6, SettleEffect DEF RowsAreReal
  <1>7. QED
    BY <1>1, <1>2, <1>3, <1>4, <1>5, <1>6, PageEffect

\* No answer computed before the user was told can still be applied.
LEMMA ToldNext == PageInv /\ RowsAreReal /\ ToldIsShown /\ [PageNext]_pageVars => ToldIsShown'
PROOF
  <1> SUFFICES ASSUME PageInv, RowsAreReal, ToldIsShown, [PageNext]_pageVars,
                      NEW c \in Calls, submission'[c].told
               PROVE  /\ c \in Submitted' /\ Shows(applied, c)'
                      /\ Idle' => Shows(shown.rows, c)'
                      /\ \A v \in 1..MaxLoads :
                           v = version' /\ reads'[v].stage = "served" => Shows(reads[v].rows, c)'
    BY DEF ToldIsShown
  <1>0. c \in Submitted /\ Shows(applied, c)
    BY NewsIsTrue, PageEffect, Zenon DEF NoNews
  <1>keys. /\ applied \subseteq applied' /\ c \in Submitted'
           /\ \A rows \in SUBSET applied : Shows(rows, c) => \E d \in rows : call'[d].key = call'[c].key
    BY <1>0, KeysStay, ShowsStays
  <1>told. Shows(applied, c)' /\ \E d \in applied : call'[d].key = call'[c].key
    BY <1>0, <1>keys DEF Shows
  <1>real. shown.rows \subseteq applied /\ \A v \in 1..MaxLoads : reads[v].rows \subseteq applied
    BY DEF RowsAreReal
  <1> DEFINE Kept == /\ Idle => Shows(shown.rows, c)
                     /\ \A v \in 1..MaxLoads : v = version /\ reads[v].stage = "served" => Shows(reads[v].rows, c)
  <1>old. NoNews => Kept
    BY DEF NoNews, ToldIsShown
  <1>1. CASE UNCHANGED resourceVars /\ Kept
    BY <1>keys, <1>told, <1>real, <1>1 DEF resourceVars, Idle, Pending, Shows
  <1>2. ASSUME NEW q \in Queries, NEW m \in Modes, Load(q, m)
        PROVE  ~Idle' /\ \A v \in 1..MaxLoads : v = version' => reads'[v].stage # "served"
    <2>1. active' # 0 /\ reads'[version'].stage = "sent"
      BY <1>2, LoadEffect
    <2>2. QED
      BY <2>1 DEF Idle, Pending
  <1>3. CASE Unmount
    <2>1. ~mounted' /\ reads' = reads /\ version' = version + 1
      BY <1>3 DEF Unmount
    <2>2. \A v \in 1..MaxLoads : v = version' => reads'[v].stage = "none"
      BY <2>1, ResourceAssumption DEF PageInv, ResourceInv, ResourceTypeOK, LatestReadIsAsked
    <2>3. QED
      BY <1>keys, <1>told, <2>1, <2>2 DEF Idle
  <1>4. CASE Restart(applied)
    <2>1. shown'.rows = applied /\ \A v \in 1..MaxLoads : reads'[v].stage = "none"
      BY <1>4 DEF Restart, NoRead
    <2>2. QED
      BY <1>keys, <1>told, <2>1 DEF Shows
  <1>5. ASSUME NEW v \in 1..MaxLoads, NEW q \in Queries, ServeRead(v, applied, q), Kept
        PROVE  /\ Idle' => Shows(shown.rows, c)'
               /\ \A w \in 1..MaxLoads : w = version' /\ reads'[w].stage = "served" => Shows(reads[w].rows, c)'
    <2>1. /\ UNCHANGED <<shown, notice, version, active, mounted>> /\ reads'[v].rows = applied
          /\ \A w \in 1..MaxLoads : w # v => reads'[w] = reads[w]
      BY <1>5, ServeReadEffect
    <2>2. Idle' => Shows(shown.rows, c)'
      BY <1>keys, <1>real, <1>5, <2>1 DEF Idle, Pending, Shows
    <2>3. \A w \in 1..MaxLoads : w = version' /\ reads'[w].stage = "served" => Shows(reads[w].rows, c)'
      BY <1>keys, <1>told, <1>real, <1>5, <2>1 DEF Shows
    <2>4. QED
      BY <2>2, <2>3
  <1>6. ASSUME NEW v \in 1..MaxLoads, Settle(v), Kept
        PROVE  /\ Idle' => Shows(shown.rows, c)'
               /\ \A w \in 1..MaxLoads : w = version' /\ reads'[w].stage = "served" => Shows(reads[w].rows, c)'
    <2>1. /\ reads'[v].stage = "none" /\ version' = version
          /\ \A w \in 1..MaxLoads : w # v => reads'[w] = reads[w]
          /\ \/ v = version /\ reads[v].stage = "served" /\ shown'.rows = reads[v].rows
             \/ shown' = shown /\ (Idle' => Idle)
      BY <1>6, SettleEffect
    <2>2. \A w \in 1..MaxLoads : w = version' /\ reads'[w].stage = "served" => Shows(reads[w].rows, c)'
      BY <1>keys, <1>real, <1>6, <2>1 DEF Shows
    <2>3. CASE v = version /\ reads[v].stage = "served" /\ shown'.rows = reads[v].rows
      BY <1>keys, <1>real, <1>6, <2>2, <2>3 DEF Shows
    <2>4. CASE shown' = shown /\ (Idle' => Idle)
      BY <1>keys, <1>real, <1>6, <2>2, <2>4 DEF Shows
    <2>5. QED
      BY <2>1, <2>3, <2>4
  <1> HIDE DEF Kept
  <1>7. QED
    BY <1>keys, <1>told, <1>old, <1>1, <1>2, <1>3, <1>4, <1>5, <1>6, PageEffect

\* The read a submission waits for keeps what it will show of it.
LEMMA WaitNext == PageInv /\ ShownInv /\ [PageNext]_pageVars => WaitsForItsRead'
PROOF
  <1> SUFFICES ASSUME PageInv, RowsAreReal, ToldIsShown, WaitsForItsRead, [PageNext]_pageVars,
                      NEW c \in Calls, submission'[c].stage = "reloading"
               PROVE  /\ submission'[c].told /\ submission'[c].read \in 1..version'
                      /\ reads'[submission'[c].read].stage = "served" => Shows(reads[submission[c].read].rows, c)'
    BY DEF ShownInv, WaitsForItsRead
  <1> DEFINE v == submission[c].read
  <1>0. version \in 0..MaxLoads /\ MaxLoads \in Nat
    BY ResourceAssumption DEF PageInv, ResourceInv, ResourceTypeOK
  <1>1. CASE submission'[c] = submission[c]
    <2>1. /\ submission[c].told /\ v \in 1..version /\ v \in 1..MaxLoads
          /\ reads[v].stage = "served" => Shows(reads[v].rows, c)
      BY <1>0, <1>1 DEF WaitsForItsRead
    <2>2. c \in Submitted /\ Shows(applied, c) /\ reads[v].rows \subseteq applied
      BY <2>1 DEF ToldIsShown, RowsAreReal
    <2>3. /\ \E d \in applied : call'[d].key = call'[c].key
          /\ reads[v].stage = "served" => \E d \in reads[v].rows : call'[d].key = call'[c].key
      BY <2>1, <2>2, ShowsStays
    <2>4. /\ version' \in Nat /\ version' >= version
          /\ reads'[v] = reads[v] \/ reads'[v].stage # "served" \/ reads'[v].rows = applied
      <3>1. CASE UNCHANGED resourceVars
        BY <1>0, <3>1 DEF resourceVars
      <3>2. ASSUME NEW q \in Queries, NEW m \in Modes, Load(q, m)
            PROVE  version' = version + 1 /\ reads'[v] = reads[v]
        BY <1>0, <2>1, <3>2, LoadEffect
      <3>3. CASE Unmount
        BY <1>0, <3>3 DEF Unmount
      <3>4. ASSUME NEW w \in 1..MaxLoads, NEW q \in Queries, ServeRead(w, applied, q)
            PROVE  version' = version /\ (reads'[v] = reads[v] \/ reads'[v].rows = applied)
        BY <2>1, <3>4, ServeReadEffect
      <3>5. ASSUME NEW w \in 1..MaxLoads, Settle(w)
            PROVE  version' = version /\ (reads'[v] = reads[v] \/ reads'[v].stage = "none")
        BY <2>1, <3>5, SettleEffect
      <3>6. QED
        BY <1>0, <3>1, <3>2, <3>3, <3>4, <3>5, PageEffect
    <2>5. QED
      BY <1>0, <1>1, <2>1, <2>3, <2>4 DEF Shows
  <1>2. CASE News(c) /\ \E q \in Queries, m \in Modes : Load(q, m)
    <2>1. submission'[c].told /\ submission'[c].read = version + 1
      BY <1>2 DEF News
    <2>2. version' = version + 1 /\ reads'[version'].stage = "sent"
      BY <1>2, LoadEffect
    <2>3. QED
      BY <1>0, <2>1, <2>2
  <1>3. NoNews => submission'[c] = submission[c]
    BY DEF NoNews
  <1>4. \A d \in Calls : News(d) => d = c \/ submission'[c] = submission[c]
    BY DEF News
  <1>5. QED
    BY <1>1, <1>2, <1>3, <1>4, PageEffect

\* Nothing is shown or told before the first step.
LEMMA InitShown == PageInit => ShownInv
  BY DEF PageInit, ResourceInit, NoRead, NoSubmission, ShownInv, RowsAreReal, ToldIsShown, WaitsForItsRead

\* An idle page shows every mutation it reported as saved, with every dialog
\* and also when a dialog is opened again before its submission is over.
THEOREM PageShowsWhatWasSaved == PageSpec => []ShowsWhatWasSaved
PROOF
  <1>1. PageInit => PageInv /\ ShownInv
    BY InitRecordInv, InitResourceInv, InitClientOK, InitShown DEF PageInit, PageInv
  <1>2. PageInv /\ ShownInv /\ [PageNext]_pageVars => (PageInv /\ ShownInv)'
    BY PageStep, RowsNext, ToldNext, WaitNext DEF ShownInv
  <1>3. PageInv /\ ShownInv => ShowsWhatWasSaved
    BY DEF ShownInv, ToldIsShown, ShowsWhatWasSaved, Shows
  <1>4. QED
    BY <1>1, <1>2, <1>3, PTL DEF PageSpec
-----------------------------------------------------------------------------
(* The URL of the leave page.                                              *)

\* URL and data name the same query, unless a read for back or forward is
\* under way or was lost; the latest read answers the URL or changes it.
UrlInv ==
  panel = "apply" /\ mounted =>
    /\ lostRead \/ CurrentUrl = shown.query \/ (Pending /\ reads[version].mode = "history")
    /\ Pending => \/ reads[version].mode = "history" /\ reads[version].query = CurrentUrl
                  \/ reads[version].mode = "none" /\ reads[version].query = shown.query
                  \/ reads[version].mode \in {"push", "replace"}
    /\ ~Pending => \A v \in 1..MaxLoads : v = version => reads[v].stage = "none"

\* What the page does to its reads while the leave dialog is the one it has:
\* a mutation is followed by a read that replaces the URL.
LEMMA ApplyPageSteps ==
  ASSUME PageInv, [PageNext]_pageVars, panel = "apply"
  PROVE  \/ UNCHANGED resourceVars \/ Unmount \/ Restart(applied)
         \/ (\E q \in Queries : Navigate(q)) \/ Retry \/ (\E to \in 1..Len(entries) : PopState(to))
         \/ Reconcile(DefaultQuery, "replace")
         \/ \E v \in 1..MaxLoads : ServeRead(v, applied, reads[v].query) \/ Settle(v)
PROOF
  <1>1. CASE OpenDialog \/ CloseDialog \/ ServerStep \/ (\E k \in Keys : RowExpires(k)) \/ UNCHANGED pageVars
    BY <1>1 DEF OpenDialog, CloseDialog, ServerStep, RowExpires, pageVars
  <1>2. CASE Browse \/ LeavePage \/ ReloadPage
    BY <1>2 DEF Browse, LeavePage, ReloadPage
  <1>3. ASSUME NEW c \in Calls, NEW p \in Payloads, Submit(c, p) PROVE UNCHANGED resourceVars
    BY <1>3 DEF Submit
  <1>4. ASSUME NEW c \in Calls, AnswerSubmission(c)
        PROVE  UNCHANGED resourceVars \/ Reconcile(DefaultQuery, "replace")
    BY <1>4 DEF AnswerSubmission, NetworkError, ReceiveError, ReceiveIncomplete, FailSubmission,
                ApplySaved, DecisionSaved, RegularizationSaved
  <1>5. ASSUME NEW v \in 1..MaxLoads, AnswerRead(v) \/ SettlePage(v)
        PROVE  ServeRead(v, applied, reads[v].query) \/ Settle(v)
    BY <1>5, AnswerReadServes DEF SettlePage, SettleUnawaited, ReconcileOk, ReconcileNotOk, Settle
  <1>6. QED
    BY <1>1, <1>2, <1>3, <1>4, <1>5 DEF PageNext

\* pushState and replaceState leave the URL naming the query they write.
LEMMA WrittenUrl ==
  ASSUME ResourceTypeOK, NEW mode \in Modes, NEW q \in Queries, WriteHistory(mode, q)
  PROVE  CurrentUrl' = IF mode \in {"push", "replace"} THEN q ELSE CurrentUrl
PROOF
  <1>0. entries \in Seq(Queries \cup {Elsewhere}) /\ position \in 1..Len(entries)
    BY DEF ResourceTypeOK
  <1>1. CASE mode = "push"
    <2> DEFINE back == SubSeq(entries, 1, position)
    <2>1. position \in Int /\ 1 \in Int /\ \A i \in 1..position : entries[i] \in Queries \cup {Elsewhere}
      BY <1>0, LenProperties, ElementOfSeq
    <2>2. back \in Seq(Queries \cup {Elsewhere}) /\ Len(back) = position
      BY <1>0, <2>1, SubSeqProperties
    <2>3. entries' = Append(back, q) /\ position' = Len(back) + 1
      BY <1>1, <2>2 DEF WriteHistory
    <2> HIDE DEF back
    <2>4. entries'[position'] = q
      BY <2>2, <2>3, AppendProperties
    <2>5. QED
      BY <1>1, <2>4 DEF CurrentUrl
  <1>2. CASE mode = "replace"
    <2>1. entries' = [entries EXCEPT ![position] = q] /\ position' = position
      BY <1>2 DEF WriteHistory
    <2>2. entries'[position'] = q
      BY <1>0, <2>1
    <2>3. QED
      BY <1>2, <2>2 DEF CurrentUrl
  <1>3. CASE mode \notin {"push", "replace"}
    BY <1>3 DEF WriteHistory, CurrentUrl
  <1>4. QED
    BY <1>1, <1>2, <1>3

\* A read that starts: it answers the URL, or changes it, or repeats what is shown.
LEMMA UrlLoad ==
  ASSUME PageInv, UrlInv, panel = "apply", panel' = panel, mounted, NEW q, NEW m, Load(q, m),
         entries' = entries,
         \/ m = "history" /\ q = entries[position']
         \/ m = "none" /\ q = shown.query /\ position' = position
         \/ m \in {"push", "replace"} /\ position' = position
  PROVE  UrlInv'
PROOF
  <1>0. mounted => active \in {0, version}
    BY DEF PageInv, ResourceInv, WaitsForLatest
  <1>start. /\ version' \in 1..MaxLoads /\ active' = version' /\ shown' = shown
            /\ reads'[version'].query = q /\ reads'[version'].mode = m
    BY LoadEffect, Zenon
  <1>1. /\ active' = version' /\ version' # 0 /\ shown' = shown
        /\ reads'[version'].query = q /\ reads'[version'].mode = m
    BY <1>start, ResourceAssumption
  <1>2. lostRead' = (lostRead \/ (Pending /\ reads[active].mode = "history"))
    BY DEF Load
  <1>3. Pending => active = version
    BY <1>0 DEF Pending
  <1>4. Pending'
    BY <1>1 DEF Pending
  <1>5. CASE m = "history" /\ q = entries[position']
    BY <1>1, <1>4, <1>5 DEF UrlInv, CurrentUrl
  <1>6. CASE m # "history" /\ position' = position
    <2>1. CurrentUrl' = CurrentUrl
      BY <1>6 DEF CurrentUrl
    <2>2. lostRead' \/ CurrentUrl = shown.query
      BY <1>2, <1>3 DEF UrlInv
    <2>3. QED
      BY <1>1, <1>4, <1>6, <2>1, <2>2 DEF UrlInv
  <1>7. QED
    BY <1>5, <1>6

\* The end of a read: it was for the URL, or writes the URL, or was lost.
LEMMA UrlSettle ==
  ASSUME PageInv, UrlInv, panel = "apply", panel' = panel, mounted,
         NEW v \in 1..MaxLoads, Settle(v)
  PROVE  UrlInv'
PROOF
  <1>0. active \in {0, version} /\ reads[v] \in ReadType
    BY DEF PageInv, ResourceInv, WaitsForLatest, ResourceTypeOK, ReadType
  <1>1. /\ reads'[v].stage = "none" /\ version' = version /\ mounted' = mounted
        /\ \A w \in 1..MaxLoads : w # v => reads'[w] = reads[w]
    BY SettleEffect
  <1>2. active' = IF active = v THEN 0 ELSE active
    BY DEF Settle, Apply, NotApplied, Reject, Discard, Finish
  <1>3. CASE v # version
    <2>1. Discard(v)
      BY <1>3 DEF Settle, Apply, NotApplied, Reject, Current
    <2>2. UNCHANGED <<shown, entries, position, lostRead>>
      BY <2>1 DEF Discard
    <2>3. active' = active /\ (active # 0 => version \in 1..MaxLoads /\ reads'[version] = reads[version])
      BY <1>0, <1>1, <1>2, <1>3, ResourceAssumption DEF PageInv, ResourceInv, ResourceTypeOK
    <2>4. CurrentUrl' = CurrentUrl /\ Pending' = Pending
      BY <2>2, <2>3 DEF CurrentUrl, Pending
    <2>5. \A w \in 1..MaxLoads : w = version => reads'[w] = reads[w]
      BY <1>1, <1>3
    <2>6. QED
      BY <1>1, <2>2, <2>3, <2>4, <2>5 DEF UrlInv, Pending
  <1>4. CASE v = version
    <2>1. reads[v].stage # "none"
      BY DEF Settle, Apply, NotApplied, Reject, Discard
    <2>2. Pending /\ active = v
      BY <1>0, <1>4, <2>1 DEF UrlInv, Pending
    <2>3. ~Pending'
      BY <1>2, <2>2 DEF Pending
    <2>4. lostRead' \/ CurrentUrl' = shown'.query
      <3>1. CASE Apply(v)
        <4>1. /\ shown'.query = reads[v].query /\ WriteHistory(reads[v].mode, reads[v].query)
              /\ lostRead' = (lostRead /\ reads[v].mode = "none")
          BY <3>1 DEF Apply
        <4>2. CurrentUrl' = IF reads[v].mode \in {"push", "replace"} THEN reads[v].query ELSE CurrentUrl
          BY <1>0, <4>1, WrittenUrl DEF ReadType, PageInv, ResourceInv
        <4>3. QED
          BY <1>4, <2>2, <4>1, <4>2 DEF UrlInv
      <3>2. CASE \E failure \in {"error", "unauthorized"} : Reject(v, failure)
        <4>1. /\ lostRead' = (lostRead \/ reads[v].mode = "history")
              /\ UNCHANGED <<shown, entries, position>>
          BY <3>2 DEF Reject
        <4>2. QED
          BY <1>4, <4>1 DEF UrlInv, CurrentUrl
      <3>3. QED
        BY <1>4, <3>1, <3>2 DEF Settle, NotApplied, Discard, Current
    <2>5. QED
      BY <1>1, <1>4, <2>3, <2>4 DEF UrlInv
  <1>5. QED
    BY <1>3, <1>4

\* Every step keeps the URL with the data.
LEMMA UrlNext == PageInv /\ UrlInv /\ [PageNext]_pageVars => UrlInv'
PROOF
  <1> SUFFICES ASSUME PageInv, UrlInv, [PageNext]_pageVars, panel' = "apply", mounted' PROVE UrlInv'
    BY DEF UrlInv
  <1>1. panel' = panel
    BY DEF PageNext, OpenDialog, CloseDialog, Browse, LeavePage, ReloadPage, Submit, AnswerSubmission,
           NetworkError, ReceiveError, ReceiveIncomplete, FailSubmission, ApplySaved, DecisionSaved,
           RegularizationSaved, AnswerRead, SettlePage, SettleUnawaited, ReconcileOk, ReconcileNotOk,
           ServerStep, RowExpires, clientVars, pageVars
  <1>2. CASE UNCHANGED resourceVars
    BY <1>1, <1>2 DEF resourceVars, UrlInv, CurrentUrl, Pending
  <1>3. CASE Unmount
    BY <1>3 DEF Unmount
  <1>4. CASE Restart(applied)
    <2>1. /\ shown'.query = CurrentUrl /\ CurrentUrl' = CurrentUrl /\ active' = 0
          /\ \A v \in 1..MaxLoads : reads'[v].stage = "none"
      BY <1>4 DEF Restart, CurrentUrl, NoRead
    <2>2. QED
      BY <2>1 DEF UrlInv, Pending
  <1>5. ASSUME NEW q \in Queries, Navigate(q) PROVE UrlInv'
    BY <1>1, <1>5, UrlLoad DEF Navigate
  <1>6. CASE Retry
    BY <1>1, <1>6, UrlLoad DEF Retry
  <1>7. ASSUME NEW to \in 1..Len(entries), PopState(to) PROVE UrlInv'
    BY <1>1, <1>7, UrlLoad DEF PopState
  <1>8. CASE Reconcile(DefaultQuery, "replace")
    BY <1>1, <1>8, UrlLoad DEF Reconcile, Load
  <1>9. ASSUME NEW v \in 1..MaxLoads, ServeRead(v, applied, reads[v].query) PROVE UrlInv'
    <2>1. UNCHANGED <<shown, version, active, mounted, entries, position, lostRead>>
      BY <1>9, ServeReadEffect
    <2>2. active \in {0, version} /\ (active # 0 => version \in 1..MaxLoads) /\ reads[v].stage = "sent"
      BY <1>9, <2>1, ResourceAssumption DEF PageInv, ResourceInv, WaitsForLatest, ResourceTypeOK, ServeRead
    <2>3. \A w \in 1..MaxLoads : /\ reads'[w].mode = reads[w].mode /\ reads'[w].query = reads[w].query
                                 /\ reads[w].stage = "none" => reads'[w].stage = "none"
      <3> TAKE w \in 1..MaxLoads
      <3>1. /\ reads'[v].query = reads[v].query /\ reads'[v].mode = reads[v].mode
            /\ w # v => reads'[w] = reads[w]
        BY <1>9, ServeReadEffect
      <3>2. CASE w = v
        BY <2>2, <3>1, <3>2
      <3>3. CASE w # v
        BY <3>1, <3>3
      <3>4. QED
        BY <3>2, <3>3
    <2>4. CurrentUrl' = CurrentUrl /\ Pending' = Pending
      BY <2>1 DEF CurrentUrl, Pending
    <2>5. QED
      BY <1>1, <2>1, <2>2, <2>3, <2>4 DEF UrlInv, Pending
  <1>10. ASSUME NEW v \in 1..MaxLoads, Settle(v) PROVE UrlInv'
    BY <1>1, <1>10, UrlSettle, SettleEffect
  <1>11. QED
    BY <1>1, <1>2, <1>3, <1>4, <1>5, <1>6, <1>7, <1>8, <1>9, <1>10, ApplyPageSteps

\* The URL of an idle leave page names the data it shows, unless a read for
\* back or forward was lost: the read after a submission replaces the URL, and
\* a retry repeats the query whose data is shown.
THEOREM LeavePageUrl == PageSpec => []LeaveUrlFollowsData
PROOF
  <1>1. PageInit => PageInv /\ UrlInv
    <2>1. PageInit => PageInv
      BY InitRecordInv, InitResourceInv, InitClientOK DEF PageInit, PageInv
    <2>2. PageInit => UrlInv
      BY DEF PageInit, ResourceInit, NoRead, UrlInv, CurrentUrl, Pending
    <2>3. QED
      BY <2>1, <2>2
  <1>2. PageInv /\ UrlInv /\ [PageNext]_pageVars => (PageInv /\ UrlInv)'
    BY PageStep, UrlNext
  <1>3. UrlInv => LeaveUrlFollowsData
    BY DEF UrlInv, LeaveUrlFollowsData, UrlFollowsData, Idle
  <1>4. QED
    BY <1>1, <1>2, <1>3, PTL DEF PageSpec
-----------------------------------------------------------------------------
(* The dialog, its submissions and the key in the session storage, as long *)
(* as no submission is made beside one that is not over.                   *)

IsLast(c) == c \in Submitted /\ \A d \in Submitted : d <= c
Entry(c) == [key |-> call[c].key, signature |-> call[c].payload]

\* The submit handlers ran in the order of the calls, each once.
InOrder ==
  /\ \A c \in Calls : submission[c].stage # "none" <=> c \in Submitted
  /\ \A c \in Submitted, d \in Calls : d < c => d \in Submitted

\* Only the last submission is live.
LastIsLive == \A c \in Live : IsLast(c)

\* The stored key is the one of the last submission.
StoredIsLast ==
  stored # NoStored => StorageAvailable /\ \E c \in Calls : IsLast(c) /\ stored = Entry(c)

SerialInv == InOrder /\ LastIsLive /\ StoredIsLast

\* The stored key stays until the user was told that its mutation was saved.
KeptUntilTold == \A c \in Calls : IsLast(c) /\ ~submission[c].told => stored = Entry(c)

\* An intent is submitted under one key.
OneKeyPerIntent ==
  /\ \A c \in Submitted : submission[c].intent <= c
  /\ \A c, d \in Submitted : submission[c].intent = submission[d].intent => call[c].key = call[d].key

IntentInv == KeptUntilTold /\ OneKeyPerIntent

\* A call that was not made was made beside nothing.
BesideIsMade == \A c \in Calls : submission[c].beside # {} => c \in Submitted

\* A step that leaves submissions and key alone.
Rests == submission' = submission /\ stored' = stored

\* A step that ends every live submission and leaves the key alone.
Restarts ==
  /\ stored' = stored
  /\ \A c \in Calls :
       /\ submission'[c].stage \notin {"sent", "reloading"}
       /\ submission'[c].stage = "none" <=> submission[c].stage = "none"
       /\ submission'[c].told = submission[c].told /\ submission'[c].intent = submission[c].intent
       /\ submission'[c].beside = submission[c].beside

\* A step of live submission c: it ends or waits for its read; the key is only
\* thrown away when the user is told of the success.
Advances(c) ==
  /\ c \in Live
  /\ \A d \in Calls \ {c} : submission'[d] = submission[d]
  /\ submission'[c].intent = submission[c].intent /\ submission'[c].beside = submission[c].beside
  /\ submission[c].told => submission'[c].told
  /\ submission'[c].stage \in {"reloading", "over"}
  /\ stored' = stored \/ (stored' = NoStored /\ submission'[c].told)

\* Submission c advances to row s.
LEMMA AdvancesTo ==
  ASSUME ClientOK, NEW c \in Live, NEW s, submission' = [submission EXCEPT ![c] = s],
         s.intent = submission[c].intent, s.beside = submission[c].beside,
         submission[c].told => s.told,
         s.stage \in {"reloading", "over"},
         stored' = stored \/ (stored' = NoStored /\ s.told)
  PROVE  Advances(c)
PROOF
  <1>1. submission'[c] = s /\ \A d \in Calls \ {c} : submission'[d] = submission[d]
    BY DEF ClientOK, Live
  <1>2. (submission[c].told => submission'[c].told) /\ (stored' = stored \/ (stored' = NoStored /\ submission'[c].told))
    BY <1>1, Zenon
  <1>3. QED
    BY <1>1, <1>2 DEF Advances

\* What a step does to the dialog, its submissions and the stored key.
LEMMA DialogEffect ==
  ASSUME PageInv, ShownInv, [PageNext]_pageVars
  PROVE  \/ \E c \in Calls, p \in Payloads : Submit(c, p)
         \/ Rests \/ Restarts \/ \E c \in Live : Advances(c)
PROOF
  <1>0. ClientOK /\ submission \in [Calls -> SubmissionType]
    BY DEF PageInv, ClientOK
  <1>over. ASSUME NEW c \in Calls
           PROVE  /\ Over(submission[c]).told = submission[c].told /\ Over(submission[c]).stage = "over"
                  /\ Over(submission[c]).intent = submission[c].intent
                  /\ Over(submission[c]).beside = submission[c].beside
                  /\ \A t : LET s == [Over(submission[c]) EXCEPT !.told = TRUE]
                                r == [Over(submission[c]) EXCEPT !.stage = "reloading", !.told = TRUE, !.read = t]
                            IN  /\ s.told /\ s.stage = "over" /\ s.intent = submission[c].intent
                                /\ r.told /\ r.stage = "reloading" /\ r.intent = submission[c].intent
                                /\ s.beside = submission[c].beside /\ r.beside = submission[c].beside
    BY <1>0, <1>over DEF Over, SubmissionType
  <1>1. CASE OpenDialog \/ CloseDialog \/ Browse \/ LeavePage
    BY <1>1 DEF OpenDialog, CloseDialog, Browse, LeavePage, Rests
  <1>2. CASE ServerStep \/ (\E k \in Keys : RowExpires(k)) \/ UNCHANGED pageVars
    BY <1>2 DEF ServerStep, RowExpires, pageVars, clientVars, Rests
  <1>3. CASE ReloadPage
    BY <1>0, <1>3, <1>over DEF ReloadPage, Live, Restarts
  <1>4. ASSUME NEW c \in Calls, NetworkError(c) \/ ReceiveError(c) \/ ReceiveIncomplete(c)
        PROVE  \E d \in Live : Advances(d)
    <2>1. FailSubmission(c) /\ c \in Live
      BY <1>4 DEF NetworkError, ReceiveError, ReceiveIncomplete, Succeeded, Live
    <2>2. Advances(c)
      BY <1>0, <1>over, <2>1, AdvancesTo DEF FailSubmission
    <2>3. QED
      BY <2>1, <2>2
  <1>5. ASSUME NEW c \in Calls, ApplySaved(c) \/ DecisionSaved(c) PROVE \E d \in Live : Advances(d)
    <2> DEFINE s == [Over(submission[c]) EXCEPT !.stage = "reloading", !.told = TRUE, !.read = version + 1]
    <2>1. c \in Live
      BY <1>5 DEF ApplySaved, DecisionSaved, Succeeded, Live
    <2>2. submission' = [submission EXCEPT ![c] = s] /\ stored' \in {stored, NoStored}
      BY <1>5 DEF ApplySaved, DecisionSaved, Reloading
    <2>3. /\ s.told /\ s.stage = "reloading" /\ s.intent = submission[c].intent
          /\ s.beside = submission[c].beside
      BY <1>over
    <2> HIDE DEF s
    <2>4. QED
      BY <1>0, <2>1, <2>2, <2>3, AdvancesTo
  <1>6. ASSUME NEW c \in Calls, RegularizationSaved(c) PROVE \E d \in Live : Advances(d)
    <2> DEFINE s == [Over(submission[c]) EXCEPT !.told = TRUE]
    <2>1. c \in Live /\ submission' = [submission EXCEPT ![c] = s] /\ stored' = NoStored
      BY <1>6 DEF RegularizationSaved, Succeeded, Live
    <2>2. /\ s.told /\ s.stage = "over" /\ s.intent = submission[c].intent
          /\ s.beside = submission[c].beside
      BY <1>over
    <2> HIDE DEF s
    <2>3. QED
      BY <1>0, <2>1, <2>2, AdvancesTo
  <1>7. ASSUME NEW v \in 1..MaxLoads, SettlePage(v) PROVE Rests \/ \E d \in Live : Advances(d)
    <2>1. CASE SettleUnawaited(v)
      BY <2>1 DEF SettleUnawaited, clientVars, Rests
    <2>2. CASE ReconcileOk(v) \/ ReconcileNotOk(v)
      <3>1. PICK c \in WaitingFor(v) : EndOfWait(c) /\ stored' \in {stored, NoStored}
        BY <2>2 DEF ReconcileOk, ReconcileNotOk
      <3>2. c \in Live /\ submission[c].told
        BY <3>1 DEF WaitingFor, Live, ShownInv, WaitsForItsRead
      <3>3. Advances(c)
        <4> DEFINE s == Over(submission[c])
        <4>1. /\ s.told /\ s.stage = "over" /\ s.intent = submission[c].intent
              /\ s.beside = submission[c].beside
          BY <1>over, <3>2 DEF Live
        <4>2. submission' = [submission EXCEPT ![c] = s]
          BY <3>1 DEF EndOfWait
        <4> HIDE DEF s
        <4>3. QED
          BY <1>0, <3>1, <3>2, <4>1, <4>2, AdvancesTo
      <3>4. QED
        BY <3>2, <3>3
    <2>3. QED
      BY <1>7, <2>1, <2>2 DEF SettlePage
  <1>8. ASSUME NEW v \in 1..MaxLoads, AnswerRead(v) PROVE Rests
    BY <1>8 DEF AnswerRead, clientVars, Rests
  <1>9. QED
    BY <1>1, <1>2, <1>3, <1>4, <1>5, <1>6, <1>7, <1>8 DEF PageNext, AnswerSubmission

\* A step that submits nothing leaves the requests as they are.
LEMMA SameRequests ==
  ASSUME PageInv, [PageNext]_pageVars, ~\E c \in Calls, p \in Payloads : Submit(c, p)
  PROVE  /\ Submitted' = Submitted
         /\ \A c \in Submitted : Entry(c)' = Entry(c)
         /\ \A c \in Calls : IsLast(c)' <=> IsLast(c)
PROOF
  <1>0. call \in [Calls -> [stage : {"unused", "arrived", "running", "done"},
                            key : Keys \cup {NoKey}, payload : Payloads \cup {NoPayload}, answer : Answers]]
    BY DEF PageInv, RecordInv, RecordTypeOK, Answers
  <1>1. ASSUME NEW c \in Calls, Serve(c) PROVE Submitted' \subseteq Submitted
    <2>1. c \in Submitted /\ \E s : call' = [call EXCEPT ![c] = s]
      BY <1>1 DEF Serve, Replay, Begin, Rollback, Complete, Submitted
    <2>2. QED
      BY <1>0, <2>1 DEF Submitted
  <1>2. call' = call => Submitted' \subseteq Submitted
    BY DEF Submitted
  <1>3. call' = call \/ \E c \in Calls : Serve(c)
    BY DEF PageNext, OpenDialog, CloseDialog, Browse, LeavePage, ReloadPage, AnswerSubmission, NetworkError,
           ReceiveError, ReceiveIncomplete, FailSubmission, ApplySaved, DecisionSaved, RegularizationSaved,
           AnswerRead, SettlePage, SettleUnawaited, ReconcileOk, ReconcileNotOk, ServerStep, RowExpires,
           Expire, pageVars, recordVars
  <1>4. Submitted' = Submitted
    BY <1>1, <1>2, <1>3, KeysStay
  <1>5. QED
    BY <1>4, KeysStay DEF Entry, IsLast

\* What a submission makes of the requests: it is the last one, and the only
\* live one.
LEMMA SubmitEffect ==
  ASSUME PageInv, InOrder, OneAtATime', NEW c \in Calls, NEW p \in Payloads, Submit(c, p)
  PROVE  /\ c \notin Submitted /\ Submitted' = Submitted \cup {c} /\ Live' = {c}
         /\ \A d \in Calls : d < c => d \in Submitted
         /\ \A d \in Submitted : d < c
         /\ \A d \in Calls : IsLast(d)' <=> d = c
         /\ call'[c].key = MutationKey(c, p) /\ call'[c].payload = p
         /\ \A d \in Calls \ {c} : call'[d] = call[d] /\ submission'[d] = submission[d]
         /\ submission'[c].stage = "sent" /\ ~submission'[c].told /\ submission'[c].intent = Intent(c, p)
         /\ submitting' = c
         /\ stored' = IF StorageAvailable THEN [key |-> MutationKey(c, p), signature |-> p] ELSE NoStored
PROOF
  <1>0. /\ Calls \subseteq Nat \ {0}
        /\ call \in [Calls -> [stage : {"unused", "arrived", "running", "done"},
                               key : Keys \cup {NoKey}, payload : Payloads \cup {NoPayload}, answer : Answers]]
        /\ submission \in [Calls -> SubmissionType]
    BY PageAssumption, FS_CardinalityType DEF PageInv, RecordInv, RecordTypeOK, ClientOK, Answers
  <1>1. /\ call[c].stage = "unused"
        /\ call' = [call EXCEPT ![c] = [stage |-> "arrived", key |-> MutationKey(c, p), payload |-> p,
                                        answer |-> "none"]]
    BY DEF Submit, Receive
  <1>2. submission' = [submission EXCEPT ![c] = [stage |-> "sent", intent |-> Intent(c, p),
                         told |-> FALSE, query |-> shown.query, read |-> 0, beside |-> Live]]
    BY DEF Submit
  <1>3. c \notin Submitted /\ Submitted' = Submitted \cup {c}
    BY <1>0, <1>1 DEF Submitted
  <1>4. \A d \in Calls : d < c => d \in Submitted
    BY DEF Submit, Submitted
  <1>5. \A d \in Submitted : d < c
    <2>1. ASSUME NEW d \in Submitted, d > c PROVE FALSE
      BY <1>3, <2>1 DEF InOrder
    <2>2. \A d \in Submitted : d \in Nat /\ c \in Nat
      BY <1>0 DEF Submitted
    <2>3. QED
      BY <1>3, <2>1, <2>2
  <1>6. \A d \in Calls : IsLast(d)' <=> d = c
    <2>1. c \in Nat /\ \A d \in Submitted : d \in Nat
      BY <1>0 DEF Submitted
    <2>2. c \in Submitted' /\ \A d \in Submitted' : d <= c
      BY <1>3, <1>5, <2>1
    <2>3. \A d \in Submitted' : c <= d => d = c
      BY <1>3, <1>5, <2>1
    <2>4. QED
      BY <2>2, <2>3 DEF IsLast
  <1>7. Live = {}
    <2>1. submission'[c].beside = Live
      BY <1>0, <1>2
    <2>2. QED
      BY <2>1 DEF OneAtATime
  <1>8. Live' = {c}
    BY <1>0, <1>2, <1>7 DEF Live
  <1>9. /\ call'[c].key = MutationKey(c, p) /\ call'[c].payload = p
        /\ \A d \in Calls \ {c} : call'[d] = call[d] /\ submission'[d] = submission[d]
    BY <1>0, <1>1, <1>2
  <1>10. submission'[c].stage = "sent" /\ ~submission'[c].told /\ submission'[c].intent = Intent(c, p)
    BY <1>0, <1>2
  <1>11. /\ submitting' = c
         /\ stored' = IF StorageAvailable THEN [key |-> MutationKey(c, p), signature |-> p] ELSE NoStored
    BY DEF Submit
  <1>12. QED
    BY <1>3, <1>4, <1>5, <1>6, <1>8, <1>9, <1>10, <1>11

\* The last submission is one.
LEMMA OneLast == ASSUME PageInv, NEW c, IsLast(c), NEW d, IsLast(d) PROVE c = d
PROOF
  <1>1. Submitted \subseteq Nat
    BY PageAssumption, FS_CardinalityType DEF Submitted
  <1>2. QED
    BY <1>1 DEF IsLast

\* Nobody forgets that a submission was made beside another.
LEMMA BesideStays ==
  ASSUME PageInv, ShownInv, BesideIsMade, [PageNext]_pageVars
  PROVE  BesideIsMade' /\ (OneAtATime' => OneAtATime)
PROOF
  <1>0. submission \in [Calls -> SubmissionType]
    BY DEF PageInv, ClientOK
  <1>1. ASSUME NEW c \in Calls, NEW p \in Payloads, Submit(c, p)
        PROVE  /\ c \notin Submitted /\ c \in Submitted'
               /\ \A d \in Calls \ {c} : submission'[d].beside = submission[d].beside
    <2>1. c \notin Submitted /\ call'[c].stage = "arrived"
      BY <1>1 DEF Submit, Receive, Submitted, PageInv, RecordInv, RecordTypeOK
    <2>2. \A d \in Calls \ {c} : submission'[d] = submission[d]
      BY <1>0, <1>1 DEF Submit
    <2>3. QED
      BY <2>1, <2>2 DEF Submitted
  <1>2. CASE ~\E c \in Calls, p \in Payloads : Submit(c, p)
    <2>1. \A d \in Calls : submission'[d].beside = submission[d].beside
      BY <1>2, DialogEffect DEF Rests, Restarts, Advances
    <2>2. QED
      BY <2>1, KeysStay DEF BesideIsMade, OneAtATime
  <1>3. CASE \E c \in Calls, p \in Payloads : Submit(c, p)
    BY <1>1, <1>3, KeysStay DEF BesideIsMade, OneAtATime
  <1>4. QED
    BY <1>2, <1>3

\* Submissions take turns, and the stored key is of the last one.
LEMMA SerialNext ==
  PageInv /\ ShownInv /\ SerialInv /\ OneAtATime' /\ [PageNext]_pageVars => SerialInv'
PROOF
  <1> SUFFICES ASSUME PageInv, ShownInv, InOrder, LastIsLive, StoredIsLast, OneAtATime', [PageNext]_pageVars
               PROVE  InOrder' /\ LastIsLive' /\ StoredIsLast'
    BY DEF SerialInv
  <1>0. submission \in [Calls -> SubmissionType]
    BY DEF PageInv, ClientOK
  <1>1. ASSUME NEW c \in Calls, NEW p \in Payloads, Submit(c, p)
        PROVE  InOrder' /\ LastIsLive' /\ StoredIsLast'
    <2>1. InOrder'
      <3>1. \A d \in Calls : submission'[d].stage # "none" <=> d \in Submitted'
        BY <1>1, SubmitEffect DEF InOrder
      <3>2. \A b \in Submitted', d \in Calls : d < b => d \in Submitted'
        BY <1>1, SubmitEffect DEF InOrder
      <3>3. QED
        BY <3>1, <3>2 DEF InOrder
    <2>2. LastIsLive'
      BY <1>1, SubmitEffect DEF LastIsLive, Live
    <2>3. StoredIsLast'
      BY <1>1, SubmitEffect DEF StoredIsLast, Entry
    <2>4. QED
      BY <2>1, <2>2, <2>3
  <1>2. CASE ~\E c \in Calls, p \in Payloads : Submit(c, p)
    <2>same. /\ Submitted' = Submitted
             /\ \A c \in Submitted : Entry(c)' = Entry(c)
             /\ \A c \in Calls : IsLast(c)' <=> IsLast(c)
      BY <1>2, SameRequests
    <2>1. InOrder'
      <3>1. \A c \in Calls : submission'[c].stage = "none" <=> submission[c].stage = "none"
        BY <1>2, DialogEffect DEF Rests, Restarts, Advances, Live
      <3>2. QED
        BY <2>same, <3>1 DEF InOrder
    <2>2. LastIsLive'
      <3>1. CASE Rests
        BY <2>same, <3>1 DEF Rests, LastIsLive, Live
      <3>2. CASE Restarts
        BY <3>2 DEF Restarts, LastIsLive, Live
      <3>3. ASSUME NEW c \in Live, Advances(c) PROVE LastIsLive'
        <4>1. Live = {c}
          BY <3>3, OneLast DEF LastIsLive
        <4>2. Live' \subseteq {c} /\ (c \in Live' => submission'[c].stage = "reloading")
          BY <3>3, <4>1 DEF Advances, Live
        <4>3. IsLast(c)'
          BY <2>same, <3>3 DEF LastIsLive, Live
        <4>4. QED
          BY <3>3, <4>2, <4>3 DEF Advances, LastIsLive
      <3>4. QED
        BY <1>2, <3>1, <3>2, <3>3, DialogEffect
    <2>3. StoredIsLast'
      <3>1. stored' \in {stored, NoStored}
        BY <1>2, DialogEffect DEF Rests, Restarts, Advances
      <3>2. CASE stored' = stored /\ stored # NoStored
        <4>1. PICK c \in Calls : IsLast(c) /\ stored = Entry(c)
          BY <3>2 DEF StoredIsLast
        <4>2. IsLast(c)' /\ Entry(c)' = Entry(c)
          BY <2>same, <4>1 DEF IsLast
        <4>3. QED
          BY <3>2, <4>1, <4>2 DEF StoredIsLast
      <3>3. CASE stored' = NoStored
        BY <3>3 DEF StoredIsLast
      <3>4. QED
        BY <3>1, <3>2, <3>3
    <2>4. QED
      BY <2>1, <2>2, <2>3
  <1>3. QED
    BY <1>1, <1>2

\* A submission repeats the key of its intent.
LEMMA IntentNext ==
  ASSUME StorageAvailable, PageInv, ShownInv, SerialInv, IntentInv, OneAtATime', [PageNext]_pageVars
  PROVE  IntentInv'
PROOF
  <1>0. /\ InOrder /\ LastIsLive /\ KeptUntilTold /\ OneKeyPerIntent
        /\ submission \in [Calls -> SubmissionType] /\ Calls \subseteq Nat
    BY PageAssumption, FS_CardinalityType DEF SerialInv, IntentInv, PageInv, ClientOK
  <1>1. ASSUME NEW c \in Calls, NEW p \in Payloads, Submit(c, p) PROVE IntentInv'
    <2>1. KeptUntilTold'
      BY <1>0, <1>1, SubmitEffect DEF KeptUntilTold, Entry
    <2>2. /\ Submitted' = Submitted \cup {c} /\ \A d \in Submitted : d < c /\ d \in Nat
          /\ \A d \in Submitted : call'[d] = call[d] /\ submission'[d] = submission[d]
          /\ call'[c].key = MutationKey(c, p) /\ submission'[c].intent = Intent(c, p)
      BY <1>0, <1>1, SubmitEffect DEF Submitted
    <2>3. CASE c > 1 /\ call[c - 1].payload = p /\ ~submission[c - 1].told
      <3>1. c - 1 \in Calls /\ IsLast(c - 1)
        <4>1. c - 1 \in Calls
          BY <2>3, PageAssumption, FS_CardinalityType
        <4>2. c - 1 \in Submitted
          BY <1>0, <1>1, <4>1, SubmitEffect
        <4>3. QED
          BY <1>0, <2>2, <4>1, <4>2 DEF IsLast
      <3>2. stored = Entry(c - 1) /\ call[c - 1].key \in Keys /\ c - 1 \in Submitted
        BY <1>0, <2>3, <3>1 DEF KeptUntilTold, IsLast, PageInv, RecordInv, RecordTypeOK, Submitted
      <3>3. call'[c].key = call[c - 1].key
        BY <2>2, <2>3, <3>2, RecordAssumption DEF MutationKey, Entry
      <3>4. submission'[c].intent = submission[c - 1].intent /\ submission[c - 1].intent <= c - 1
        BY <1>0, <2>2, <2>3, <3>2 DEF Intent, OneKeyPerIntent
      <3>5. \A d \in Submitted : submission[d].intent = submission'[c].intent => call[d].key = call'[c].key
        BY <1>0, <3>2, <3>3, <3>4 DEF OneKeyPerIntent
      <3>6. submission'[c].intent <= c
        BY <1>0, <3>2, <3>4 DEF Submitted, SubmissionType
      <3>7. OneKeyPerIntent'
        BY <1>0, <2>2, <3>5, <3>6 DEF OneKeyPerIntent
      <3>8. QED
        BY <2>1, <3>7 DEF IntentInv
    <2>4. CASE ~(c > 1 /\ call[c - 1].payload = p /\ ~submission[c - 1].told)
      <3>1. submission'[c].intent = c
        BY <2>2, <2>4 DEF Intent
      <3>2. \A d \in Submitted : submission[d].intent \in Nat /\ submission[d].intent < c
        BY <1>0, <2>2 DEF OneKeyPerIntent, SubmissionType, Submitted
      <3>3. OneKeyPerIntent'
        BY <1>0, <2>2, <3>1, <3>2 DEF OneKeyPerIntent
      <3>4. QED
        BY <2>1, <3>3 DEF IntentInv
    <2>5. QED
      BY <2>3, <2>4
  <1>2. CASE ~\E c \in Calls, p \in Payloads : Submit(c, p)
    <2>same. /\ Submitted' = Submitted
             /\ \A c \in Submitted : Entry(c)' = Entry(c)
             /\ \A c \in Calls : IsLast(c)' <=> IsLast(c)
      BY <1>2, SameRequests
    <2>1. KeptUntilTold'
      <3> SUFFICES ASSUME NEW c \in Calls, IsLast(c)', ~submission'[c].told PROVE stored' = Entry(c)'
        BY DEF KeptUntilTold
      <3>1. IsLast(c) /\ c \in Submitted
        BY <2>same DEF IsLast
      <3>2. CASE stored' = stored /\ ~submission[c].told
        BY <1>0, <2>same, <3>1, <3>2 DEF KeptUntilTold
      <3>3. CASE Rests \/ Restarts
        BY <3>2, <3>3 DEF Rests, Restarts
      <3>4. ASSUME NEW d \in Live, Advances(d) PROVE stored' = Entry(c)'
        <4>1. d = c
          BY <1>0, <3>1, <3>4, OneLast DEF LastIsLive
        <4>2. QED
          BY <3>2, <3>4, <4>1 DEF Advances
      <3>5. QED
        BY <1>2, <3>3, <3>4, DialogEffect
    <2>2. \A c \in Calls : submission'[c].intent = submission[c].intent
      BY <1>2, DialogEffect DEF Rests, Restarts, Advances
    <2>3. OneKeyPerIntent'
      <3>1. \A c \in Submitted : submission'[c].intent = submission[c].intent /\ call'[c].key = call[c].key
        BY <2>2, KeysStay DEF Submitted
      <3>2. QED
        BY <1>0, <2>same, <3>1 DEF OneKeyPerIntent
    <2>4. QED
      BY <2>1, <2>3 DEF IntentInv
  <1>3. QED
    BY <1>1, <1>2

\* Nothing was submitted before the first step.
LEMMA InitSerial == PageInit => SerialInv /\ IntentInv /\ BesideIsMade
  BY DEF PageInit, RecordInit, NoCall, NoSubmission, Live, SerialInv, IntentInv, InOrder, LastIsLive,
         StoredIsLast, KeptUntilTold, OneKeyPerIntent, IsLast, Submitted, BesideIsMade

\* The two parts of the page's invariant that need no assumption.
LEMMA InitPageShown == PageInit => PageInv /\ ShownInv
  BY InitRecordInv, InitResourceInv, InitClientOK, InitShown DEF PageInit, PageInv

LEMMA NextPageShown == PageInv /\ ShownInv /\ [PageNext]_pageVars => (PageInv /\ ShownInv)'
  BY PageStep, RowsNext, ToldNext, WaitNext DEF ShownInv

\* What holds of the submissions as long as each was made after the others.
TurnsInv ==
  /\ BesideIsMade
  /\ OneAtATime => SerialInv
  /\ StorageAvailable /\ OneAtATime => IntentInv

LEMMA TurnsNext == PageInv /\ ShownInv /\ TurnsInv /\ [PageNext]_pageVars => TurnsInv'
  BY BesideStays, SerialNext, IntentNext DEF TurnsInv

\* Of what a user asks for once, at most one mutation is committed, however
\* often it is submitted before an answer confirms it: for any number of
\* submissions, with every dialog, where the browser keeps the key and the user
\* does not submit while an earlier submission is not over.
THEOREM PageWritesOnce == PageSpec => []NoDuplicateWrite
PROOF
  <1> DEFINE Inv == PageInv /\ ShownInv /\ TurnsInv
  <1>1. PageInit => Inv
    BY InitPageShown, InitSerial DEF TurnsInv
  <1>2. Inv /\ [PageNext]_pageVars => Inv'
    BY NextPageShown, TurnsNext
  <1>3. Inv => NoDuplicateWrite
    BY DEF TurnsInv, IntentInv, OneKeyPerIntent, NoDuplicateWrite, PageInv, RecordInv, OncePerKey,
           RowOfApplied, RecordTypeOK, Submitted
  <1>4. QED
    BY <1>1, <1>2, <1>3, PTL DEF PageSpec

\* A key that is thrown away is the key of a committed mutation, and the leave
\* page shows the mutation by then.
LEMMA KeyStep ==
  ASSUME PageInv, ShownInv, SerialInv, [PageNext]_pageVars, stored # NoStored, stored' = NoStored
  PROVE  \E d \in applied : call[d].key = stored.key /\ (panel = "apply" => d \in shown'.rows)
PROOF
  <1>0. PICK e \in Calls : IsLast(e) /\ stored = Entry(e) /\ StorageAvailable
    BY DEF SerialInv, StoredIsLast
  <1>1. ASSUME NEW c \in Live PROVE call[c].key = stored.key
    <2>1. IsLast(c)
      BY DEF SerialInv, LastIsLive
    <2>2. c = e
      BY <1>0, <2>1, OneLast
    <2>3. QED
      BY <1>0, <2>2 DEF Entry
  <1>2. ASSUME NEW c \in Calls, DecisionSaved(c) \/ RegularizationSaved(c)
        PROVE  panel # "apply" /\ \E d \in applied : call[d].key = stored.key
    <2>1. c \in Live /\ call[c].answer = "applied" /\ panel # "apply"
      BY <1>2 DEF DecisionSaved, RegularizationSaved, Succeeded, Live
    <2>2. \E d \in applied : call[d].key = call[c].key
      BY <2>1 DEF PageInv, RecordInv, PromiseKept, Live
    <2>3. QED
      BY <1>1, <2>1, <2>2
  <1>3. ASSUME NEW v \in 1..MaxLoads, ReconcileOk(v)
        PROVE  \E d \in applied : call[d].key = stored.key /\ d \in shown'.rows
    <2>1. PICK c \in WaitingFor(v) : Apply(v)
      BY <1>3 DEF ReconcileOk
    <2>2. c \in Live /\ submission[c].stage = "reloading" /\ submission[c].read = v /\ c \in Calls
      BY DEF WaitingFor, Live
    <2>3. reads[v].stage = "served" /\ shown'.rows = reads[v].rows
      BY <2>1 DEF Apply
    <2>4. Shows(reads[v].rows, c)
      BY <2>2, <2>3 DEF ShownInv, WaitsForItsRead
    <2>5. reads[v].rows \subseteq applied
      BY DEF ShownInv, RowsAreReal
    <2>6. QED
      BY <1>1, <2>2, <2>3, <2>4, <2>5 DEF Shows
  <1>4. ASSUME NEW c \in Calls, NEW p \in Payloads, Submit(c, p) PROVE FALSE
    <2>1. stored' = [key |-> MutationKey(c, p), signature |-> p]
      BY <1>0, <1>4 DEF Submit
    <2>2. MutationKey(c, p) # NoKey
      BY MutationKeyType, RecordAssumption DEF PageInv
    <2>3. QED
      BY <2>1, <2>2 DEF NoStored
  <1>5. ASSUME stored' = stored PROVE FALSE
    BY <1>5
  <1>6. \/ stored' = stored \/ (\E c \in Calls, p \in Payloads : Submit(c, p))
        \/ (\E c \in Calls : DecisionSaved(c) \/ RegularizationSaved(c))
        \/ \E v \in 1..MaxLoads : ReconcileOk(v)
    BY DEF PageNext, OpenDialog, CloseDialog, Browse, LeavePage, ReloadPage, AnswerSubmission, NetworkError,
           ReceiveError, ReceiveIncomplete, FailSubmission, ApplySaved, AnswerRead, SettlePage,
           SettleUnawaited, ReconcileNotOk, ServerStep, RowExpires, clientVars, pageVars
  <1>7. QED
    BY <1>2, <1>3, <1>4, <1>5, <1>6

\* No step throws a key away before its mutation is confirmed, with and
\* without a session storage and through reopened dialogs, as long as the user
\* does not submit while an earlier submission is not over.
THEOREM PageKeepsKey == PageSpec => KeyKeptUntilConfirmed
PROOF
  <1> DEFINE Inv == PageInv /\ ShownInv /\ TurnsInv
             Confirmed == OneAtATime /\ stored # NoStored /\ stored' = NoStored =>
                            \E d \in applied : /\ call[d].key = stored.key
                                               /\ panel = "apply" => d \in shown'.rows
  <1>1. PageInit => Inv
    BY InitPageShown, InitSerial DEF TurnsInv
  <1>2. Inv /\ [PageNext]_pageVars => Inv'
    BY NextPageShown, TurnsNext
  <1>3. Inv /\ [PageNext]_pageVars => [Confirmed]_pageVars
    BY KeyStep DEF TurnsInv
  <1>4. QED
    BY <1>1, <1>2, <1>3, PTL DEF PageSpec, KeyKeptUntilConfirmed
=============================================================================
