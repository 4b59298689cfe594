--------------------------- MODULE WorkspacePage ---------------------------
(***************************************************************************)
(* A self-service page of the web client and the endpoint it posts to: the *)
(* workspace's data (WorkspaceResource), a dialog that submits a mutation  *)
(* under a key kept in the session storage (mutation-idempotency.ts), and  *)
(* the server that remembers the key (IdempotencyRecord).                  *)
(*                                                                         *)
(* Three dialogs follow the discipline, each in its own order: "apply" is  *)
(* submitLeave, "decide" the manager's handleDecision, "regularize"        *)
(* submitRegularization.  A submission is named by the call it makes; a    *)
(* fresh key and a new intent are named by the submission they begin with. *)
(* The Next.js route handlers pass key, body and status on; an answer they *)
(* cannot parse arrives without its body.                                  *)
(***************************************************************************)
EXTENDS IdempotencyRecord, WorkspaceResource

CONSTANTS
  Panels,            \* the dialogs considered
  StorageAvailable,  \* sessionStorage can be written
  MaxSteps           \* bound: steps of the user and expired rows together

ASSUME PageAssumption ==
  /\ IsFiniteSet(Calls) /\ Calls = 1..Cardinality(Calls) /\ Keys = Calls /\ Rows = Calls
  /\ Panels \subseteq {"apply", "decide", "regularize"}
  /\ StorageAvailable \in BOOLEAN
  /\ MaxSteps \in Nat /\ MaxSteps <= MaxLoads

VARIABLES
  panel,       \* which dialog the page has
  dialog,      \* "closed", "open", or "locked" by a success message
  submitting,  \* submittingRef: the submission the mounted dialog waits for
  stored,      \* the session storage entry of the mutation scope
  submission,  \* the continuation of each submit handler
  steps        \* number of submissions, reads, page changes and expired rows

clientVars == <<panel, dialog, submitting, stored, submission, steps>>
pageVars == <<recordVars, resourceVars, clientVars>>

NoStored == [key |-> NoKey, signature |-> NoPayload]
Over(s) == [s EXCEPT !.stage = "over", !.query = InitialQuery, !.read = 0]
NoSubmission == [stage |-> "none", intent |-> 0, told |-> FALSE, query |-> InitialQuery, read |-> 0,
                 beside |-> {}]
Nothing == 0   \* no submission is waited for

PageInit ==
  /\ RecordInit /\ ResourceInit
  /\ panel \in Panels
  /\ dialog = "closed" /\ submitting = Nothing
  /\ stored = NoStored
  /\ submission = [c \in Calls |-> NoSubmission]
  /\ steps = 0

Live == {c \in Calls : submission[c].stage \in {"sent", "reloading"}}

\* Each step starts at most one read, its own or that of its submission.
Step == steps < MaxSteps /\ steps' = steps + 1
-----------------------------------------------------------------------------
(* The dialog.                                                             *)

\* The correction dialog is not offered while its list is loading or broken.
OpenDialog ==
  /\ mounted /\ dialog = "closed"
  /\ panel = "regularize" => ~Pending /\ notice # "error"
  /\ dialog' = "open"
  /\ UNCHANGED <<recordVars, resourceVars, panel, submitting, stored, submission, steps>>

\* requestClose: the dialogs are not marked busy, so one can be closed while
\* its submission is in flight, and opened again for another submission; the
\* handler's continuation goes on.
CloseDialog ==
  /\ mounted /\ dialog # "closed"
  /\ dialog' = "closed" /\ submitting' = Nothing
  /\ UNCHANGED <<recordVars, resourceVars, panel, stored, submission, steps>>

\* mutationIdempotencyKey: the stored key if it was made for this payload.
MutationKey(c, p) == IF stored.key # NoKey /\ stored.signature = p THEN stored.key ELSE c

\* What the user means: the previous submission again, if it asked for the
\* same and its outcome is still unknown or was a failure.
Intent(c, p) ==
  IF c > 1 /\ call[c - 1].payload = p /\ ~submission[c - 1].told
  THEN submission[c - 1].intent ELSE c

\* The submit handler up to its fetch, after validation.
Submit(c, p) ==
  LET key == MutationKey(c, p) IN
  /\ mounted /\ dialog = "open" /\ submitting = Nothing
  /\ Step
  /\ \A d \in Calls : d < c => call[d].stage # "unused"
  /\ Receive(c, key, p)
  /\ stored' = IF StorageAvailable THEN [key |-> key, signature |-> p] ELSE NoStored
  /\ submission' = [submission EXCEPT ![c] = [stage |-> "sent", intent |-> Intent(c, p),
                      told |-> FALSE, query |-> shown.query, read |-> 0, beside |-> Live]]
  /\ submitting' = c
  /\ UNCHANGED <<resourceVars, panel, dialog>>

Release(c) == submitting' = IF submitting = c THEN Nothing ELSE submitting

\* Faulty variant: the key is thrown away when the outcome is unknown.
FailSubmissionDropsKey(c) ==
  /\ submission' = [submission EXCEPT ![c] = Over(@)]
  /\ Release(c)
  /\ stored' = NoStored
  /\ UNCHANGED <<recordVars, resourceVars, panel, dialog, steps>>

\* An error is shown; entries and key stay.
FailSubmission(c) ==
  /\ submission' = [submission EXCEPT ![c] = Over(@)]
  /\ Release(c)
  /\ UNCHANGED <<recordVars, resourceVars, panel, dialog, stored, steps>>

\* fetch throws: the request or its answer was lost, the server goes on.
NetworkError(c) ==
  /\ submission[c].stage = "sent"
  /\ FailSubmission(c)

\* A 4xx, 409 or 5xx answer.
ReceiveError(c) ==
  /\ submission[c].stage = "sent"
  /\ call[c].stage = "done" /\ call[c].answer # "applied"
  /\ FailSubmission(c)

Succeeded(c) == submission[c].stage = "sent" /\ call[c].stage = "done" /\ call[c].answer = "applied"

\* submitLeave takes a success answer without an id for an unconfirmed one.
ReceiveIncomplete(c) ==
  /\ panel = "apply" /\ Succeeded(c)
  /\ FailSubmission(c)

\* The user learns that it was saved; the handler waits for the read it starts.
Reloading(c) ==
  submission' = [submission EXCEPT ![c] =
                   [Over(@) EXCEPT !.stage = "reloading", !.told = TRUE, !.read = version + 1]]

\* submitLeave: onSubmitted reads the unfiltered list before anything is cleared.
ApplySaved(c) ==
  /\ panel = "apply" /\ Succeeded(c)
  /\ Reloading(c)
  /\ Reconcile(DefaultQuery, "replace")
  /\ UNCHANGED <<recordVars, panel, dialog, submitting, stored, steps>>

\* handleDecision: the key is cleared, the success message locks the buttons,
\* and the queue is read with the query of the render the click came from.
DecisionSaved(c) ==
  /\ panel = "decide" /\ Succeeded(c)
  /\ stored' = NoStored
  /\ dialog' = IF submitting = c THEN "locked" ELSE dialog
  /\ Reloading(c)
  /\ Reconcile(submission[c].query, "none")
  /\ UNCHANGED <<recordVars, panel, submitting, steps>>

\* submitRegularization: the key is cleared and the dialog closed at once; no
\* one waits for the read.
RegularizationSaved(c) ==
  /\ panel = "regularize" /\ Succeeded(c)
  /\ stored' = NoStored
  /\ dialog' = "closed" /\ submitting' = Nothing
  /\ submission' = [submission EXCEPT ![c] = [Over(@) EXCEPT !.told = TRUE]]
  /\ Reconcile(submission[c].query, "none")
  /\ UNCHANGED <<recordVars, panel, steps>>

-----------------------------------------------------------------------------
(* The end of a read, and of the submission that waits for it.             *)

WaitingFor(v) == {c \in Calls : submission[c].stage = "reloading" /\ submission[c].read = v}

SettleUnawaited(v) ==
  /\ WaitingFor(v) = {}
  /\ Settle(v)
  /\ UNCHANGED <<recordVars, clientVars>>

EndOfWait(c) == submission' = [submission EXCEPT ![c] = Over(@)]

\* The read was applied: the dialog closes, and submitLeave clears its key.
ReconcileOk(v) ==
  \E c \in WaitingFor(v) :
    /\ Apply(v)
    /\ EndOfWait(c)
    /\ dialog' = "closed" /\ submitting' = Nothing
    /\ stored' = IF panel = "apply" THEN NoStored ELSE stored
    /\ UNCHANGED <<recordVars, panel, steps>>

\* Faulty variant: the result of load is not looked at.
ReconcileIgnoresResult(v) ==
  \E c \in WaitingFor(v) :
    /\ NotApplied(v)
    /\ EndOfWait(c)
    /\ dialog' = "closed" /\ submitting' = Nothing
    /\ stored' = IF panel = "apply" THEN NoStored ELSE stored
    /\ UNCHANGED <<recordVars, panel, steps>>

\* It failed or was superseded: saved, but not confirmed; the dialog stays.
ReconcileNotOk(v) ==
  \E c \in WaitingFor(v) :
    /\ NotApplied(v)
    /\ EndOfWait(c)
    /\ Release(c)
    /\ UNCHANGED <<recordVars, panel, dialog, stored, steps>>

\* Faulty variant: a submission that waits for a superseded read is forgotten.
SettlePageForgets(v) ==
  SettleUnawaited(v) \/ ReconcileOk(v) \/ (Current(v) /\ ReconcileNotOk(v))

SettlePage(v) == SettleUnawaited(v) \/ ReconcileOk(v) \/ ReconcileNotOk(v)

-----------------------------------------------------------------------------
(* The user's other steps, and the server's.                               *)

Browse ==
  /\ Step
  /\ \/ \E q \in Queries : Navigate(q)
     \/ Retry
     \/ \E to \in 1..Len(entries) : PopState(to)
  /\ UNCHANGED <<recordVars, panel, dialog, submitting, stored, submission>>

\* Another page of the application: the dialog goes, its continuation stays.
LeavePage ==
  /\ Step /\ Unmount
  /\ dialog' = "closed" /\ submitting' = Nothing
  /\ UNCHANGED <<recordVars, panel, stored, submission>>

\* F5: continuations end, the session storage stays, the server goes on.
ReloadPage ==
  /\ Step
  /\ Restart(applied)
  /\ dialog' = "closed" /\ submitting' = Nothing
  /\ submission' = [c \in Calls |-> IF c \in Live THEN Over(submission[c]) ELSE submission[c]]
  /\ UNCHANGED <<recordVars, panel, stored>>

ServerStep ==
  /\ \E c \in Calls : Serve(c)
  /\ UNCHANGED <<resourceVars, clientVars>>

RowExpires(k) ==
  /\ Expire(k)
  /\ Step
  /\ UNCHANGED <<resourceVars, panel, dialog, submitting, stored, submission>>

\* resolveQuery: the answer names the page that was asked for; in the approvals
\* a page beyond the last and a selection that is decided give way.
Resolutions(q) == IF panel = "decide" THEN {q, DefaultQuery} ELSE {q}

AnswerRead(v) ==
  /\ \E resolved \in Resolutions(reads[v].query) : ServeRead(v, applied, resolved)
  /\ UNCHANGED <<recordVars, clientVars>>

AnswerSubmission(c) ==
  \/ NetworkError(c) \/ ReceiveError(c) \/ ReceiveIncomplete(c)
  \/ ApplySaved(c) \/ DecisionSaved(c) \/ RegularizationSaved(c)

PageNext ==
  \/ OpenDialog \/ CloseDialog \/ Browse \/ LeavePage \/ ReloadPage
  \/ \E c \in Calls : (\E p \in Payloads : Submit(c, p)) \/ AnswerSubmission(c)
  \/ \E v \in 1..MaxLoads : AnswerRead(v) \/ SettlePage(v)
  \/ ServerStep
  \/ \E k \in Keys : RowExpires(k)

PageSpec == PageInit /\ [][PageNext]_pageVars

\* fetch resolves or throws, and a settled promise runs its continuation.  The
\* user owes nothing, and neither does the server: a request may be lost.
PageFairness ==
  /\ \A c \in Calls : WF_pageVars(AnswerSubmission(c))
  /\ \A v \in 1..MaxLoads : WF_pageVars(AnswerRead(v)) /\ WF_pageVars(SettlePage(v))

FairPageSpec == PageSpec /\ PageFairness
-----------------------------------------------------------------------------
PageTypeOK ==
  /\ RecordTypeOK /\ ResourceTypeOK
  /\ panel \in Panels /\ dialog \in {"closed", "open", "locked"}
  /\ submitting \in Calls \cup {Nothing}
  /\ stored \in [key : Keys \cup {NoKey}, signature : Payloads \cup {NoPayload}]
  /\ submission \in [Calls -> [stage : {"none", "sent", "reloading", "over"}, intent : Nat,
                               told : BOOLEAN, query : Queries, read : 0..MaxLoads,
                               beside : SUBSET Calls]]
  /\ steps \in Nat

\* No submission was made beside another that was not over, through a dialog
\* that was closed and opened again.
OneAtATime == \A c \in Calls : submission[c].beside = {}

\* What a user asks for once is written once, however often it is submitted
\* before an answer confirms it: after a lost answer, an error, a page reload,
\* a closed and reopened dialog, or a success whose body was lost; as long as
\* the browser keeps the session storage and the user does not submit while an
\* earlier submission is not over.
NoDuplicateWrite ==
  StorageAvailable /\ OneAtATime =>
    \A c, d \in applied : submission[c].intent = submission[d].intent => c = d

\* An idle page shows every mutation it reported as saved: the read that
\* follows a mutation cannot be overtaken by an older one.
ShowsWhatWasSaved ==
  Idle => \A c \in Calls : submission[c].told =>
            \E d \in shown.rows : call[d].key = call[c].key

\* A key is cleared only after a success answer to the submission it belongs
\* to, and the leave form keeps it until the list that shows the new request is
\* on the page; through closed and reopened dialogs, as long as the user does
\* not submit while an earlier submission is not over.
KeyKeptUntilConfirmed ==
  [][OneAtATime /\ stored # NoStored /\ stored' = NoStored =>
       \E d \in applied : /\ call[d].key = stored.key
                          /\ panel = "apply" => d \in shown'.rows]_pageVars

\* The validation and feedback standard: idempotency keys are kept after a
\* rejection or an unconfirmed write, and cleared only on success.
KeyKeptByStandard ==
  [][stored # NoStored /\ stored' = NoStored => \E d \in applied : call[d].key = stored.key]_pageVars

\* The leave page's reads push, replace or restore the URL they answer.
LeaveUrlFollowsData == panel = "apply" => UrlFollowsData

\* Nothing stays busy for ever: every submission comes to an end, also when its
\* read is superseded or the page is left, and so does the loading state.
EverythingSettles ==
  /\ \A c \in Calls : submission[c].stage \in {"sent", "reloading"} ~> submission[c].stage = "over"
  /\ Pending ~> ~Pending
=============================================================================
