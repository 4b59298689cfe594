------------------------- MODULE WorkspaceResource -------------------------
(***************************************************************************)
(* useScopedWorkspaceResource of web/src/lib/ui: the data a workspace page *)
(* shows after its first, server-rendered load, the query it answers, the  *)
(* reads in flight and the browser's history.                              *)
(*                                                                         *)
(* A read is started by load, answered by the server at any later time,    *)
(* and settled by the continuation after the await, which runs in one      *)
(* piece.  Answers arrive in any order, or not at all once the read was    *)
(* aborted.  The content of the server is a set of rows.  What load writes *)
(* after the component has unmounted is not shown any more.                *)
(***************************************************************************)
EXTENDS Naturals, Sequences

CONSTANTS
  Queries,       \* filters, tabs and pages of the workspace
  InitialQuery,  \* the query of the server-rendered page
  DefaultQuery,  \* the query with every filter reset
  Elsewhere,     \* the history entry of another page
  Rows,          \* what the server may hold
  MaxLoads       \* bound: reads of one page

ASSUME ResourceAssumption ==
  /\ InitialQuery \in Queries /\ DefaultQuery \in Queries /\ Elsewhere \notin Queries
  /\ MaxLoads \in Nat

VARIABLES
  shown,     \* data and query: what was confirmed last
  notice,    \* how the last read failed: "none", "error" is shown, "unauthorized"
  version,   \* requestVersion
  active,    \* activeRequest: the version of its read, or 0; isPending
  reads,     \* the reads by version
  mounted,   \* the component is mounted
  entries,   \* queries of the history entries
  position,  \* the current entry, which is the URL
  asked,     \* history: the query of the last read, once answered as the answer resolved it
  lostRead   \* history: a read for back or forward was not applied

resourceVars == <<shown, notice, version, active, asked, reads, mounted,
                  entries, position, lostRead>>

NoRead == [stage |-> "none", query |-> InitialQuery, mode |-> "none", rows |-> {}]
Modes == {"push", "replace", "none", "history"}  \* "history" is "none" by popstate

CurrentUrl == entries[position]
Pending == active # 0

\* load up to its await: older reads are aborted by the new version.
Load(query, mode) ==
  /\ version < MaxLoads
  /\ version' = version + 1
  /\ active' = version'
  /\ asked' = query
  /\ reads' = [reads EXCEPT ![version'] =
                 [stage |-> "sent", query |-> query, mode |-> mode, rows |-> {}]]
  /\ notice' = "none"
  /\ lostRead' = (lostRead \/ (Pending /\ reads[active].mode = "history"))
  /\ UNCHANGED <<shown, mounted>>

\* A tab, a filter or a page link is clicked.
Navigate(query) ==
  /\ mounted
  /\ Load(query, "push")
  /\ UNCHANGED <<entries, position>>

\* The Retry button of the error notice.
Retry ==
  /\ mounted /\ notice = "error" /\ ~Pending
  /\ Load(shown.query, "none")
  /\ UNCHANGED <<entries, position>>

\* Back or forward: the URL changes first, then restore reads its query.
PopState(to) ==
  /\ mounted
  /\ to \in 1..Len(entries) /\ to # position
  /\ position' = to
  /\ Load(entries[to], "history")
  /\ UNCHANGED entries

\* A panel reads again after its mutation; its closure may outlive the page.
Reconcile(query, mode) ==
  /\ Load(query, mode)
  /\ UNCHANGED <<entries, position>>

\* The user reloads the page: the server renders the URL's query.
Restart(rows) ==
  /\ mounted
  /\ shown' = [query |-> CurrentUrl, rows |-> rows]
  /\ notice' = "none" /\ version' = 0 /\ active' = 0
  /\ asked' = CurrentUrl
  /\ reads' = [v \in 1..MaxLoads |-> NoRead]
  /\ lostRead' = FALSE
  /\ UNCHANGED <<mounted, entries, position>>

Current(v) == v = version

\* The server answers a read with the rows it holds then; resolveQuery takes the
\* query the page will show from the answer.
ServeRead(v, rows, resolved) ==
  /\ reads[v].stage = "sent"
  /\ reads' = [reads EXCEPT ![v].stage = "served", ![v].rows = rows, ![v].query = resolved]
  /\ asked' = IF Current(v) THEN resolved ELSE asked
  /\ UNCHANGED <<shown, notice, version, active, mounted, entries, position, lostRead>>

\* Faulty variant: every read that ends, ends the pending state.
FinishAny(v) ==
  /\ reads' = [reads EXCEPT ![v] = NoRead]
  /\ active' = 0

\* finally: only the active read ends the pending state.
Finish(v) ==
  /\ reads' = [reads EXCEPT ![v] = NoRead]
  /\ active' = IF active = v THEN 0 ELSE active

\* Faulty variant: replaceState is forgotten.
WriteHistoryPushOnly(mode, query) ==
  /\ entries' = IF mode = "push" THEN Append(SubSeq(entries, 1, position), query) ELSE entries
  /\ position' = IF mode = "push" THEN position + 1 ELSE position

\* pushState and replaceState of the applied query.
WriteHistory(mode, query) ==
  /\ entries' = IF mode = "push" THEN Append(SubSeq(entries, 1, position), query)
                ELSE IF mode = "replace" THEN [entries EXCEPT ![position] = query]
                ELSE entries
  /\ position' = IF mode = "push" THEN position + 1 ELSE position

\* Faulty variant: the answer is applied whatever the version is now.
ApplyAny(v) ==
  LET r == reads[v] IN
  /\ r.stage = "served"
  /\ shown' = [query |-> r.query, rows |-> r.rows]
  /\ WriteHistory(r.mode, r.query)
  /\ Finish(v)
  /\ lostRead' = (lostRead /\ r.mode = "none")
  /\ UNCHANGED <<notice, version, asked, mounted>>

\* The answer of the latest read: data, query, then the URL.
Apply(v) ==
  LET r == reads[v] IN
  /\ r.stage = "served" /\ Current(v)
  /\ shown' = [query |-> r.query, rows |-> r.rows]
  /\ WriteHistory(r.mode, r.query)
  /\ Finish(v)
  /\ lostRead' = (lostRead /\ r.mode = "none")
  /\ UNCHANGED <<notice, version, asked, mounted>>

\* The latest read fails.  A 401 shows no error: it calls onUnauthorized, which
\* opens the login page where a workspace provides it.
Reject(v, failure) ==
  /\ reads[v].stage = "sent" /\ Current(v)
  /\ notice' = failure
  /\ Finish(v)
  /\ lostRead' = (lostRead \/ reads[v].mode = "history")
  /\ UNCHANGED <<shown, version, asked, mounted, entries, position>>

\* An aborted or superseded read ends without an effect.
Discard(v) ==
  /\ reads[v].stage # "none" /\ ~Current(v)
  /\ Finish(v)
  /\ UNCHANGED <<shown, notice, version, asked, mounted, entries, position, lostRead>>

\* Another page of the application is opened and the component unmounts.
Unmount ==
  /\ mounted /\ version < MaxLoads
  /\ mounted' = FALSE
  /\ version' = version + 1
  /\ entries' = Append(SubSeq(entries, 1, position), Elsewhere)
  /\ position' = position + 1
  /\ UNCHANGED <<shown, notice, active, asked, reads, lostRead>>

NotApplied(v) == (\E failure \in {"error", "unauthorized"} : Reject(v, failure)) \/ Discard(v)

Settle(v) == Apply(v) \/ NotApplied(v)

\* The page as the server rendered it.
ResourceInit ==
  /\ shown = [query |-> InitialQuery, rows |-> {}]
  /\ notice = "none" /\ version = 0 /\ active = 0 /\ asked = InitialQuery
  /\ reads = [v \in 1..MaxLoads |-> NoRead]
  /\ mounted = TRUE
  /\ entries = <<InitialQuery>> /\ position = 1
  /\ lostRead = FALSE

ResourceNext ==
  \/ \E q \in Queries : Navigate(q)
  \/ Retry
  \/ \E to \in 1..Len(entries) : PopState(to)
  \/ \E v \in 1..MaxLoads : Settle(v) \/ \E rows \in SUBSET Rows, q \in Queries : ServeRead(v, rows, q)
  \/ \E q \in Queries, mode \in {"replace", "none"} : Reconcile(q, mode)
  \/ \E rows \in SUBSET Rows : Restart(rows)
  \/ Unmount

ResourceSpec == ResourceInit /\ [][ResourceNext]_resourceVars
-----------------------------------------------------------------------------
ResourceTypeOK ==
  /\ shown \in [query : Queries, rows : SUBSET Rows]
  /\ asked \in Queries
  /\ version \in 0..MaxLoads /\ active \in 0..MaxLoads
  /\ reads \in [1..MaxLoads ->
       [stage : {"none", "sent", "served"},
        query : Queries, mode : Modes, rows : SUBSET Rows]]
  /\ notice \in {"none", "error", "unauthorized"} /\ mounted \in BOOLEAN /\ lostRead \in BOOLEAN
  /\ entries \in Seq(Queries \cup {Elsewhere})
  /\ position \in 1..Len(entries)

\* The page shows something it has nothing more to wait for.
Idle == mounted /\ ~Pending /\ notice = "none"

\* "late responses cannot win": a page that is neither loading nor reporting
\* an error shows the answer to the last query that was asked for, however
\* many reads overlapped and in whatever order they were answered.
IdleShowsLastRequest ==
  Idle => shown.query = asked

\* The URL of an idle page names the data it shows, except after a read for
\* back or forward that failed or was superseded: the browser changes the URL
\* before that read and nothing takes the change back.
UrlFollowsData ==
  Idle /\ ~lostRead => CurrentUrl = shown.query
=============================================================================
