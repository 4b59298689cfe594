---------------------- MODULE WorkspaceResourceProofs ----------------------
(***************************************************************************)
(* Proofs about WorkspaceResource for any set of queries, any content of   *)
(* the server and any number of reads.  That an idle page shows the last   *)
(* query rests on what requestVersion and activeRequest have to do with    *)
(* each other while the component is mounted, and on the query of the      *)
(* latest read being the one that was asked for.                           *)
(***************************************************************************)
EXTENDS WorkspaceResource, SequenceTheorems, TLAPS

\* While the page is mounted, it waits for its latest read, or for none when
\* that one has ended.
WaitsForLatest ==
  mounted => /\ active \in {0, version}
             /\ \A v \in 1..MaxLoads : v = version /\ reads[v].stage # "none" => active = v

\* The latest read carries the last query, and there are no later reads.
LatestReadIsAsked ==
  \A v \in 1..MaxLoads :
    /\ v = version /\ reads[v].stage # "none" => reads[v].query = asked
    /\ v > version => reads[v].stage = "none"

\* Every entry of a mounted page's history is one of its own queries.
OwnHistory == mounted => entries \in Seq(Queries)

ResourceInv ==
  ResourceTypeOK /\ WaitsForLatest /\ LatestReadIsAsked /\ OwnHistory /\ IdleShowsLastRequest

\* One read as the type invariant has it.
ReadType == [stage : {"none", "sent", "served"}, query : Queries, mode : Modes, rows : SUBSET Rows]

\* What pushState makes of a history.
LEMMA Push ==
  ASSUME NEW S, NEW s \in Seq(S), NEW p \in 1..Len(s), NEW q \in S
  PROVE  /\ Append(SubSeq(s, 1, p), q) \in Seq(S)
         /\ Len(Append(SubSeq(s, 1, p), q)) = p + 1
PROOF
  <1>1. p \in Int /\ 1 \in Int /\ \A i \in 1..p : s[i] \in S
    BY LenProperties, ElementOfSeq
  <1>2. SubSeq(s, 1, p) \in Seq(S) /\ Len(SubSeq(s, 1, p)) = p
    BY <1>1, SubSeqProperties
  <1>3. QED
    BY <1>2, AppendProperties

\* pushState and replaceState keep a history of queries in S, and the position in it.
LEMMA WriteHistoryType ==
  ASSUME NEW S, entries \in Seq(S), position \in 1..Len(entries), NEW q \in S, NEW mode \in Modes,
         WriteHistory(mode, q)
  PROVE  entries' \in Seq(S) /\ position' \in 1..Len(entries')
PROOF
  <1>1. CASE mode = "push"
    <2>1. entries' = Append(SubSeq(entries, 1, position), q) /\ position' = position + 1
      BY <1>1 DEF WriteHistory
    <2>2. entries' \in Seq(S) /\ Len(entries') = position + 1
      BY <2>1, Push
    <2>3. position \in Nat
      BY LenProperties
    <2>4. QED
      BY <2>1, <2>2, <2>3
  <1>2. CASE mode = "replace"
    <2>1. entries' = [entries EXCEPT ![position] = q] /\ position' = position
      BY <1>2 DEF WriteHistory
    <2>2. QED
      BY <2>1, ExceptSeq
  <1>3. CASE mode \notin {"push", "replace"}
    BY <1>3 DEF WriteHistory
  <1>4. QED
    BY <1>1, <1>2, <1>3

\* The server-rendered page satisfies the invariant.
LEMMA InitResourceInv == ResourceInit => ResourceInv
PROOF
  <1> SUFFICES ASSUME ResourceInit PROVE ResourceInv
    OBVIOUS
  <1> USE ResourceAssumption
  <1>1. entries \in Seq(Queries) /\ Len(entries) = 1
    BY DEF ResourceInit
  <1>2. entries \in Seq(Queries \cup {Elsewhere})
    BY <1>1, SeqMonotonic
  <1>3. ResourceTypeOK
    <2>1. NoRead \in ReadType
      BY DEF NoRead, ReadType, Modes
    <2>2. reads \in [1..MaxLoads -> ReadType]
      BY <2>1 DEF ResourceInit
    <2>3. shown \in [query : Queries, rows : SUBSET Rows]
      BY DEF ResourceInit
    <2>4. version \in 0..MaxLoads /\ active \in 0..MaxLoads /\ position \in 1..Len(entries)
      BY <1>1 DEF ResourceInit
    <2>5. /\ asked \in Queries /\ mounted \in BOOLEAN /\ lostRead \in BOOLEAN
          /\ notice \in {"none", "error", "unauthorized"}
      BY DEF ResourceInit
    <2>6. QED
      BY <1>2, <2>2, <2>3, <2>4, <2>5 DEF ResourceTypeOK, ReadType
  <1>4. WaitsForLatest /\ LatestReadIsAsked /\ IdleShowsLastRequest
    BY DEF ResourceInit, NoRead, WaitsForLatest, LatestReadIsAsked, IdleShowsLastRequest
  <1>5. QED
    BY <1>1, <1>3, <1>4 DEF ResourceInv, OwnHistory

\* load keeps the invariant: its read is the latest one and the page waits for it.
LEMMA LoadKeepsInv ==
  ASSUME ResourceInv, NEW q \in Queries, NEW m \in Modes, Load(q, m),
         entries' = entries, position' \in 1..Len(entries)
  PROVE  ResourceInv'
PROOF
  <1> USE ResourceAssumption DEF ResourceInv
  <1> DEFINE r == [stage |-> "sent", query |-> q, mode |-> m, rows |-> {}]
  <1>1. /\ version' = version + 1 /\ version' \in 1..MaxLoads /\ active' = version' /\ asked' = q
        /\ reads' = [reads EXCEPT ![version'] = r]
        /\ notice' = "none" /\ shown' = shown /\ mounted' = mounted
        /\ lostRead' = (lostRead \/ (Pending /\ reads[active].mode = "history"))
    BY DEF Load, ResourceTypeOK
  <1>2. r \in ReadType /\ r.stage = "sent" /\ r.query = q
    BY DEF ReadType
  <1> HIDE DEF r
  <1>3. reads' \in [1..MaxLoads -> ReadType]
    BY <1>1, <1>2 DEF ResourceTypeOK, ReadType
  <1>4. lostRead' \in BOOLEAN
    BY <1>1
  <1>5. ResourceTypeOK'
    BY <1>1, <1>3, <1>4 DEF ResourceTypeOK, ReadType
  <1>6. LatestReadIsAsked'
    BY <1>1, <1>2 DEF ResourceTypeOK, LatestReadIsAsked
  <1>7. WaitsForLatest' /\ OwnHistory' /\ IdleShowsLastRequest'
    BY <1>1 DEF WaitsForLatest, OwnHistory, IdleShowsLastRequest, Idle, Pending
  <1>8. QED
    BY <1>5, <1>6, <1>7

\* What the end of a read changes of the reads.
LEMMA FinishType ==
  ASSUME ResourceInv, NEW v \in 1..MaxLoads, Finish(v)
  PROVE  /\ reads' \in [1..MaxLoads -> ReadType] /\ active' \in 0..MaxLoads
         /\ reads'[v].stage = "none" /\ \A w \in 1..MaxLoads \ {v} : reads'[w] = reads[w]
PROOF
  <1>1. NoRead \in ReadType /\ NoRead.stage = "none"
    BY ResourceAssumption DEF NoRead, ReadType, Modes
  <1>2. reads' = [reads EXCEPT ![v] = NoRead] /\ active' \in {0, active}
    BY DEF Finish
  <1>3. reads \in [1..MaxLoads -> ReadType] /\ active \in 0..MaxLoads /\ 0 \in 0..MaxLoads
    BY ResourceAssumption DEF ResourceInv, ResourceTypeOK, ReadType
  <1>4. QED
    BY <1>1, <1>2, <1>3

\* Only the latest read is applied, so the page shows what was asked for.
LEMMA ApplyKeepsInv ==
  ASSUME ResourceInv, NEW v \in 1..MaxLoads, Apply(v)
  PROVE  ResourceInv'
PROOF
  <1> USE ResourceAssumption DEF ResourceInv
  <1> DEFINE r == reads[v]
  <1>1. /\ r.stage = "served" /\ v = version
        /\ shown' = [query |-> r.query, rows |-> r.rows]
        /\ WriteHistory(r.mode, r.query) /\ Finish(v)
        /\ lostRead' = (lostRead /\ r.mode = "none")
        /\ notice' = notice /\ version' = version /\ asked' = asked /\ mounted' = mounted
    BY DEF Apply, Current
  <1>2. r.query \in Queries /\ r.rows \in SUBSET Rows /\ r.mode \in Modes /\ r.query = asked
    BY <1>1 DEF ResourceTypeOK, LatestReadIsAsked
  <1>3. /\ reads' \in [1..MaxLoads -> ReadType] /\ active' \in 0..MaxLoads
        /\ reads'[v].stage = "none" /\ \A w \in 1..MaxLoads \ {v} : reads'[w] = reads[w]
    BY <1>1, FinishType
  <1>4. entries' \in Seq(Queries \cup {Elsewhere}) /\ position' \in 1..Len(entries')
    BY <1>1, <1>2, WriteHistoryType DEF ResourceTypeOK
  <1>5. mounted => entries' \in Seq(Queries)
    BY <1>1, <1>2, WriteHistoryType DEF ResourceTypeOK, OwnHistory
  <1>6. shown' \in [query : Queries, rows : SUBSET Rows] /\ shown'.query = asked
    BY <1>1, <1>2
  <1>7. lostRead' \in BOOLEAN
    BY <1>1
  <1>8. ResourceTypeOK'
    BY <1>1, <1>3, <1>4, <1>6, <1>7 DEF ResourceTypeOK, ReadType
  <1>9. WaitsForLatest' /\ LatestReadIsAsked'
    BY <1>1, <1>3 DEF WaitsForLatest, LatestReadIsAsked, Finish
  <1>10. OwnHistory' /\ IdleShowsLastRequest'
    BY <1>1, <1>5, <1>6 DEF OwnHistory, IdleShowsLastRequest
  <1>11. QED
    BY <1>8, <1>9, <1>10

\* A read that fails leaves a notice; one that was superseded leaves nothing.
LEMMA NotAppliedKeepsInv ==
  ASSUME ResourceInv, NEW v \in 1..MaxLoads, NotApplied(v)
  PROVE  ResourceInv'
PROOF
  <1> USE ResourceAssumption DEF ResourceInv
  <1>1. /\ Finish(v) /\ shown' = shown /\ version' = version /\ asked' = asked
        /\ mounted' = mounted /\ entries' = entries /\ position' = position
        /\ notice' \in {"none", "error", "unauthorized"} /\ lostRead' \in BOOLEAN
    BY DEF NotApplied, Reject, Discard, ResourceTypeOK
  <1>2. (v = version /\ notice' # "none") \/ (v # version /\ notice' = notice)
    <2>1. CASE \E failure \in {"error", "unauthorized"} : Reject(v, failure)
      BY <2>1 DEF Reject, Current
    <2>2. CASE Discard(v)
      BY <2>2 DEF Discard, Current
    <2>3. QED
      BY <2>1, <2>2 DEF NotApplied
  <1>3. /\ reads' \in [1..MaxLoads -> ReadType] /\ active' \in 0..MaxLoads
        /\ reads'[v].stage = "none" /\ \A w \in 1..MaxLoads \ {v} : reads'[w] = reads[w]
    BY <1>1, FinishType
  <1>4. ResourceTypeOK'
    BY <1>1, <1>3 DEF ResourceTypeOK, ReadType
  <1>5. WaitsForLatest' /\ LatestReadIsAsked' /\ OwnHistory'
    BY <1>1, <1>3 DEF WaitsForLatest, LatestReadIsAsked, OwnHistory, Finish
  <1>6. IdleShowsLastRequest'
    <2>1. mounted /\ v # version => active' = active
      BY <1>1 DEF Finish, WaitsForLatest
    <2>2. QED
      BY <1>1, <1>2, <2>1 DEF IdleShowsLastRequest, Idle, Pending
  <1>7. QED
    BY <1>4, <1>5, <1>6

\* An answer on its way changes nothing on the page, which waits for it if it
\* is the answer of the latest read.
LEMMA ServeReadKeepsInv ==
  ASSUME ResourceInv, NEW v \in 1..MaxLoads, NEW rows \in SUBSET Rows, NEW q \in Queries,
         ServeRead(v, rows, q)
  PROVE  ResourceInv'
PROOF
  <1> USE ResourceAssumption DEF ResourceInv
  <1> DEFINE r == [reads[v] EXCEPT !.stage = "served", !.rows = rows, !.query = q]
  <1>1. reads[v] \in ReadType
    BY DEF ResourceTypeOK, ReadType
  <1>2. r \in ReadType /\ r.query = q
    BY <1>1 DEF ReadType
  <1>3. /\ reads' = [reads EXCEPT ![v] = r] /\ reads[v].stage = "sent"
        /\ asked' = IF v = version THEN q ELSE asked
        /\ UNCHANGED <<shown, notice, version, active, mounted, entries, position, lostRead>>
    BY DEF ServeRead, Current
  <1> HIDE DEF r
  <1>4. reads' \in [1..MaxLoads -> ReadType]
    BY <1>2, <1>3 DEF ResourceTypeOK, ReadType
  <1>5. ResourceTypeOK'
    <2>1. asked' \in Queries
      BY <1>3 DEF ResourceTypeOK
    <2>2. QED
      BY <1>3, <1>4, <2>1 DEF ResourceTypeOK, ReadType
  <1>6. LatestReadIsAsked'
    BY <1>2, <1>3 DEF LatestReadIsAsked, ResourceTypeOK
  <1>7. WaitsForLatest' /\ OwnHistory'
    BY <1>3 DEF WaitsForLatest, OwnHistory, ResourceTypeOK
  <1>8. IdleShowsLastRequest'
    <2>1. mounted /\ v = version => Pending
      BY <1>3 DEF WaitsForLatest, Pending
    <2>2. QED
      BY <1>3, <2>1 DEF IdleShowsLastRequest, Idle, Pending
  <1>9. QED
    BY <1>5, <1>6, <1>7, <1>8

\* A reload starts from the URL, which names one of the page's own queries.
LEMMA RestartKeepsInv ==
  ASSUME ResourceInv, NEW rows \in SUBSET Rows, Restart(rows)
  PROVE  ResourceInv'
PROOF
  <1> USE ResourceAssumption DEF ResourceInv
  <1>1. CurrentUrl \in Queries
    BY ElementOfSeq DEF Restart, OwnHistory, ResourceTypeOK, CurrentUrl
  <1>2. /\ mounted /\ mounted' = mounted /\ entries' = entries /\ position' = position
        /\ shown' = [query |-> CurrentUrl, rows |-> rows] /\ asked' = CurrentUrl
        /\ notice' = "none" /\ version' = 0 /\ active' = 0 /\ lostRead' = FALSE
        /\ reads' = [v \in 1..MaxLoads |-> NoRead]
    BY DEF Restart
  <1>3. NoRead \in ReadType /\ NoRead.stage = "none"
    BY DEF NoRead, ReadType, Modes
  <1>4. reads' \in [1..MaxLoads -> ReadType] /\ \A v \in 1..MaxLoads : reads'[v].stage = "none"
    BY <1>2, <1>3
  <1>5. shown' \in [query : Queries, rows : SUBSET Rows] /\ shown'.query = asked'
    BY <1>1, <1>2
  <1>6. ResourceTypeOK'
    <2>1. version' \in 0..MaxLoads /\ active' \in 0..MaxLoads
      BY <1>2
    <2>2. entries' \in Seq(Queries \cup {Elsewhere}) /\ position' \in 1..Len(entries')
      BY <1>2 DEF ResourceTypeOK
    <2>3. QED
      BY <1>1, <1>2, <1>4, <1>5, <2>1, <2>2 DEF ResourceTypeOK, ReadType
  <1>7. WaitsForLatest' /\ LatestReadIsAsked' /\ OwnHistory' /\ IdleShowsLastRequest'
    BY <1>2, <1>4, <1>5 DEF WaitsForLatest, LatestReadIsAsked, OwnHistory, IdleShowsLastRequest
  <1>8. QED
    BY <1>6, <1>7

\* After unmounting nothing is claimed of the page.
LEMMA UnmountKeepsInv ==
  ASSUME ResourceInv, Unmount
  PROVE  ResourceInv'
PROOF
  <1> USE ResourceAssumption DEF ResourceInv
  <1>1. /\ mounted' = FALSE /\ version' = version + 1 /\ version' \in 1..MaxLoads
        /\ UNCHANGED <<shown, notice, active, asked, reads, lostRead>>
    BY DEF Unmount, ResourceTypeOK
  <1>2. entries' \in Seq(Queries \cup {Elsewhere}) /\ Len(entries') = position + 1
        /\ position' = position + 1
    BY Push DEF Unmount, ResourceTypeOK
  <1>3. position' \in 1..Len(entries')
    BY <1>2, LenProperties DEF ResourceTypeOK
  <1>4. ResourceTypeOK'
    <2>1. version' \in 0..MaxLoads
      BY <1>1
    <2>2. mounted' \in BOOLEAN
      BY <1>1
    <2>3. QED
      BY <1>1, <1>2, <1>3, <2>1, <2>2 DEF ResourceTypeOK
  <1>5. LatestReadIsAsked'
    BY <1>1 DEF LatestReadIsAsked, ResourceTypeOK
  <1>6. WaitsForLatest' /\ OwnHistory' /\ IdleShowsLastRequest'
    BY <1>1 DEF WaitsForLatest, OwnHistory, IdleShowsLastRequest, Idle
  <1>7. QED
    BY <1>4, <1>5, <1>6

\* Every step of the hook keeps the invariant.
LEMMA NextResourceInv == ResourceInv /\ [ResourceNext]_resourceVars => ResourceInv'
PROOF
  <1> SUFFICES ASSUME ResourceInv, [ResourceNext]_resourceVars PROVE ResourceInv'
    OBVIOUS
  <1>1. ASSUME NEW q \in Queries, Navigate(q) PROVE ResourceInv'
    <2>1. "push" \in Modes /\ position \in 1..Len(entries)
      BY DEF Modes, ResourceInv, ResourceTypeOK
    <2>2. QED
      BY <1>1, <2>1, LoadKeepsInv DEF Navigate
  <1>2. ASSUME Retry PROVE ResourceInv'
    <2>1. "none" \in Modes /\ position \in 1..Len(entries) /\ shown.query \in Queries
      BY DEF Modes, ResourceInv, ResourceTypeOK
    <2>2. QED
      BY <1>2, <2>1, LoadKeepsInv DEF Retry
  <1>3. ASSUME NEW to \in 1..Len(entries), PopState(to) PROVE ResourceInv'
    <2>1. "history" \in Modes /\ entries[to] \in Queries
      BY <1>3, ElementOfSeq DEF Modes, PopState, ResourceInv, OwnHistory
    <2>2. QED
      BY <1>3, <2>1, LoadKeepsInv DEF PopState
  <1>4. ASSUME NEW v \in 1..MaxLoads, Settle(v) PROVE ResourceInv'
    BY <1>4, ApplyKeepsInv, NotAppliedKeepsInv DEF Settle
  <1>5. ASSUME NEW q \in Queries, NEW m \in {"replace", "none"}, Reconcile(q, m) PROVE ResourceInv'
    <2>1. m \in Modes /\ position \in 1..Len(entries)
      BY DEF Modes, ResourceInv, ResourceTypeOK
    <2>2. QED
      BY <1>5, <2>1, LoadKeepsInv DEF Reconcile
  <1>6. CASE UNCHANGED resourceVars
    BY <1>6 DEF resourceVars, ResourceInv, ResourceTypeOK, WaitsForLatest, LatestReadIsAsked,
                OwnHistory, IdleShowsLastRequest, Idle, Pending
  <1>7. QED
    BY <1>1, <1>2, <1>3, <1>4, <1>5, <1>6, ServeReadKeepsInv, RestartKeepsInv, UnmountKeepsInv
       DEF ResourceNext

\* The invariant holds throughout.
THEOREM ResourceInvariant == ResourceSpec => []ResourceInv
  BY InitResourceInv, NextResourceInv, PTL DEF ResourceSpec

\* useScopedWorkspaceResource keeps its state well formed.
THEOREM ResourceTypeCorrect == ResourceSpec => []ResourceTypeOK
PROOF
  <1>1. ResourceInv => ResourceTypeOK
    BY DEF ResourceInv
  <1>2. QED
    BY <1>1, ResourceInvariant, PTL

\* However many reads of useScopedWorkspaceResource overlap, and in whatever
\* order they are answered, fail or are superseded, an idle page shows the
\* query it asked for last.
THEOREM LastRequestWins == ResourceSpec => []IdleShowsLastRequest
PROOF
  <1>1. ResourceInv => IdleShowsLastRequest
    BY DEF ResourceInv
  <1>2. QED
    BY <1>1, ResourceInvariant, PTL
=============================================================================
