--------------------- MODULE ResolutionLifecycle_proofs ---------------------
(***************************************************************************)
(* Proofs about ResolutionLifecycle, for every set of markets and of       *)
(* requests in progress and every bound on tries, rows and failures.       *)
(***************************************************************************)
EXTENDS ResolutionLifecycle, Integers, FiniteSetTheorems, SequenceTheorems, TLAPS

\* Rows refer to rows that exist, and requests to rows of their market.
RowsExist ==
  /\ \A d \in 1 .. Len(disputes) : disputes[d].row \in 1 .. Len(resolutions)
  /\ \A q \in Inserting("file") :
       request[q].row \in 1 .. Len(resolutions) /\ resolutions[request[q].row].market = request[q].market
  /\ \A q \in Requests : request[q].route \in {"admin", "agent"} =>
       /\ request[q].row \in 1 .. Len(disputes)
       /\ resolutions[disputes[request[q].row].row].market = request[q].market

\* A review makes the statements its route has, and a new result is one.
InOrder ==
  \A q \in Requests :
    /\ request[q].route = "admin" => request[q].at # "new"
    /\ request[q].at = "new" => request[q].says \in Results

\* A cron job between two statements on a market knows which.
JobsNamed ==
  /\ scan.at = "publish" => scan.market \in Markets
  /\ sweep.at = "resolutions" => sweep.market \in Markets

\* The bounds leave room for the rows that are still to come.
RoomLeft ==
  /\ Len(resolutions) + Cardinality(Inserting("report")) <= MaxRulings
  /\ Len(disputes) + Cardinality(Inserting("file")) <= MaxDisputes

IInv == TypeOK /\ RowsExist /\ InOrder /\ JobsNamed /\ RoomLeft

-----------------------------------------------------------------------------
(* A request that begins, goes on or ends.                                   *)

\* What one request does to the set of those that still have to insert.
LEMMA InsertingSets ==
  ASSUME TypeOK, NEW q \in Requests, NEW r, request' = [request EXCEPT ![q] = r], NEW route
  PROVE  /\ IsFiniteSet(Inserting(route)) /\ Cardinality(Inserting(route)) \in Nat
         /\ Inserting(route)' = IF r.route = route /\ r.at = "insert"
                                THEN Inserting(route) \cup {q} ELSE Inserting(route) \ {q}
<1>1. Inserting(route) \in SUBSET Requests BY DEF Inserting
<1>2. IsFiniteSet(Inserting(route)) BY <1>1, LifecycleBounds, FS_Subset
<1>3. Cardinality(Inserting(route)) \in Nat BY <1>2, FS_CardinalityType
<1>4. DOMAIN request = Requests BY DEF TypeOK
<1>5. \A p \in Requests : request'[p] = IF p = q THEN r ELSE request[p] BY <1>4
<1>6. Inserting(route)' = IF r.route = route /\ r.at = "insert"
                          THEN Inserting(route) \cup {q} ELSE Inserting(route) \ {q}
  BY <1>5 DEF Inserting
<1> QED BY <1>2, <1>3, <1>6

\* Its effect on their number.
LEMMA InsertingCounts ==
  ASSUME TypeOK, NEW q \in Requests, NEW r, request' = [request EXCEPT ![q] = r], NEW route
  PROVE  /\ Cardinality(Inserting(route)) \in Nat
         /\ Cardinality(Inserting(route)') =
              Cardinality(Inserting(route))
              + (IF r.route = route /\ r.at = "insert"
                 THEN IF q \in Inserting(route) THEN 0 ELSE 1
                 ELSE IF q \in Inserting(route) THEN -1 ELSE 0)
<1>1. /\ IsFiniteSet(Inserting(route)) /\ Cardinality(Inserting(route)) \in Nat
      /\ Inserting(route)' = IF r.route = route /\ r.at = "insert"
                             THEN Inserting(route) \cup {q} ELSE Inserting(route) \ {q}
  BY InsertingSets
<1>2. Cardinality(Inserting(route) \cup {q}) =
        IF q \in Inserting(route) THEN Cardinality(Inserting(route))
        ELSE Cardinality(Inserting(route)) + 1
  BY <1>1, FS_AddElement
<1>3. Cardinality(Inserting(route) \ {q}) =
        IF q \in Inserting(route) THEN Cardinality(Inserting(route)) - 1
        ELSE Cardinality(Inserting(route))
  BY <1>1, FS_RemoveElement
<1> QED BY <1>1, <1>2, <1>3
-----------------------------------------------------------------------------
(* Type correctness and what it rests on.                                    *)

\* A request takes one of the shapes of TypeOK.
RequestShapes == {Idle} \cup NewRulings \cup NewDisputes \cup Reviews

\* What is left of a cron job's work is a job again, at the step named.
LEMMA OnwardJob ==
  ASSUME NEW steps, NEW step \in steps, NEW job \in Jobs(steps), job # Asleep
  PROVE  Onward(job, step) \in Jobs(steps) /\ Onward(job, step).at \in {step, "idle"}
<1>1. job \in [at : steps, todo : SUBSET Markets, market : Markets \cup {"none"}] BY DEF Jobs
<1>2. [job EXCEPT !.at = step, !.market = "none"] \in
        [at : steps, todo : SUBSET Markets, market : Markets \cup {"none"}]
  BY <1>1
<1>3. [job EXCEPT !.at = step, !.market = "none"].at = step BY <1>1
<1> QED BY <1>2, <1>3 DEF Onward, Jobs, Asleep

\* Time passes: no row, message or request changes.
LEMMA ClockSteps ==
  ASSUME IInv, \/ \E m \in Markets : Expire(m)
               \/ \E r \in 1 .. Len(resolutions) : WindowEnds(r)
  PROVE  IInv'
<1> USE DEF IInv, TypeOK, tables, broker, cron, history
<1>1. UNCHANGED <<status, resolutions, disputes, queue, timers, dead, scan, sweep, request,
                  failures, mishaps>>
  BY DEF Expire, WindowEnds
<1>2. expired' \subseteq Markets BY DEF Expire, WindowEnds
<1>3. closed' \subseteq 1 .. Len(resolutions) BY DEF Expire, WindowEnds
<1>4. TypeOK' BY <1>1, <1>2, <1>3
<1>5. Inserting("file")' = Inserting("file") /\ Inserting("report")' = Inserting("report")
  BY <1>1 DEF Inserting
<1> QED BY <1>1, <1>4, <1>5 DEF RowsExist, InOrder, JobsNamed, RoomLeft

\* The scan for expired markets, whole or cut off.
LEMMA ScanSteps ==
  ASSUME IInv, Scan \/ ScanFails
  PROVE  IInv'
<1> USE DEF IInv, TypeOK, tables, clock, broker, cron, history
<1>1. UNCHANGED <<resolutions, disputes, expired, closed, timers, dead, sweep, request>>
  BY DEF Scan, StartScan, MarkResolving, PublishMarketResolve, ScanFails
<1>2. Inserting("file")' = Inserting("file") /\ Inserting("report")' = Inserting("report")
  BY <1>1 DEF Inserting
<1>3. CASE StartScan
  <2>1. scan' \in Jobs({"mark", "publish"}) /\ scan'.at = "mark"
    BY <1>3 DEF StartScan, Jobs, Asleep
  <2>2. TypeOK' BY <1>1, <1>3, <2>1 DEF StartScan
  <2> QED BY <1>1, <1>2, <1>3, <2>1, <2>2 DEF RowsExist, InOrder, JobsNamed, RoomLeft
<1>4. CASE MarkResolving
  <2>1. scan' \in Jobs({"mark", "publish"}) /\ scan'.at = "publish" /\ scan'.market \in Markets
    BY <1>4 DEF MarkResolving, Jobs, Asleep
  <2>2. status' \in [Markets -> Statuses]
    BY <1>4 DEF MarkResolving, Statuses
  <2>3. TypeOK' BY <1>1, <1>4, <2>1, <2>2 DEF MarkResolving
  <2> QED BY <1>1, <1>2, <1>4, <2>1, <2>3 DEF RowsExist, InOrder, JobsNamed, RoomLeft
<1>5. CASE PublishMarketResolve
  <2>1. scan' \in Jobs({"mark", "publish"}) /\ scan'.at # "publish"
    BY <1>5, scan # Asleep, OnwardJob DEF PublishMarketResolve, Asleep
  <2>2. queue' \subseteq Messages
    BY <1>5, LifecycleBounds DEF PublishMarketResolve, Messages, JobsNamed
  <2>3. TypeOK' BY <1>1, <1>5, <2>1, <2>2 DEF PublishMarketResolve
  <2> QED BY <1>1, <1>2, <1>5, <2>1, <2>3 DEF PublishMarketResolve, RowsExist, InOrder, JobsNamed, RoomLeft
<1>6. CASE ScanFails
  <2>1. mishaps' \subseteq Kinds \X (Markets \cup 1 .. MaxDisputes)
    BY <1>6 DEF ScanFails, JobsNamed, Kinds
  <2>2. scan' = Asleep /\ failures' \in 0 .. MaxFailures
    BY <1>6, LifecycleBounds DEF ScanFails
  <2>3. TypeOK' BY <1>1, <1>6, <2>1, <2>2 DEF ScanFails, Jobs
  <2> QED BY <1>1, <1>2, <1>6, <2>2, <2>3 DEF ScanFails, RowsExist, InOrder, JobsNamed, RoomLeft, Asleep
<1> QED BY <1>3, <1>4, <1>5, <1>6 DEF Scan

\* The resolver and its retries.
LEMMA ResolverSteps ==
  ASSUME IInv, Resolver \/ ResolverStops
  PROVE  IInv'
<1> USE DEF IInv, TypeOK, tables, clock, cron, history
<1>1. UNCHANGED <<status, resolutions, disputes, expired, closed, scan, sweep, request>>
  BY DEF Resolver, ResolverReturns, ResolverThrows, ResolverRetries, ResolverStops
<1>2. Inserting("file")' = Inserting("file") /\ Inserting("report")' = Inserting("report")
  BY <1>1 DEF Inserting
<1>3. queue' \subseteq Messages /\ timers' \subseteq Messages /\ dead' \subseteq Messages
  <2>1. ASSUME NEW msg \in Messages, msg.tries < MaxTries
        PROVE  [msg EXCEPT !.tries = @ + 1] \in Messages
    BY <2>1, LifecycleBounds DEF Messages
  <2> QED BY <2>1 DEF Resolver, ResolverReturns, ResolverThrows, ResolverRetries, ResolverStops
<1>4. failures' \in 0 .. MaxFailures
  BY LifecycleBounds DEF Resolver, ResolverReturns, ResolverThrows, ResolverRetries, ResolverStops
<1>5. mishaps' \subseteq Kinds \X (Markets \cup 1 .. MaxDisputes)
  <2>1. \A msg \in Messages : <<"retry", msg.market>> \in Kinds \X (Markets \cup 1 .. MaxDisputes)
    BY DEF Messages, Kinds
  <2> QED BY <2>1 DEF Resolver, ResolverReturns, ResolverThrows, ResolverRetries, ResolverStops
<1>6. TypeOK' BY <1>1, <1>3, <1>4, <1>5
<1> QED BY <1>1, <1>2, <1>6 DEF RowsExist, InOrder, JobsNamed, RoomLeft
\* The sweep writes statuses only.
LEMMA SweptRows ==
  ASSUME resolutions \in Seq(Resolutions), NEW rs,
         NEW closing \in SUBSET (1 .. Len(resolutions)),
         rs = [r \in 1 .. Len(resolutions) |->
                IF r \in closing THEN [resolutions[r] EXCEPT !.status = "finalized"] ELSE resolutions[r]]
  PROVE  /\ rs \in Seq(Resolutions) /\ Len(rs) = Len(resolutions)
         /\ \A r \in 1 .. Len(resolutions) :
              /\ rs[r].market = resolutions[r].market
              /\ rs[r].result = resolutions[r].result /\ rs[r].reported = resolutions[r].reported
<1>1. Len(resolutions) \in Nat OBVIOUS
<1>2. \A r \in 1 .. Len(resolutions) : resolutions[r] \in Resolutions BY ElementOfSeq
<1>3. ASSUME NEW r \in 1 .. Len(resolutions)
      PROVE  /\ rs[r] \in Resolutions /\ rs[r].market = resolutions[r].market
             /\ rs[r].result = resolutions[r].result /\ rs[r].reported = resolutions[r].reported
  <2>1. resolutions[r] \in Resolutions BY <1>2
  <2>2. rs[r] = IF r \in closing THEN [resolutions[r] EXCEPT !.status = "finalized"] ELSE resolutions[r]
    OBVIOUS
  <2> QED BY <2>1, <2>2 DEF Resolutions
<1>4. rs \in [1 .. Len(resolutions) -> Resolutions] BY <1>3
<1> QED BY <1>1, <1>3, <1>4

\* The finalization, whole or cut off.
LEMMA SweepSteps ==
  ASSUME IInv, Sweep \/ SweepFails
  PROVE  IInv'
<1> USE DEF IInv, TypeOK, tables, clock, broker, cron, history
<1>1. UNCHANGED <<disputes, expired, closed, queue, timers, dead, scan, request>>
  BY DEF Sweep, StartSweep, SweepMarket, SweepResolutions, SweepFails
<1>2. Inserting("file")' = Inserting("file") /\ Inserting("report")' = Inserting("report")
  BY <1>1 DEF Inserting
<1>3. CASE StartSweep
  <2>1. sweep' \in Jobs({"market", "resolutions"}) /\ sweep'.at = "market"
    BY <1>3 DEF StartSweep, Jobs, Asleep
  <2>2. TypeOK' BY <1>1, <1>3, <2>1 DEF StartSweep
  <2> QED BY <1>1, <1>2, <1>3, <2>1, <2>2 DEF StartSweep, RowsExist, InOrder, JobsNamed, RoomLeft
<1>4. CASE SweepMarket
  <2>1. sweep' \in Jobs({"market", "resolutions"}) /\ sweep'.market \in Markets
    BY <1>4 DEF SweepMarket, Jobs, Asleep
  <2>2. status' \in [Markets -> Statuses]
    BY <1>4 DEF SweepMarket, Statuses
  <2>3. TypeOK' BY <1>1, <1>4, <2>1, <2>2 DEF SweepMarket
  <2> QED BY <1>1, <1>2, <1>4, <2>1, <2>3 DEF SweepMarket, RowsExist, InOrder, JobsNamed, RoomLeft
<1>5. CASE SweepResolutions
  <2>1. sweep' \in Jobs({"market", "resolutions"}) /\ sweep'.at # "resolutions"
    BY <1>5, sweep # Asleep, OnwardJob DEF SweepResolutions, Asleep
  <2>2. /\ resolutions' \in Seq(Resolutions) /\ Len(resolutions') = Len(resolutions)
        /\ \A r \in 1 .. Len(resolutions) : resolutions'[r].market = resolutions[r].market
    BY <1>5, Rows(sweep.market) \in SUBSET (1 .. Len(resolutions)), SweptRows DEF SweepResolutions, Rows
  <2>3. TypeOK' BY <1>1, <1>5, <2>1, <2>2 DEF SweepResolutions
  <2>4. RowsExist'
    <3>1. \A d \in 1 .. Len(disputes) : disputes[d].row \in 1 .. Len(resolutions) BY DEF RowsExist
    <3> QED BY <1>1, <1>2, <2>2, <3>1 DEF RowsExist, Inserting
  <2> QED BY <1>1, <1>2, <1>5, <2>1, <2>2, <2>3, <2>4 DEF SweepResolutions, InOrder, JobsNamed, RoomLeft
<1>6. CASE SweepFails
  <2>1. mishaps' \subseteq Kinds \X (Markets \cup 1 .. MaxDisputes)
    BY <1>6 DEF SweepFails, JobsNamed, Kinds
  <2>2. sweep' = Asleep /\ failures' \in 0 .. MaxFailures
    BY <1>6, LifecycleBounds DEF SweepFails
  <2>3. TypeOK' BY <1>1, <1>6, <2>1, <2>2 DEF SweepFails, Jobs
  <2> QED BY <1>1, <1>2, <1>6, <2>2, <2>3 DEF SweepFails, RowsExist, InOrder, JobsNamed, RoomLeft, Asleep
<1> QED BY <1>3, <1>4, <1>5, <1>6 DEF Sweep

\* A request that does not begin or insert: the rows stay where they are, and
\* it ends or goes on with what it is about.
LEMMA GoingOn ==
  ASSUME IInv, NEW q \in Requests, NEW r, request' = [request EXCEPT ![q] = r],
         \/ r = Idle
         \/ /\ r \in Reviews /\ r.at # "new" /\ request[q].route = r.route
            /\ r.row = request[q].row /\ r.market = request[q].market,
         resolutions' \in Seq(Resolutions), Len(resolutions') = Len(resolutions),
         \A i \in 1 .. Len(resolutions) : resolutions'[i].market = resolutions[i].market,
         disputes' \in Seq(Disputes), Len(disputes') = Len(disputes),
         \A i \in 1 .. Len(disputes) : disputes'[i].row = disputes[i].row,
         status' \in [Markets -> Statuses], UNCHANGED <<clock, broker, cron>>,
         failures' \in 0 .. MaxFailures,
         mishaps' \subseteq Kinds \X (Markets \cup 1 .. MaxDisputes)
  PROVE  IInv'
<1> USE DEF IInv
<1>1. DOMAIN request = Requests BY DEF TypeOK
<1>2. \A p \in Requests : request'[p] = IF p = q THEN r ELSE request[p] BY <1>1
<1>3. r \in RequestShapes BY DEF RequestShapes
<1>4. ~(r.at = "insert") BY DEF Idle, Reviews
<1>5. request' \in [Requests -> RequestShapes] BY <1>3 DEF TypeOK, RequestShapes
<1>6. TypeOK' BY <1>5 DEF TypeOK, RequestShapes, clock, broker, cron
<1>7. Inserting("file")' \subseteq Inserting("file") \ {q}
  BY <1>2, <1>4 DEF Inserting
<1>8. RowsExist'
  <2>1. \A d \in 1 .. Len(disputes)' : disputes'[d].row \in 1 .. Len(resolutions)'
    BY DEF RowsExist
  <2>2. \A p \in Inserting("file")' :
          /\ request'[p].row \in 1 .. Len(resolutions)'
          /\ resolutions'[request'[p].row].market = request'[p].market
    BY <1>2, <1>7 DEF RowsExist, Inserting
  <2>3. ASSUME NEW p \in Requests, request'[p].route \in {"admin", "agent"}
        PROVE  /\ request'[p].row \in 1 .. Len(disputes)'
               /\ resolutions'[disputes'[request'[p].row].row].market = request'[p].market
    <3>1. /\ request[p].route \in {"admin", "agent"}
          /\ request'[p].row = request[p].row /\ request'[p].market = request[p].market
      BY <1>2, <2>3 DEF Idle
    <3>2. /\ request[p].row \in 1 .. Len(disputes)
          /\ disputes[request[p].row].row \in 1 .. Len(resolutions)
          /\ resolutions[disputes[request[p].row].row].market = request[p].market
      BY <3>1 DEF RowsExist
    <3> QED BY <3>1, <3>2
  <2> QED BY <2>1, <2>2, <2>3 DEF RowsExist
<1>9. InOrder' BY <1>2 DEF InOrder, Idle, TypeOK
<1>10. JobsNamed' BY DEF JobsNamed, cron
<1>11. RoomLeft'
  <2>1. ASSUME NEW route PROVE /\ Cardinality(Inserting(route)') <= Cardinality(Inserting(route))
                               /\ Cardinality(Inserting(route)) \in Nat
                               /\ Cardinality(Inserting(route)') \in Int
    <3>1. /\ Cardinality(Inserting(route)) \in Nat
          /\ Cardinality(Inserting(route)') =
               Cardinality(Inserting(route))
               + (IF r.route = route /\ r.at = "insert"
                  THEN IF q \in Inserting(route) THEN 0 ELSE 1
                  ELSE IF q \in Inserting(route) THEN -1 ELSE 0)
      BY InsertingCounts
    <3> QED BY <1>4, <3>1
  <2>2. Len(resolutions) \in Nat /\ Len(disputes) \in Nat BY DEF TypeOK
  <2> QED BY <2>1, <2>2, LifecycleBounds DEF RoomLeft
<1> QED BY <1>6, <1>8, <1>9, <1>10, <1>11

\* A review that makes a statement ends or goes on to another.
LEMMA AdvanceGoesOn ==
  ASSUME IInv, NEW q \in Requests, request[q].route \in {"admin", "agent"}, Advance(q)
  PROVE  \E r : /\ request' = [request EXCEPT ![q] = r]
               /\ \/ r = Idle
                  \/ /\ r \in Reviews /\ r.at # "new" /\ request[q].route = r.route
                     /\ r.row = request[q].row /\ r.market = request[q].market
<1> USE DEF IInv
<1>1. request[q] \in Reviews
  BY DEF TypeOK, Idle, NewRulings, NewDisputes
<1> DEFINE next == After[request[q].route][request[q].at]
           r == IF next = "done" THEN Idle ELSE [request[q] EXCEPT !.at = next]
<1>2. request[q].route = "admin" => request[q].at # "new" BY DEF InOrder
<1>3. next \in {"dispute", "resolution", "market", "done"}
  BY <1>1, <1>2 DEF After, Reviews
<1>4. request' = [request EXCEPT ![q] = r] BY DEF Advance
<1>5. CASE next = "done" BY <1>4, <1>5
<1>6. CASE next # "done"
  <2>1. next \in {"dispute", "resolution", "market"} BY <1>3, <1>6
  <2> HIDE DEF next
  <2>2. /\ [request[q] EXCEPT !.at = next] \in Reviews
        /\ [request[q] EXCEPT !.at = next].at = next
        /\ [request[q] EXCEPT !.at = next].route = request[q].route
        /\ [request[q] EXCEPT !.at = next].row = request[q].row
        /\ [request[q] EXCEPT !.at = next].market = request[q].market
    BY <1>1, <2>1 DEF Reviews
  <2> QED BY <1>4, <1>6, <2>1, <2>2
<1> QED BY <1>5, <1>6

\* A row of resolutions is changed in place.
LEMMA ResolutionChanged ==
  ASSUME resolutions \in Seq(Resolutions), NEW i, NEW e,
         i \in 1 .. Len(resolutions) => e \in Resolutions /\ e.market = resolutions[i].market,
         resolutions' = [resolutions EXCEPT ![i] = e]
  PROVE  /\ resolutions' \in Seq(Resolutions) /\ Len(resolutions') = Len(resolutions)
         /\ \A r \in 1 .. Len(resolutions) : resolutions'[r].market = resolutions[r].market
<1>1. CASE i \in 1 .. Len(resolutions)
  <2>1. /\ [resolutions EXCEPT ![i] = e] \in Seq(Resolutions)
        /\ Len([resolutions EXCEPT ![i] = e]) = Len(resolutions)
        /\ \A j \in 1 .. Len(resolutions) :
             [resolutions EXCEPT ![i] = e][j] = IF j = i THEN e ELSE resolutions[j]
    BY <1>1, ExceptSeq
  <2> QED BY <1>1, <2>1
<1>2. CASE i \notin 1 .. Len(resolutions)
  <2>1. DOMAIN resolutions = 1 .. Len(resolutions) BY LenProperties
  <2>2. resolutions = [r \in 1 .. Len(resolutions) |-> resolutions[r]] BY LenProperties
  <2>3. resolutions' = resolutions BY <1>2, <2>1, <2>2
  <2> QED BY <2>3
<1> QED BY <1>1, <1>2

\* The same for a row of disputes.
LEMMA DisputeChanged ==
  ASSUME disputes \in Seq(Disputes), NEW i \in 1 .. Len(disputes), NEW e \in Disputes,
         e.row = disputes[i].row, disputes' = [disputes EXCEPT ![i] = e]
  PROVE  /\ disputes' \in Seq(Disputes) /\ Len(disputes') = Len(disputes)
         /\ \A d \in 1 .. Len(disputes) : disputes'[d].row = disputes[d].row
<1>1. /\ [disputes EXCEPT ![i] = e] \in Seq(Disputes)
      /\ Len([disputes EXCEPT ![i] = e]) = Len(disputes)
      /\ \A j \in 1 .. Len(disputes) :
           [disputes EXCEPT ![i] = e][j] = IF j = i THEN e ELSE disputes[j]
  BY ExceptSeq
<1> QED BY <1>1

\* A review changes rows in place.
LEMMA ReviewRows ==
  ASSUME IInv, NEW q \in Requests,
         RecordNewResult(q) \/ DecideDispute(q) \/ FinalizeResolution(q) \/ FinalizeMarket(q)
  PROVE  /\ disputes' \in Seq(Disputes) /\ Len(disputes') = Len(disputes)
         /\ \A i \in 1 .. Len(disputes) : disputes'[i].row = disputes[i].row
         /\ resolutions' \in Seq(Resolutions) /\ Len(resolutions') = Len(resolutions)
         /\ \A i \in 1 .. Len(resolutions) : resolutions'[i].market = resolutions[i].market
<1> DEFINE req == request[q]
           d == req.row
<1> USE DEF IInv
<1>1. req \in Reviews
  BY DEF TypeOK, Idle, NewRulings, NewDisputes, RecordNewResult, DecideDispute,
         FinalizeResolution, FinalizeMarket
<1>2. req.route \in {"admin", "agent"} /\ req.says \in {"upheld", "escalate"} \cup Results
  BY <1>1 DEF Reviews
<1>3. d \in 1 .. Len(disputes) BY <1>2 DEF RowsExist
<1>4. disputes[d] \in Disputes /\ disputes \in Seq(Disputes) /\ resolutions \in Seq(Resolutions)
  BY <1>3, ElementOfSeq DEF TypeOK
<1>5. /\ disputes' \in Seq(Disputes) /\ Len(disputes') = Len(disputes)
      /\ \A i \in 1 .. Len(disputes) : disputes'[i].row = disputes[i].row
  <2>1. CASE RecordNewResult(q)
    <3>1. disputes' = [disputes EXCEPT ![d] = [disputes[d] EXCEPT !.new = req.says]]
      BY <2>1 DEF RecordNewResult
    <3>2. req.says \in Results BY <2>1 DEF RecordNewResult, InOrder
    <3>3. /\ [disputes[d] EXCEPT !.new = req.says] \in Disputes
          /\ [disputes[d] EXCEPT !.new = req.says].row = disputes[d].row
      BY <1>4, <3>2 DEF Disputes
    <3> QED BY <1>3, <1>4, <3>1, <3>3, DisputeChanged
  <2>2. CASE DecideDispute(q)
    <3> DEFINE new == IF req.route = "admin" /\ req.says \in Results THEN req.says ELSE disputes[d].new
               e == [[disputes[d] EXCEPT !.status = StatusOf(req.says)] EXCEPT !.new = new]
    <3>1. disputes' = [disputes EXCEPT ![d] = e]
      <4>1. disputes' = [disputes EXCEPT ![d].status = StatusOf(req.says),
                                         ![d].new = IF req.route = "admin" /\ req.says \in Results
                                                    THEN req.says ELSE @]
        BY <2>2 DEF DecideDispute
      <4>2. d \in DOMAIN disputes /\ DOMAIN disputes = 1 .. Len(disputes) BY <1>3, <1>4, LenProperties
      <4> QED BY <1>4, <4>1, <4>2 DEF Disputes
    <3>2. StatusOf(req.says) \in Open \cup Decided
      BY <1>2 DEF StatusOf, Results, Open, Decided
    <3>3. e \in Disputes /\ e.row = disputes[d].row
      BY <1>4, <3>2 DEF Disputes
    <3> HIDE DEF e
    <3> QED BY <1>3, <1>4, <3>1, <3>3, DisputeChanged
  <2>3. CASE UNCHANGED disputes BY <1>4, <2>3
  <2> QED BY <2>1, <2>2, <2>3 DEF FinalizeResolution, FinalizeMarket
<1>6. /\ resolutions' \in Seq(Resolutions) /\ Len(resolutions') = Len(resolutions)
      /\ \A i \in 1 .. Len(resolutions) : resolutions'[i].market = resolutions[i].market
  <2>1. CASE FinalizeResolution(q)
    <3> DEFINE w == disputes[d].row
               e == Finalized(resolutions[w], req.says)
    <3>1. resolutions' = [resolutions EXCEPT ![w] = e] BY <2>1 DEF FinalizeResolution
    <3>2. w \in 1 .. Len(resolutions) BY <1>3 DEF RowsExist
    <3>3. resolutions[w] \in Resolutions BY <1>4, <3>2, ElementOfSeq
    <3>4. e \in Resolutions /\ e.market = resolutions[w].market BY <3>3 DEF Resolutions, Finalized
    <3> HIDE DEF e, w
    <3> QED BY <1>4, <3>1, <3>4, ResolutionChanged
  <2>2. CASE UNCHANGED resolutions BY <1>4, <2>2
  <2> QED BY <2>1, <2>2 DEF RecordNewResult, DecideDispute, FinalizeMarket
<1> QED BY <1>5, <1>6

\* The statements of a review preserve the invariant.
LEMMA ReviewSteps ==
  ASSUME IInv, NEW q \in Requests,
         RecordNewResult(q) \/ DecideDispute(q) \/ FinalizeResolution(q) \/ FinalizeMarket(q)
  PROVE  IInv'
<1> DEFINE req == request[q]
<1> USE DEF IInv
<1>1. req \in Reviews
  BY DEF TypeOK, Idle, NewRulings, NewDisputes, RecordNewResult, DecideDispute,
         FinalizeResolution, FinalizeMarket
<1>2. req.route \in {"admin", "agent"} /\ req.says \in {"upheld", "escalate"} \cup Results
  BY <1>1 DEF Reviews
<1>3. Advance(q) BY DEF RecordNewResult, DecideDispute, FinalizeResolution, FinalizeMarket
<1>4. PICK r : /\ request' = [request EXCEPT ![q] = r]
               /\ \/ r = Idle
                  \/ /\ r \in Reviews /\ r.at # "new" /\ request[q].route = r.route
                     /\ r.row = request[q].row /\ r.market = request[q].market
  BY <1>2, <1>3, AdvanceGoesOn
<1>5. /\ UNCHANGED <<clock, broker, cron, history>>
      /\ failures' \in 0 .. MaxFailures
      /\ mishaps' \subseteq Kinds \X (Markets \cup 1 .. MaxDisputes)
  BY DEF RecordNewResult, DecideDispute, FinalizeResolution, FinalizeMarket, TypeOK, history
<1>6. status' \in [Markets -> Statuses]
  BY DEF RecordNewResult, DecideDispute, FinalizeResolution, FinalizeMarket, TypeOK, Statuses
<1> QED BY <1>4, <1>5, <1>6, ReviewRows, GoingOn

\* So do the last statements of the other routes, and a failure.
LEMMA EndingSteps ==
  ASSUME IInv, NEW q \in Requests, MarkResolved(q) \/ MarkDisputed(q) \/ RequestFails(q)
  PROVE  IInv'
<1> USE DEF IInv
<1>1. request' = [request EXCEPT ![q] = Idle] BY DEF MarkResolved, MarkDisputed, RequestFails
<1>2. UNCHANGED <<resolutions, disputes, clock, broker, cron>>
  BY DEF MarkResolved, MarkDisputed, RequestFails, tables
<1>3. status' \in [Markets -> Statuses]
  BY DEF MarkResolved, MarkDisputed, RequestFails, tables, TypeOK, Statuses
<1>4. failures' \in 0 .. MaxFailures
  BY LifecycleBounds DEF MarkResolved, MarkDisputed, RequestFails, history, TypeOK
<1>5. mishaps' \subseteq Kinds \X (Markets \cup 1 .. MaxDisputes)
  <2>1. request[q] \in RequestShapes BY DEF TypeOK, RequestShapes
  <2>2. HalfDone(request[q]) \subseteq Kinds \X (Markets \cup 1 .. MaxDisputes)
    BY <2>1 DEF RequestShapes, HalfDone, Idle, NewRulings, NewDisputes, Reviews, Kinds
  <2> QED BY <2>2 DEF MarkResolved, MarkDisputed, RequestFails, history, TypeOK
<1>6. resolutions \in Seq(Resolutions) /\ disputes \in Seq(Disputes) BY DEF TypeOK
<1>7. /\ resolutions' \in Seq(Resolutions) /\ Len(resolutions') = Len(resolutions)
      /\ \A i \in 1 .. Len(resolutions) : resolutions'[i].market = resolutions[i].market
      /\ disputes' \in Seq(Disputes) /\ Len(disputes') = Len(disputes)
      /\ \A i \in 1 .. Len(disputes) : disputes'[i].row = disputes[i].row
  BY <1>2, <1>6
<1>8. UNCHANGED <<clock, broker, cron>> BY <1>2
<1> QED BY <1>1, <1>3, <1>4, <1>5, <1>7, <1>8, GoingOn

\* A report inserts its resolution, for which room was left.
LEMMA InsertingResolution ==
  ASSUME IInv, NEW q \in Requests, InsertResolution(q)
  PROVE  IInv'
<1> USE DEF IInv
<1> DEFINE req == request[q]
           row == [market |-> req.market, reported |-> req.says, result |-> req.says,
                   status |-> "resolved"]
           r == [req EXCEPT !.at = "market"]
<1>1. req \in NewRulings
  BY DEF TypeOK, Idle, NewDisputes, Reviews, InsertResolution
<1>2. row \in Resolutions BY <1>1 DEF NewRulings, Resolutions
<1>3. request' = [request EXCEPT ![q] = r] BY DEF InsertResolution
<1>4. r \in NewRulings /\ r.at = "market" /\ r.route = "report"
  BY <1>1 DEF NewRulings
<1>5. \A p \in Requests : request'[p] = IF p = q THEN r ELSE request[p]
  BY <1>3 DEF TypeOK
<1>6. resolutions' = Append(resolutions, row) BY DEF InsertResolution
<1>7. UNCHANGED <<status, disputes, expired, closed, queue, timers, dead, scan, sweep, failures, mishaps>>
  BY DEF InsertResolution, clock, broker, cron, history
<1>8. q \in Inserting("report") BY DEF InsertResolution, Inserting
<1> HIDE DEF row, r, req
<1>9. /\ resolutions' \in Seq(Resolutions) /\ Len(resolutions') = Len(resolutions) + 1
      /\ \A i \in 1 .. Len(resolutions) : resolutions'[i] = resolutions[i]
  BY <1>2, <1>6 DEF TypeOK
<1>10. Inserting("file")' = Inserting("file") BY <1>4, <1>5, <1>8 DEF Inserting
<1>11. RoomLeft'
  <2>1. /\ Cardinality(Inserting("report")) \in Nat
        /\ Cardinality(Inserting("report")') =
             Cardinality(Inserting("report"))
             + (IF r.route = "report" /\ r.at = "insert"
                THEN IF q \in Inserting("report") THEN 0 ELSE 1
                ELSE IF q \in Inserting("report") THEN -1 ELSE 0)
    BY <1>3, InsertingCounts
  <2>2. Cardinality(Inserting("report")') = Cardinality(Inserting("report")) - 1
    BY <1>4, <1>8, <2>1
  <2>3. Len(resolutions) \in Nat BY DEF TypeOK
  <2> QED BY <1>7, <1>9, <1>10, <2>1, <2>2, <2>3, LifecycleBounds DEF RoomLeft
<1>12. TypeOK'
  <2>1. request' \in [Requests -> {Idle} \cup NewRulings \cup NewDisputes \cup Reviews]
    BY <1>3, <1>4 DEF TypeOK
  <2>2. Len(resolutions)' <= MaxRulings
    <3>1. Cardinality(Inserting("report")') \in Nat
      <4>1. Inserting("report")' \in SUBSET Requests BY DEF Inserting
      <4> QED BY <4>1, LifecycleBounds, FS_Subset, FS_CardinalityType
    <3> QED BY <1>9, <1>11, <3>1, LifecycleBounds DEF RoomLeft, TypeOK
  <2>3. closed' \subseteq 1 .. Len(resolutions)' BY <1>7, <1>9 DEF TypeOK
  <2> QED BY <1>7, <1>9, <2>1, <2>2, <2>3 DEF TypeOK
<1>13. RowsExist'
  <2>1. \A d \in 1 .. Len(disputes)' : disputes'[d].row \in 1 .. Len(resolutions)'
    BY <1>7, <1>9 DEF RowsExist, TypeOK
  <2>2. ASSUME NEW p \in Inserting("file")'
        PROVE  /\ request'[p].row \in 1 .. Len(resolutions)'
               /\ resolutions'[request'[p].row].market = request'[p].market
    <3>1. p \in Inserting("file") BY <1>10
    <3>2. p # q BY <1>8, <3>1 DEF Inserting
    <3>3. request'[p] = request[p] BY <1>5, <3>1, <3>2 DEF Inserting
    <3>4. /\ request[p].row \in 1 .. Len(resolutions)
          /\ resolutions[request[p].row].market = request[p].market
      BY <3>1 DEF RowsExist
    <3> QED BY <1>9, <3>3, <3>4
  <2>3. ASSUME NEW p \in Requests, request'[p].route \in {"admin", "agent"}
        PROVE  /\ request'[p].row \in 1 .. Len(disputes)'
               /\ resolutions'[disputes'[request'[p].row].row].market = request'[p].market
    <3>1. request'[p] = request[p] BY <1>4, <1>5, <2>3
    <3>2. /\ request[p].row \in 1 .. Len(disputes)
          /\ disputes[request[p].row].row \in 1 .. Len(resolutions)
          /\ resolutions[disputes[request[p].row].row].market = request[p].market
      BY <2>3, <3>1 DEF RowsExist
    <3> QED BY <1>7, <1>9, <3>1, <3>2
  <2> QED BY <2>1, <2>2, <2>3 DEF RowsExist
<1>14. InOrder' BY <1>4, <1>5 DEF InOrder
<1>15. JobsNamed' BY <1>7 DEF JobsNamed
<1> QED BY <1>11, <1>12, <1>13, <1>14, <1>15

\* A submission inserts its dispute.
LEMMA InsertingDispute ==
  ASSUME IInv, NEW q \in Requests, InsertDispute(q)
  PROVE  IInv'
<1> USE DEF IInv
<1> DEFINE req == request[q]
           row == [row |-> req.row, status |-> "pending", new |-> "none"]
           r == [[req EXCEPT !.at = "market"] EXCEPT !.row = Len(disputes) + 1]
<1>1. req \in NewDisputes
  BY DEF TypeOK, Idle, NewRulings, Reviews, InsertDispute
<1>2. q \in Inserting("file") BY DEF InsertDispute, Inserting
<1>3. req.row \in 1 .. Len(resolutions) /\ req.row \in 1 .. MaxRulings
  BY <1>2, LifecycleBounds DEF RowsExist, TypeOK
<1>4. row \in Disputes BY <1>3 DEF Disputes, Open
<1>5. request' = [request EXCEPT ![q] = r]
  <2>1. request' = [request EXCEPT ![q].at = "market", ![q].row = Len(disputes) + 1]
    BY DEF InsertDispute
  <2>2. q \in DOMAIN request BY DEF TypeOK
  <2> QED BY <1>1, <2>1, <2>2 DEF NewDisputes
<1>6. disputes' = Append(disputes, row) BY DEF InsertDispute
<1>7. UNCHANGED <<status, resolutions, expired, closed, queue, timers, dead, scan, sweep, failures, mishaps>>
  BY DEF InsertDispute, clock, broker, cron, history
<1>8. /\ disputes' \in Seq(Disputes) /\ Len(disputes') = Len(disputes) + 1
      /\ \A i \in 1 .. Len(disputes) : disputes'[i] = disputes[i]
      /\ disputes'[Len(disputes) + 1] = row
  <2> HIDE DEF row
  <2> QED BY <1>4, <1>6 DEF TypeOK
<1>9. /\ Cardinality(Inserting("file")) \in Nat
      /\ Cardinality(Inserting("file")') = Cardinality(Inserting("file")) - 1
      /\ r.at = "market" /\ r.route = "file" /\ r.market \in Markets /\ r.says = "none"
      /\ r.row = Len(disputes) + 1
  <2>1. /\ r.at = "market" /\ r.route = "file" /\ r.market \in Markets /\ r.says = "none"
        /\ r.row = Len(disputes) + 1
    BY <1>1 DEF NewDisputes
  <2> HIDE DEF r
  <2>2. /\ Cardinality(Inserting("file")) \in Nat
        /\ Cardinality(Inserting("file")') =
             Cardinality(Inserting("file"))
             + (IF r.route = "file" /\ r.at = "insert"
                THEN IF q \in Inserting("file") THEN 0 ELSE 1
                ELSE IF q \in Inserting("file") THEN -1 ELSE 0)
    BY <1>5, InsertingCounts
  <2> QED BY <1>2, <2>1, <2>2
<1>10. Cardinality(Inserting("file")') \in Nat
  <2>1. Inserting("file")' \in SUBSET Requests BY DEF Inserting
  <2> QED BY <2>1, LifecycleBounds, FS_Subset, FS_CardinalityType
<1>11. Len(disputes) \in Nat /\ Len(disputes)' \in 1 .. MaxDisputes
  BY <1>8, <1>9, <1>10, LifecycleBounds DEF RoomLeft, TypeOK
<1>12. r \in NewDisputes
  BY <1>1, <1>8, <1>11 DEF NewDisputes
<1> HIDE DEF row, r, req
<1>13. \A p \in Requests : request'[p] = IF p = q THEN r ELSE request[p]
  BY <1>5 DEF TypeOK
<1>14. /\ Inserting("report")' = Inserting("report") /\ Inserting("file")' \subseteq Inserting("file")
       /\ q \notin Inserting("file")'
  BY <1>2, <1>9, <1>13 DEF Inserting
<1>15. RoomLeft' BY <1>7, <1>8, <1>9, <1>11, <1>14, LifecycleBounds DEF RoomLeft
<1>16. TypeOK'
  <2>1. request' \in [Requests -> {Idle} \cup NewRulings \cup NewDisputes \cup Reviews]
    BY <1>5, <1>12 DEF TypeOK
  <2>2. Len(disputes)' <= MaxDisputes BY <1>11, LifecycleBounds
  <2> QED BY <1>7, <1>8, <2>1, <2>2 DEF TypeOK
<1>17. RowsExist'
  <2>1. \A d \in 1 .. Len(disputes)' : disputes'[d].row \in 1 .. Len(resolutions)'
    <3>1. row.row = req.row BY DEF row
    <3> QED BY <1>3, <1>7, <1>8, <1>11, <3>1 DEF RowsExist, req
  <2>2. \A p \in Inserting("file")' :
          /\ request'[p].row \in 1 .. Len(resolutions)'
          /\ resolutions'[request'[p].row].market = request'[p].market
    BY <1>7, <1>13, <1>14 DEF RowsExist, Inserting
  <2>3. ASSUME NEW p \in Requests, request'[p].route \in {"admin", "agent"}
        PROVE  /\ request'[p].row \in 1 .. Len(disputes)'
               /\ resolutions'[disputes'[request'[p].row].row].market = request'[p].market
    <3>1. request'[p] = request[p] BY <1>9, <1>13, <2>3
    <3>2. /\ request[p].row \in 1 .. Len(disputes)
          /\ resolutions[disputes[request[p].row].row].market = request[p].market
      BY <2>3, <3>1 DEF RowsExist
    <3> QED BY <1>7, <1>8, <1>11, <3>1, <3>2
  <2> QED BY <2>1, <2>2, <2>3 DEF RowsExist
<1>18. InOrder' BY <1>9, <1>12, <1>13 DEF InOrder
<1>19. JobsNamed' BY <1>7 DEF JobsNamed
<1> QED BY <1>15, <1>16, <1>17, <1>18, <1>19

\* A request that begins: nothing but itself and the history changes.
LEMMA Beginning ==
  ASSUME IInv, NEW q \in Requests, request[q] = Idle, NEW r,
         request' = [request EXCEPT ![q] = r],
         \/ /\ r \in NewRulings /\ r.at = "insert"
            /\ Len(resolutions) + Cardinality(Inserting("report")) < MaxRulings
         \/ /\ r \in NewDisputes /\ r.at = "insert"
            /\ Len(disputes) + Cardinality(Inserting("file")) < MaxDisputes
            /\ r.row \in 1 .. Len(resolutions) /\ resolutions[r.row].market = r.market
         \/ /\ r \in Reviews /\ r.row \in 1 .. Len(disputes)
            /\ resolutions[disputes[r.row].row].market = r.market
            /\ r.route = "admin" => r.at # "new"
            /\ r.at = "new" => r.says \in Results,
         UNCHANGED <<tables, clock, broker, cron, failures>>,
         mishaps' \subseteq Kinds \X (Markets \cup 1 .. MaxDisputes)
  PROVE  IInv'
<1> USE DEF IInv
<1>1. \A p \in Requests : request'[p] = IF p = q THEN r ELSE request[p] BY DEF TypeOK
<1>2. r \in RequestShapes BY DEF RequestShapes
<1>3. UNCHANGED <<status, resolutions, disputes, expired, closed, queue, timers, dead, scan, sweep,
                  failures>>
  BY DEF tables, clock, broker, cron
<1>4. TypeOK'
  <2>1. request' \in [Requests -> RequestShapes] BY <1>2 DEF TypeOK, RequestShapes
  <2> QED BY <1>3, <2>1 DEF TypeOK, RequestShapes
<1>5. q \notin Inserting("report") /\ q \notin Inserting("file") BY DEF Inserting, Idle
<1>6. RoomLeft'
  <2>1. ASSUME NEW route
        PROVE  /\ Cardinality(Inserting(route)) \in Nat
               /\ Cardinality(Inserting(route)') =
                    Cardinality(Inserting(route))
                    + (IF r.route = route /\ r.at = "insert"
                       THEN IF q \in Inserting(route) THEN 0 ELSE 1
                       ELSE IF q \in Inserting(route) THEN -1 ELSE 0)
    BY InsertingCounts
  <2>2. r.route = "report" /\ r.at = "insert" =>
          Len(resolutions) + Cardinality(Inserting("report")) < MaxRulings
    BY DEF NewDisputes, Reviews
  <2>3. r.route = "file" /\ r.at = "insert" =>
          Len(disputes) + Cardinality(Inserting("file")) < MaxDisputes
    BY DEF NewRulings, Reviews
  <2>4. Len(resolutions) \in Nat /\ Len(disputes) \in Nat BY DEF TypeOK
  <2>5. Len(resolutions)' + Cardinality(Inserting("report"))' <= MaxRulings
    BY <1>3, <1>5, <2>1, <2>2, <2>4, LifecycleBounds DEF RoomLeft
  <2>6. Len(disputes)' + Cardinality(Inserting("file"))' <= MaxDisputes
    BY <1>3, <1>5, <2>1, <2>3, <2>4, LifecycleBounds DEF RoomLeft
  <2> QED BY <2>5, <2>6 DEF RoomLeft
<1>7. RowsExist'
  <2>1. \A d \in 1 .. Len(disputes)' : disputes'[d].row \in 1 .. Len(resolutions)'
    BY <1>3 DEF RowsExist
  <2>2. ASSUME NEW p \in Inserting("file")'
        PROVE  /\ request'[p].row \in 1 .. Len(resolutions)'
               /\ resolutions'[request'[p].row].market = request'[p].market
    <3>1. CASE p = q
      <4>1. request'[p] = r /\ r.route = "file" BY <1>1, <3>1 DEF Inserting
      <4> QED BY <1>3, <4>1 DEF NewRulings, Reviews
    <3>2. CASE p # q
      <4>1. p \in Inserting("file") /\ request'[p] = request[p] BY <1>1, <3>2 DEF Inserting
      <4> QED BY <1>3, <4>1 DEF RowsExist
    <3> QED BY <3>1, <3>2
  <2>3. ASSUME NEW p \in Requests, request'[p].route \in {"admin", "agent"}
        PROVE  /\ request'[p].row \in 1 .. Len(disputes)'
               /\ resolutions'[disputes'[request'[p].row].row].market = request'[p].market
    <3>1. CASE p = q
      <4>1. request'[p] = r BY <1>1, <3>1
      <4> QED BY <1>3, <2>3, <4>1 DEF NewRulings, NewDisputes
    <3>2. CASE p # q
      <4>1. request'[p] = request[p] BY <1>1, <3>2
      <4> QED BY <1>3, <2>3, <4>1 DEF RowsExist
    <3> QED BY <3>1, <3>2
  <2> QED BY <2>1, <2>2, <2>3 DEF RowsExist
<1>8. InOrder' BY <1>1 DEF InOrder, NewRulings, NewDisputes
<1>9. JobsNamed' BY <1>3 DEF JobsNamed
<1> QED BY <1>4, <1>6, <1>7, <1>8, <1>9

\* The three kinds of requests, as they begin.
LEMMA ReceiveSteps ==
  ASSUME IInv, NEW q \in Requests, Receive(q)
  PROVE  IInv'
<1> USE DEF IInv
<1>1. ASSUME NEW m \in Markets, NEW x \in Results, ReceiveReport(q, m, x) PROVE IInv'
  <2> DEFINE r == [Idle EXCEPT !.route = "report", !.at = "insert", !.market = m, !.says = x]
  <2>1. r \in NewRulings /\ r.at = "insert" BY DEF Idle, NewRulings
  <2>2. mishaps' \subseteq Kinds \X (Markets \cup 1 .. MaxDisputes)
    BY <1>1 DEF ReceiveReport, TypeOK, Kinds
  <2>3. /\ request[q] = Idle /\ request' = [request EXCEPT ![q] = r]
        /\ Len(resolutions) + Cardinality(Inserting("report")) < MaxRulings
        /\ UNCHANGED <<tables, clock, broker, cron, failures>>
    BY <1>1 DEF ReceiveReport
  <2> HIDE DEF r
  <2> QED BY <2>1, <2>2, <2>3, Beginning
<1>2. ASSUME NEW m \in Markets, ReceiveDispute(q, m) PROVE IInv'
  <2>1. PICK w \in Rows(m) \ closed :
          request' = [request EXCEPT ![q] = [Idle EXCEPT !.route = "file", !.at = "insert",
                                                         !.market = m, !.row = w]]
    BY <1>2 DEF ReceiveDispute
  <2> DEFINE r == [Idle EXCEPT !.route = "file", !.at = "insert", !.market = m, !.row = w]
  <2>2. w \in 1 .. Len(resolutions) /\ resolutions[w].market = m BY DEF Rows
  <2>3. w \in 1 .. MaxRulings BY <2>2, LifecycleBounds DEF TypeOK
  <2>4. r \in NewDisputes /\ r.at = "insert" /\ r.row = w /\ r.market = m
    BY <2>3 DEF Idle, NewDisputes
  <2>5. /\ request[q] = Idle
        /\ Len(disputes) + Cardinality(Inserting("file")) < MaxDisputes
        /\ UNCHANGED <<tables, clock, broker, cron, failures>>
        /\ mishaps' \subseteq Kinds \X (Markets \cup 1 .. MaxDisputes)
    BY <1>2 DEF ReceiveDispute, history, TypeOK
  <2> HIDE DEF r
  <2>6. request' = [request EXCEPT ![q] = r] BY <2>1 DEF r
  <2> QED BY <2>2, <2>4, <2>5, <2>6, Beginning
<1>3. ASSUME NEW d \in 1 .. Len(disputes), NEW route \in {"admin", "agent"},
             NEW says \in {"upheld", "escalate"} \cup Results, ReceiveReview(q, d, route, says)
      PROVE  IInv'
  <2> DEFINE m == resolutions[disputes[d].row].market
             r == [route |-> route, at |-> FirstOf(route, says), market |-> m, row |-> d, says |-> says]
  <2>1. disputes[d].row \in 1 .. Len(resolutions) BY DEF RowsExist
  <2>2. resolutions[disputes[d].row] \in Resolutions BY <2>1, ElementOfSeq DEF TypeOK
  <2>3. m \in Markets BY <2>2 DEF Resolutions
  <2>4. d \in 1 .. MaxDisputes BY LifecycleBounds DEF TypeOK
  <2>5. /\ FirstOf(route, says) \in {"new", "dispute", "resolution"}
        /\ route = "admin" => FirstOf(route, says) # "new"
        /\ FirstOf(route, says) = "new" => says \in Results
    BY DEF FirstOf, Results
  <2>6. request' = [request EXCEPT ![q] = r] BY <1>3 DEF ReceiveReview
  <2>7. mishaps' \subseteq Kinds \X (Markets \cup 1 .. MaxDisputes)
    BY <1>3, <2>3, <2>4 DEF ReceiveReview, TypeOK, Kinds
  <2>8. request[q] = Idle /\ UNCHANGED <<tables, clock, broker, cron, failures>>
    BY <1>3 DEF ReceiveReview
  <2>9. /\ r \in Reviews /\ r.row = d /\ r.market = m
        /\ r.route = "admin" => r.at # "new"
        /\ r.at = "new" => r.says \in Results
    BY <2>3, <2>4, <2>5 DEF Reviews
  <2> HIDE DEF r
  <2> QED BY <2>6, <2>7, <2>8, <2>9, Beginning
<1> QED BY <1>1, <1>2, <1>3 DEF Receive

\* Every step preserves the invariant.
LEMMA IInvStep ==
  ASSUME IInv, [Next]_vars
  PROVE  IInv'
<1>1. CASE \E m \in Markets : Expire(m) BY <1>1, ClockSteps
<1>2. CASE \E r \in 1 .. Len(resolutions) : WindowEnds(r) BY <1>2, ClockSteps
<1>3. CASE Scan \/ ScanFails BY <1>3, ScanSteps
<1>4. CASE Sweep \/ SweepFails BY <1>4, SweepSteps
<1>5. CASE Resolver \/ ResolverStops BY <1>5, ResolverSteps
<1>6. ASSUME NEW q \in Requests, Receive(q) PROVE IInv' BY <1>6, ReceiveSteps
<1>7. ASSUME NEW q \in Requests, Statement(q) \/ RequestFails(q) PROVE IInv'
  BY <1>7, InsertingResolution, InsertingDispute, ReviewSteps, EndingSteps DEF Statement
<1>8. CASE UNCHANGED vars
  <2>1. Inserting("file")' = Inserting("file") /\ Inserting("report")' = Inserting("report")
    BY <1>8 DEF Inserting, vars
  <2> QED BY <1>8, <2>1 DEF IInv, TypeOK, RowsExist, InOrder, JobsNamed, RoomLeft,
                            vars, tables, clock, broker, cron, history
<1> QED BY <1>1, <1>2, <1>3, <1>4, <1>5, <1>6, <1>7, <1>8 DEF Next

\* And it holds at the start.
LEMMA IInvInit == Init => IInv
<1> SUFFICES ASSUME Init PROVE IInv OBVIOUS
<1>1. \A q \in Requests : request[q] = Idle BY DEF Init
<1>2. Inserting("file") = {} /\ Inserting("report") = {} BY <1>1 DEF Inserting, Idle
<1>3. Len(resolutions) = 0 /\ Len(disputes) = 0 BY DEF Init
<1>4. TypeOK
  <2>1. resolutions \in Seq(Resolutions) /\ disputes \in Seq(Disputes) BY EmptySeq DEF Init
  <2>2. status \in [Markets -> Statuses] BY DEF Init, Statuses
  <2>3. request \in [Requests -> {Idle} \cup NewRulings \cup NewDisputes \cup Reviews] BY DEF Init
  <2>4. scan \in Jobs({"mark", "publish"}) /\ sweep \in Jobs({"market", "resolutions"})
    BY DEF Init, Jobs
  <2>5. failures \in 0 .. MaxFailures BY LifecycleBounds DEF Init
  <2>6. expired = {} /\ closed = {} /\ queue = {} /\ timers = {} /\ dead = {} /\ mishaps = {}
    BY DEF Init
  <2> QED BY <1>3, <2>1, <2>2, <2>3, <2>4, <2>5, <2>6, LifecycleBounds DEF TypeOK
<1>5. RowsExist BY <1>1, <1>2, <1>3 DEF RowsExist, Idle
<1>6. InOrder BY <1>1 DEF InOrder, Idle
<1>7. JobsNamed BY DEF Init, JobsNamed, Asleep
<1>8. RoomLeft
  <2>1. Cardinality({}) = 0 BY FS_EmptySet
  <2>2. 0 + 0 <= MaxRulings /\ 0 + 0 <= MaxDisputes BY LifecycleBounds
  <2> QED BY <1>2, <1>3, <2>1, <2>2 DEF RoomLeft
<1> QED BY <1>4, <1>5, <1>6, <1>7, <1>8 DEF IInv

\* Rows, requests and jobs refer to what exists, in every reachable state.
THEOREM IInvHolds == Spec => []IInv
<1>1. IInv /\ [Next]_vars => IInv' BY IInvStep
<1> QED BY IInvInit, <1>1, PTL DEF Spec

\* Tables, queues, jobs and requests keep their types, and every row, message
\* and request refers to what exists, for any number of markets and requests.
THEOREM LifecycleTypeCorrect == Spec => []TypeOK
<1>1. IInv => TypeOK BY DEF IInv
<1> QED BY IInvHolds, <1>1, PTL

-----------------------------------------------------------------------------
(* Rows are never taken away and keep what they are about.                   *)

\* What every step leaves in the tables.
LEMMA TablesGrow ==
  ASSUME IInv, [Next]_vars
  PROVE  /\ Len(resolutions) <= Len(resolutions)' /\ Len(disputes) <= Len(disputes)'
         /\ \A r \in 1 .. Len(resolutions) : resolutions'[r].market = resolutions[r].market
         /\ \A d \in 1 .. Len(disputes) : disputes'[d].row = disputes[d].row
         /\ closed \subseteq closed' /\ mishaps \subseteq mishaps'
<1> DEFINE Grow == /\ Len(resolutions) <= Len(resolutions)' /\ Len(disputes) <= Len(disputes)'
                   /\ \A r \in 1 .. Len(resolutions) : resolutions'[r].market = resolutions[r].market
                   /\ \A d \in 1 .. Len(disputes) : disputes'[d].row = disputes[d].row
                   /\ closed \subseteq closed' /\ mishaps \subseteq mishaps'
<1> USE DEF tables, clock, broker, cron, history
<1>1. resolutions \in Seq(Resolutions) /\ disputes \in Seq(Disputes) BY DEF IInv, TypeOK
<1>2. Len(resolutions) \in Nat /\ Len(disputes) \in Nat BY <1>1
<1>3. CASE \/ \E m \in Markets : Expire(m)
           \/ \E r \in 1 .. Len(resolutions) : WindowEnds(r)
  BY <1>2, <1>3 DEF Expire, WindowEnds
<1>4. CASE Scan \/ ScanFails \/ Resolver \/ ResolverStops
  BY <1>2, <1>4 DEF Scan, StartScan, MarkResolving, PublishMarketResolve, ScanFails, Resolver,
                    ResolverReturns, ResolverThrows, ResolverRetries, ResolverStops
<1>5. CASE SweepResolutions
  <2>1. /\ Len(resolutions') = Len(resolutions)
        /\ \A r \in 1 .. Len(resolutions) : resolutions'[r].market = resolutions[r].market
    BY <1>1, <1>5, Rows(sweep.market) \in SUBSET (1 .. Len(resolutions)), SweptRows
       DEF SweepResolutions, Rows
  <2> QED BY <1>2, <1>5, <2>1 DEF SweepResolutions
<1>6. CASE StartSweep \/ SweepMarket \/ SweepFails
  BY <1>2, <1>6 DEF StartSweep, SweepMarket, SweepFails
<1>7. ASSUME NEW q \in Requests, Receive(q) \/ RequestFails(q) \/ MarkResolved(q) \/ MarkDisputed(q)
      PROVE  Grow
  <2>1. UNCHANGED <<resolutions, disputes, closed>>
    BY <1>7 DEF Receive, ReceiveReport, ReceiveDispute, ReceiveReview, RequestFails,
                MarkResolved, MarkDisputed
  <2>2. mishaps \subseteq mishaps'
    <3>1. CASE Receive(q) BY <3>1 DEF Receive, ReceiveReport, ReceiveDispute, ReceiveReview
    <3>2. CASE RequestFails(q) \/ MarkResolved(q) \/ MarkDisputed(q)
      BY <3>2 DEF RequestFails, MarkResolved, MarkDisputed
    <3> QED BY <1>7, <3>1, <3>2
  <2> QED BY <1>2, <2>1, <2>2
<1>8. ASSUME NEW q \in Requests, InsertResolution(q)
      PROVE  Grow
  <2> DEFINE row == [market |-> request[q].market, reported |-> request[q].says,
                     result |-> request[q].says, status |-> "resolved"]
  <2>1. request[q] \in NewRulings
    BY <1>8 DEF IInv, TypeOK, Idle, NewDisputes, Reviews, InsertResolution
  <2>2. row \in Resolutions BY <2>1 DEF NewRulings, Resolutions
  <2>3. resolutions' = Append(resolutions, row) BY <1>8 DEF InsertResolution
  <2> HIDE DEF row
  <2>4. Len(resolutions') = Len(resolutions) + 1
        /\ \A r \in 1 .. Len(resolutions) : resolutions'[r] = resolutions[r]
    BY <1>1, <2>2, <2>3
  <2> QED BY <1>2, <1>8, <2>4 DEF InsertResolution
<1>9. ASSUME NEW q \in Requests, InsertDispute(q)
      PROVE  Grow
  <2> DEFINE row == [row |-> request[q].row, status |-> "pending", new |-> "none"]
  <2>1. disputes' = Append(disputes, row) BY <1>9 DEF InsertDispute
  <2> HIDE DEF row
  <2>2. Len(disputes') = Len(disputes) + 1
        /\ \A d \in 1 .. Len(disputes) : disputes'[d] = disputes[d]
    BY <1>1, <2>1
  <2> QED BY <1>2, <1>9, <2>2 DEF InsertDispute
<1>10. ASSUME NEW q \in Requests,
              RecordNewResult(q) \/ DecideDispute(q) \/ FinalizeResolution(q) \/ FinalizeMarket(q)
       PROVE  Grow
  <2>1. closed' = closed /\ mishaps' = mishaps
    BY <1>10 DEF RecordNewResult, DecideDispute, FinalizeResolution, FinalizeMarket
  <2> QED BY <1>2, <1>10, <2>1, ReviewRows
<1>11. CASE UNCHANGED vars BY <1>2, <1>11 DEF vars
<1> QED BY <1>3, <1>4, <1>5, <1>6, <1>7, <1>8, <1>9, <1>10, <1>11 DEF Next, Sweep, Statement

-----------------------------------------------------------------------------
(* Markets that wait for their resolution.                                   *)

\* Every step keeps a message, or a mishap, for a market that waits.
LEMMA QueuedStep ==
  ASSUME IInv, ResolvingIsQueued, [Next]_vars
  PROVE  ResolvingIsQueued'
<1> SUFFICES ASSUME NEW m \in Markets, status'[m] = "resolving"
             PROVE  \/ scan'.at = "publish" /\ scan'.market = m
                    \/ \E msg \in queue' \cup timers' \cup dead' : msg.market = m
                    \/ <<"scan", m>> \in mishaps' \/ <<"retry", m>> \in mishaps'
  BY DEF ResolvingIsQueued
<1> USE DEF tables, clock, broker, cron, history
<1>1. mishaps \subseteq mishaps' BY TablesGrow
<1>2. DOMAIN status = Markets BY DEF IInv, TypeOK
<1>3. ASSUME status[m] = "resolving"
      PROVE  \/ scan.at = "publish" /\ scan.market = m
             \/ \E msg \in queue \cup timers \cup dead : msg.market = m
             \/ <<"scan", m>> \in mishaps \/ <<"retry", m>> \in mishaps
  BY <1>3 DEF ResolvingIsQueued
<1>4. CASE MarkResolving
  <2>1. CASE status[m] = "resolving"
    BY <1>1, <1>3, <1>4, <2>1 DEF MarkResolving
  <2>2. CASE status[m] # "resolving"
    <3>1. PICK n \in scan.todo :
            /\ status' = IF status[n] = "active" THEN [status EXCEPT ![n] = "resolving"] ELSE status
            /\ scan' = [at |-> "publish", todo |-> scan.todo \ {n}, market |-> n]
      BY <1>4 DEF MarkResolving
    <3>2. n = m BY <1>2, <2>2, <3>1
    <3> QED BY <3>1, <3>2
  <2> QED BY <2>1, <2>2
<1>5. ASSUME ~MarkResolving
      PROVE  status[m] = "resolving"
  BY <1>2, <1>5 DEF Next, Expire, WindowEnds, Scan, StartScan, PublishMarketResolve, ScanFails,
       Sweep, StartSweep, SweepMarket, SweepResolutions, SweepFails, Resolver, ResolverReturns,
       ResolverThrows, ResolverRetries, ResolverStops, Receive, ReceiveReport, ReceiveDispute,
       ReceiveReview, Statement, InsertResolution, MarkResolved, InsertDispute, MarkDisputed,
       RecordNewResult, DecideDispute, FinalizeResolution, FinalizeMarket, RequestFails, vars
<1>6. CASE PublishMarketResolve
  <2>1. queue' = queue \cup {[market |-> scan.market, tries |-> 0]} BY <1>6 DEF PublishMarketResolve
  <2>2. [market |-> scan.market, tries |-> 0] \in queue'
        /\ [market |-> scan.market, tries |-> 0].market = scan.market
    BY <2>1
  <2> QED BY <1>1, <1>3, <1>5, <1>6, <2>1, <2>2 DEF PublishMarketResolve, MarkResolving
<1>7. CASE ScanFails
  <2>1. scan.at = "publish" /\ scan.market = m => <<"scan", m>> \in mishaps'
    BY <1>7 DEF ScanFails
  <2>2. UNCHANGED <<status, queue, timers, dead>> BY <1>7 DEF ScanFails
  <2> QED BY <1>1, <1>3, <2>1, <2>2
<1>8. CASE Resolver
  <2>1. scan' = scan /\ status' = status
    BY <1>8 DEF Resolver, ResolverReturns, ResolverThrows, ResolverRetries
  <2>2. ASSUME NEW msg \in queue \cup timers \cup dead, msg.market = m
        PROVE  \E n \in queue' \cup timers' \cup dead' : n.market = m
    <3>1. msg \in Messages BY DEF IInv, TypeOK
    <3>2. [msg EXCEPT !.tries = @ + 1].market = m BY <2>2, <3>1 DEF Messages
    <3>3. status[m] = "resolving" BY <2>1
    <3>4. PICK n \in Messages : ResolverReturns(n) \/ ResolverThrows(n) \/ ResolverRetries(n)
      BY <1>8 DEF Resolver
    <3>5. CASE n # msg
      BY <2>2, <3>4, <3>5 DEF ResolverReturns, ResolverThrows, ResolverRetries
    <3>6. CASE n = msg
      BY <2>2, <3>2, <3>3, <3>4, <3>6 DEF ResolverReturns, ResolverThrows, ResolverRetries
    <3> QED BY <3>5, <3>6
  <2> QED BY <1>1, <1>3, <2>1, <2>2
<1>9. CASE ResolverStops
  <2>1. \A msg \in timers : msg.market = m => <<"retry", m>> \in mishaps'
    BY <1>9 DEF ResolverStops
  <2>2. UNCHANGED <<status, scan, queue, dead>> BY <1>9 DEF ResolverStops
  <2> QED BY <1>1, <1>3, <2>1, <2>2
<1>10. CASE StartScan
  BY <1>1, <1>3, <1>5, <1>10 DEF StartScan, MarkResolving, Asleep
<1>11. CASE UNCHANGED <<scan, queue, timers, dead>> /\ ~MarkResolving
  BY <1>1, <1>3, <1>5, <1>11
<1>12. \/ MarkResolving \/ PublishMarketResolve \/ ScanFails \/ Resolver \/ ResolverStops \/ StartScan
       \/ UNCHANGED <<scan, queue, timers, dead>>
  BY DEF Next, Expire, WindowEnds, Scan,
       Sweep, StartSweep, SweepMarket, SweepResolutions, SweepFails, Receive, ReceiveReport,
       ReceiveDispute, ReceiveReview, Statement, InsertResolution, MarkResolved, InsertDispute,
       MarkDisputed, RecordNewResult, DecideDispute, FinalizeResolution, FinalizeMarket,
       RequestFails, vars
<1> QED BY <1>4, <1>6, <1>7, <1>8, <1>9, <1>10, <1>11, <1>12

\* A market that waits for its resolution is never forgotten, but for a scan or a
\* resolver that was cut off (checkMarketsForResolution, consumeQueue).
THEOREM NoMarketForgotten == Spec => []ResolvingIsQueued
<1>1. Init => ResolvingIsQueued BY DEF Init, ResolvingIsQueued
<1>2. IInv /\ ResolvingIsQueued /\ [Next]_vars => ResolvingIsQueued' BY QueuedStep
<1> QED BY IInvHolds, <1>1, <1>2, PTL DEF Spec

-----------------------------------------------------------------------------
(* Final markets.                                                            *)

\* A market with a resolution whose window is over or that was disputed.
Judged(m) == \E r \in Rows(m) : r \in closed \/ DisputesOf(r) # {}

\* Whoever is about to close a market found such a resolution.
ClosersInformed ==
  /\ FinalAfterWindow
  /\ \A m \in sweep.todo : Judged(m)

\* Once judged, a market stays judged.
LEMMA JudgedStays ==
  ASSUME IInv, [Next]_vars, NEW m, Judged(m)
  PROVE  Judged(m)'
<1>1. PICK r \in Rows(m) : r \in closed \/ DisputesOf(r) # {} BY DEF Judged
<1>2. Len(resolutions) \in Nat /\ Len(disputes) \in Nat BY DEF IInv, TypeOK
<1>3. Len(resolutions)' \in Nat /\ Len(disputes)' \in Nat
  BY IInvStep DEF IInv, TypeOK
<1>4. r \in Rows(m)' BY <1>1, <1>2, <1>3, TablesGrow DEF Rows
<1>5. DisputesOf(r) \subseteq DisputesOf(r)' BY <1>2, <1>3, TablesGrow DEF DisputesOf
<1>6. closed \subseteq closed' BY TablesGrow
<1> QED BY <1>1, <1>4, <1>5, <1>6 DEF Judged

\* The sweep gets no new market on its way.
LEMMA SweepNarrows ==
  ASSUME IInv, [Next]_vars
  PROVE  StartSweep \/ sweep'.todo \subseteq sweep.todo
<1> USE DEF tables, clock, broker, cron, history
<1>1. sweep \in Jobs({"market", "resolutions"}) BY DEF IInv, TypeOK
<1>2. CASE SweepResolutions BY <1>1, <1>2 DEF SweepResolutions, Onward, Jobs, Asleep
<1>3. CASE SweepMarket \/ SweepFails BY <1>3 DEF SweepMarket, SweepFails, Asleep
<1>4. StartSweep \/ SweepResolutions \/ SweepMarket \/ SweepFails \/ sweep' = sweep
  BY DEF Next, Expire, WindowEnds, Scan, StartScan, MarkResolving,
       PublishMarketResolve, ScanFails, Sweep,
       Resolver, ResolverReturns, ResolverThrows, ResolverRetries, ResolverStops, Receive,
       ReceiveReport, ReceiveDispute, ReceiveReview, Statement, InsertResolution, MarkResolved,
       InsertDispute, MarkDisputed, RecordNewResult, DecideDispute, FinalizeResolution,
       FinalizeMarket, RequestFails, vars
<1> QED BY <1>2, <1>3, <1>4

\* Only judged markets become final or are found by the sweep.
LEMMA InformedStep ==
  ASSUME IInv, ClosersInformed, [Next]_vars
  PROVE  ClosersInformed'
<1> USE DEF tables, clock, broker, cron, history
<1>1. DOMAIN status = Markets /\ scan.todo \subseteq Markets
  BY DEF IInv, TypeOK, Jobs, Asleep
<1>2. ASSUME NEW m \in Markets, status'[m] = "finalized"
      PROVE  Judged(m)
  <2>1. CASE status[m] = "finalized" BY <2>1 DEF ClosersInformed, FinalAfterWindow, Judged
  <2>2. CASE SweepMarket
    <3>1. PICK n \in sweep.todo :
            status' = IF status[n] = "resolved" THEN [status EXCEPT ![n] = "finalized"] ELSE status
      BY <2>2 DEF SweepMarket
    <3>2. m = n \/ status[m] = "finalized" BY <1>1, <1>2, <3>1
    <3> QED BY <2>1, <3>1, <3>2 DEF ClosersInformed
  <2>3. ASSUME NEW q \in Requests, FinalizeMarket(q)
        PROVE  Judged(m)
    <3>1. request[q].route \in {"admin", "agent"} BY <2>3 DEF FinalizeMarket
    <3>2. status' = [status EXCEPT ![request[q].market] = "finalized"] BY <2>3 DEF FinalizeMarket
    <3>3. m = request[q].market \/ status[m] = "finalized" BY <1>1, <1>2, <3>2
    <3>4. /\ request[q].row \in 1 .. Len(disputes)
          /\ disputes[request[q].row].row \in 1 .. Len(resolutions)
          /\ resolutions[disputes[request[q].row].row].market = request[q].market
      BY <3>1 DEF IInv, RowsExist
    <3>5. Judged(request[q].market) BY <3>4 DEF Judged, Rows, DisputesOf
    <3> QED BY <2>1, <3>3, <3>5
  <2>4. CASE /\ ~SweepMarket /\ status[m] # "finalized"
             /\ ~\E q \in Requests : FinalizeMarket(q)
    <3>1. status'[m] # "finalized"
      BY <1>1, <2>4 DEF Next, Expire, WindowEnds, Scan, StartScan, MarkResolving,
           PublishMarketResolve, ScanFails, Sweep, StartSweep, SweepResolutions, SweepFails,
           Resolver, ResolverReturns, ResolverThrows, ResolverRetries, ResolverStops, Receive,
           ReceiveReport, ReceiveDispute, ReceiveReview, Statement, InsertResolution, MarkResolved,
           InsertDispute, MarkDisputed, RecordNewResult, DecideDispute, FinalizeResolution,
           RequestFails, vars
    <3> QED BY <1>2, <3>1
  <2> QED BY <2>1, <2>2, <2>3, <2>4
<1>3. FinalAfterWindow'
  BY <1>2, JudgedStays DEF FinalAfterWindow, Judged
<1>4. ASSUME NEW m \in sweep'.todo
      PROVE  Judged(m)
  <2>1. CASE StartSweep
    <3>1. sweep'.todo = {n \in Markets : status[n] = "resolved" /\ Ripe(n)}
      BY <2>1 DEF StartSweep, Asleep
    <3> QED BY <3>1 DEF Ripe, Judged
  <2>2. CASE sweep'.todo \subseteq sweep.todo BY <2>2 DEF ClosersInformed
  <2>3. StartSweep \/ sweep'.todo \subseteq sweep.todo BY SweepNarrows
  <2> QED BY <2>1, <2>2, <2>3
<1>5. \A m \in sweep'.todo : Judged(m)' BY <1>4, JudgedStays
<1> QED BY <1>3, <1>5 DEF ClosersInformed

\* Nothing makes a market final before the dispute window of one of its
\* resolutions is over or a dispute was filed, whatever else is in progress.
THEOREM FinalOnlyAfterWindow == Spec => []FinalAfterWindow
<1>1. Init => ClosersInformed BY DEF Init, ClosersInformed, FinalAfterWindow, Asleep
<1>2. IInv /\ ClosersInformed /\ [Next]_vars => ClosersInformed' BY InformedStep
<1>3. ClosersInformed => FinalAfterWindow BY DEF ClosersInformed
<1> QED BY IInvHolds, <1>1, <1>2, <1>3, PTL DEF Spec

-----------------------------------------------------------------------------
(* One resolution for a market.                                              *)

\* Unless two reports met or one was cut off, a market has at most one report in
\* progress and one resolution, not both to come; and once it has a resolution
\* no report is accepted, but for the one that is about to say so.
Single(m) ==
  /\ \A r, s \in Rows(m) : r = s
  /\ \A p, q \in Reporting(m) : p = q
  /\ \A q \in Reporting(m) : request[q].at = "insert" => Rows(m) = {}
  /\ Rows(m) # {} => \/ status[m] \notin Unresolved
                     \/ \E q \in Reporting(m) : request[q].at = "market"

ReportsAccounted == \A m \in Markets : <<"report", m>> \in mishaps \/ Single(m)

\* A step that leaves rows and reports alone and resolves nothing again.
LEMMA SingleStays ==
  ASSUME NEW m \in Markets, Single(m),
         Rows(m)' = Rows(m), Reporting(m)' = Reporting(m),
         \A q \in Reporting(m) : request'[q] = request[q],
         status'[m] \in Unresolved => status[m] \in Unresolved
  PROVE  Single(m)'
BY DEF Single, Unresolved

\* A request that is not a report of the market leaves its reports alone.
LEMMA ReportingStays ==
  ASSUME TypeOK, NEW m \in Markets, NEW q \in Requests, q \notin Reporting(m), NEW r,
         request' = [request EXCEPT ![q] = r], ~(r.route = "report" /\ r.market = m)
  PROVE  /\ Reporting(m)' = Reporting(m)
         /\ \A p \in Reporting(m) : request'[p] = request[p]
<1>1. \A p \in Requests : request'[p] = IF p = q THEN r ELSE request[p] BY DEF TypeOK
<1> QED BY <1>1 DEF Reporting

\* Every step keeps the account of reports.
LEMMA AccountedStep ==
  ASSUME IInv, ReportsAccounted, [Next]_vars
  PROVE  ReportsAccounted'
<1> SUFFICES ASSUME NEW m \in Markets, <<"report", m>> \notin mishaps'
             PROVE  Single(m)'
  BY DEF ReportsAccounted
<1> USE DEF tables, clock, broker, cron, history
<1>1. Single(m)
  <2>1. mishaps \subseteq mishaps' BY TablesGrow
  <2> QED BY <2>1 DEF ReportsAccounted
<1>2. DOMAIN status = Markets /\ DOMAIN request = Requests /\ Len(resolutions) \in Nat
      /\ resolutions \in Seq(Resolutions)
  BY DEF IInv, TypeOK
<1>3. ASSUME NEW q \in Requests, NEW x \in Results, ReceiveReport(q, m, x)
      PROVE  Single(m)'
  <2>1. request[q] = Idle /\ status[m] \in Unresolved /\ UNCHANGED <<status, resolutions>>
    BY <1>3 DEF ReceiveReport
  <2>2. Reporting(m) = {} BY <1>3 DEF ReceiveReport
  <2>3. Rows(m) = {} BY <1>1, <2>1, <2>2 DEF Single
  <2>4. Rows(m)' = {} BY <2>1, <2>3 DEF Rows
  <2>5. Reporting(m)' \subseteq {q}
    BY <1>2, <1>3, <2>2 DEF ReceiveReport, Reporting
  <2> QED BY <2>4, <2>5 DEF Single
<1>4. ASSUME NEW q \in Requests, InsertResolution(q), request[q].market = m
      PROVE  Single(m)'
  <2>1. q \in Reporting(m) /\ request[q].at = "insert" BY <1>4 DEF InsertResolution, Reporting
  <2>2. Rows(m) = {} /\ Reporting(m) = {q} BY <1>1, <2>1 DEF Single
  <2> DEFINE row == [market |-> request[q].market, reported |-> request[q].says,
                     result |-> request[q].says, status |-> "resolved"]
  <2>3. request[q] \in NewRulings
    BY <1>4 DEF IInv, TypeOK, Idle, NewDisputes, Reviews, InsertResolution
  <2>4. row \in Resolutions BY <2>3 DEF NewRulings, Resolutions
  <2>5. resolutions' = Append(resolutions, row) BY <1>4 DEF InsertResolution
  <2> HIDE DEF row
  <2>6. Len(resolutions') = Len(resolutions) + 1
        /\ \A r \in 1 .. Len(resolutions) : resolutions'[r] = resolutions[r]
    BY <1>2, <2>4, <2>5
  <2>7. Rows(m)' \subseteq {Len(resolutions) + 1}
    BY <1>2, <2>2, <2>6 DEF Rows
  <2>8. \A p \in Requests : request'[p] = IF p = q THEN [request[q] EXCEPT !.at = "market"] ELSE request[p]
    BY <1>2, <1>4 DEF InsertResolution
  <2>9. request'[q].at = "market" /\ request'[q].route = "report" /\ request'[q].market = m
    BY <1>4, <2>3, <2>8 DEF NewRulings
  <2>10. Reporting(m)' = {q} BY <2>2, <2>8, <2>9 DEF Reporting
  <2> QED BY <2>7, <2>9, <2>10 DEF Single
<1>5. ASSUME NEW q \in Requests, MarkResolved(q), request[q].market = m
      PROVE  Single(m)'
  <2>1. q \in Reporting(m) BY <1>5 DEF MarkResolved, Reporting
  <2>2. Reporting(m) = {q} BY <1>1, <2>1 DEF Single
  <2>3. Reporting(m)' = {} BY <1>2, <1>5, <2>2 DEF MarkResolved, Reporting, Idle
  <2>4. Rows(m)' = Rows(m) BY <1>5 DEF MarkResolved, Rows
  <2>5. status'[m] = "resolved" BY <1>2, <1>5 DEF MarkResolved
  <2> QED BY <1>1, <2>3, <2>4, <2>5 DEF Single, Unresolved
<1>6. ASSUME NEW q \in Requests, RequestFails(q), q \in Reporting(m)
      PROVE  Single(m)'
  <2>1. request[q].at # "market"
    BY <1>6 DEF RequestFails, Reporting, HalfDone
  <2>2. Reporting(m) = {q} BY <1>1, <1>6 DEF Single
  <2>3. Reporting(m)' = {} BY <1>2, <1>6, <2>2 DEF RequestFails, Reporting, Idle
  <2>4. Rows(m)' = Rows(m) /\ status' = status BY <1>6 DEF RequestFails, Rows
  <2> QED BY <1>1, <2>1, <2>2, <2>3, <2>4 DEF Single
<1>7. ASSUME NEW q \in Requests, NEW r, request' = [request EXCEPT ![q] = r],
             q \notin Reporting(m), ~(r.route = "report" /\ r.market = m),
             Rows(m)' = Rows(m), status'[m] \in Unresolved => status[m] \in Unresolved
      PROVE  Single(m)'
  <2>1. /\ Reporting(m)' = Reporting(m)
        /\ \A p \in Reporting(m) : request'[p] = request[p]
    BY <1>7, ReportingStays DEF IInv
  <2> QED BY <1>1, <1>7, <2>1, SingleStays
<1>8. ASSUME NEW q \in Requests, NEW n \in Markets, NEW x \in Results, ReceiveReport(q, n, x), n # m
      PROVE  Single(m)'
  <2> DEFINE r == [Idle EXCEPT !.route = "report", !.at = "insert", !.market = n, !.says = x]
  <2>1. request' = [request EXCEPT ![q] = r] /\ request[q] = Idle /\ UNCHANGED <<status, resolutions>>
    BY <1>8 DEF ReceiveReport
  <2>2. r.market = n BY DEF Idle
  <2>3. q \notin Reporting(m) BY <2>1 DEF Reporting, Idle
  <2>4. Rows(m)' = Rows(m) BY <2>1 DEF Rows
  <2> HIDE DEF r
  <2> QED BY <1>7, <1>8, <2>1, <2>2, <2>3, <2>4
<1>9. ASSUME NEW q \in Requests, NEW n \in Markets, ReceiveDispute(q, n)
      PROVE  Single(m)'
  <2>1. PICK w : request' = [request EXCEPT ![q] = [Idle EXCEPT !.route = "file", !.at = "insert",
                                                                !.market = n, !.row = w]]
    BY <1>9 DEF ReceiveDispute
  <2> DEFINE r == [Idle EXCEPT !.route = "file", !.at = "insert", !.market = n, !.row = w]
  <2>2. request[q] = Idle /\ UNCHANGED <<status, resolutions>> BY <1>9 DEF ReceiveDispute
  <2>3. r.route = "file" BY DEF Idle
  <2>4. q \notin Reporting(m) BY <2>2 DEF Reporting, Idle
  <2>5. Rows(m)' = Rows(m) BY <2>2 DEF Rows
  <2>6. request' = [request EXCEPT ![q] = r] BY <2>1
  <2> HIDE DEF r
  <2> QED BY <1>7, <2>2, <2>3, <2>4, <2>5, <2>6
<1>10. ASSUME NEW q \in Requests, NEW d, NEW route \in {"admin", "agent"}, NEW says,
              ReceiveReview(q, d, route, says)
       PROVE  Single(m)'
  <2> DEFINE r == [route |-> route, at |-> FirstOf(route, says),
                   market |-> resolutions[disputes[d].row].market, row |-> d, says |-> says]
  <2>1. request' = [request EXCEPT ![q] = r] /\ request[q] = Idle /\ UNCHANGED <<status, resolutions>>
    BY <1>10 DEF ReceiveReview
  <2>2. r.route # "report" OBVIOUS
  <2>3. q \notin Reporting(m) BY <2>1 DEF Reporting, Idle
  <2>4. Rows(m)' = Rows(m) BY <2>1 DEF Rows
  <2> HIDE DEF r
  <2> QED BY <1>7, <2>1, <2>2, <2>3, <2>4
<1>11. ASSUME NEW q \in Requests, InsertResolution(q), request[q].market # m
       PROVE  Single(m)'
  <2> DEFINE row == [market |-> request[q].market, reported |-> request[q].says,
                     result |-> request[q].says, status |-> "resolved"]
             r == [request[q] EXCEPT !.at = "market"]
  <2>1. request[q] \in NewRulings
    BY <1>11 DEF IInv, TypeOK, Idle, NewDisputes, Reviews, InsertResolution
  <2>2. row \in Resolutions /\ row.market # m BY <1>11, <2>1 DEF NewRulings, Resolutions
  <2>3. resolutions' = Append(resolutions, row) BY <1>11 DEF InsertResolution
  <2>4. request' = [request EXCEPT ![q] = r] /\ status' = status BY <1>11 DEF InsertResolution
  <2>5. r.market # m BY <1>11, <2>1 DEF NewRulings
  <2> HIDE DEF row, r
  <2>6. /\ Len(resolutions') = Len(resolutions) + 1
        /\ \A i \in 1 .. Len(resolutions) : resolutions'[i] = resolutions[i]
        /\ resolutions'[Len(resolutions) + 1] = row
    BY <1>2, <2>2, <2>3
  <2>7. Rows(m)' = Rows(m) BY <1>2, <2>2, <2>6 DEF Rows
  <2>8. q \notin Reporting(m) BY <1>11 DEF Reporting
  <2> QED BY <1>7, <2>4, <2>5, <2>7, <2>8
<1>12. ASSUME NEW q \in Requests, (MarkResolved(q) /\ request[q].market # m) \/ MarkDisputed(q)
       PROVE  Single(m)'
  <2>1. request' = [request EXCEPT ![q] = Idle] /\ resolutions' = resolutions
    BY <1>12 DEF MarkResolved, MarkDisputed
  <2>2. q \notin Reporting(m) BY <1>12 DEF MarkResolved, MarkDisputed, Reporting
  <2>3. Rows(m)' = Rows(m) BY <2>1 DEF Rows
  <2>4. status'[m] \in Unresolved => status[m] \in Unresolved
    BY <1>2, <1>12 DEF MarkResolved, MarkDisputed, Unresolved
  <2>5. Idle.route # "report" BY DEF Idle
  <2> QED BY <1>7, <2>1, <2>2, <2>3, <2>4, <2>5
<1>13. ASSUME NEW q \in Requests, RequestFails(q), q \notin Reporting(m)
       PROVE  Single(m)'
  <2>1. /\ request' = [request EXCEPT ![q] = Idle] /\ resolutions' = resolutions /\ status' = status
    BY <1>13 DEF RequestFails
  <2>2. Rows(m)' = Rows(m) BY <2>1 DEF Rows
  <2>3. Idle.route # "report" BY DEF Idle
  <2> QED BY <1>7, <1>13, <2>1, <2>2, <2>3
<1>14. ASSUME NEW q \in Requests,
              RecordNewResult(q) \/ DecideDispute(q) \/ FinalizeResolution(q) \/ FinalizeMarket(q)
       PROVE  Single(m)'
  <2>1. request[q].route \in {"admin", "agent"}
    <3>1. request[q] \in {Idle} \cup NewRulings \cup NewDisputes \cup Reviews
      BY DEF IInv, TypeOK
    <3>2. \/ request[q].at \in {"new", "dispute", "resolution"}
          \/ request[q].route \in {"admin", "agent"}
      BY <1>14 DEF RecordNewResult, DecideDispute, FinalizeResolution, FinalizeMarket
    <3> QED BY <3>1, <3>2 DEF Idle, NewRulings, NewDisputes, Reviews
  <2>2. Advance(q) BY <1>14 DEF RecordNewResult, DecideDispute, FinalizeResolution, FinalizeMarket
  <2>3. PICK r : /\ request' = [request EXCEPT ![q] = r]
                 /\ \/ r = Idle
                    \/ /\ r \in Reviews /\ r.at # "new" /\ request[q].route = r.route
                       /\ r.row = request[q].row /\ r.market = request[q].market
    BY <2>1, <2>2, AdvanceGoesOn
  <2>4. r.route # "report" BY <2>1, <2>3 DEF Idle
  <2>5. q \notin Reporting(m) BY <2>1 DEF Reporting
  <2>6. Rows(m)' = Rows(m) BY <1>14, ReviewRows DEF Rows
  <2>7. status'[m] \in Unresolved => status[m] \in Unresolved
    BY <1>2, <1>14 DEF RecordNewResult, DecideDispute, FinalizeResolution, FinalizeMarket, Unresolved
  <2> QED BY <1>7, <2>3, <2>4, <2>5, <2>6, <2>7
<1>15. ASSUME NEW q \in Requests, InsertDispute(q)
       PROVE  Single(m)'
  <2> DEFINE r == [[request[q] EXCEPT !.at = "market"] EXCEPT !.row = Len(disputes) + 1]
  <2>1. request[q] \in NewDisputes
    BY <1>15 DEF IInv, TypeOK, Idle, NewRulings, Reviews, InsertDispute
  <2>2. request' = [request EXCEPT ![q] = r]
    <3>1. request' = [request EXCEPT ![q].at = "market", ![q].row = Len(disputes) + 1]
      BY <1>15 DEF InsertDispute
    <3> QED BY <1>2, <2>1, <3>1 DEF NewDisputes
  <2>3. r.route = "file" BY <2>1 DEF NewDisputes
  <2>4. q \notin Reporting(m) BY <1>15 DEF Reporting, InsertDispute
  <2>5. Rows(m)' = Rows(m) /\ status' = status BY <1>15 DEF InsertDispute, Rows
  <2> HIDE DEF r
  <2> QED BY <1>7, <2>2, <2>3, <2>4, <2>5
<1>16. ASSUME \/ \E n \in Markets : Expire(n)
              \/ \E r \in 1 .. Len(resolutions) : WindowEnds(r)
              \/ Scan \/ ScanFails \/ Sweep \/ SweepFails \/ Resolver \/ ResolverStops
              \/ UNCHANGED vars
       PROVE  Single(m)'
  <2> USE DEF Expire, WindowEnds, Scan, StartScan, MarkResolving, PublishMarketResolve, ScanFails,
              Sweep, StartSweep, SweepMarket, SweepResolutions, SweepFails, Resolver,
              ResolverReturns, ResolverThrows, ResolverRetries, ResolverStops, vars
  <2>1. request' = request BY <1>16
  <2>2. Reporting(m)' = Reporting(m) /\ \A q \in Reporting(m) : request'[q] = request[q]
    BY <2>1 DEF Reporting
  <2>3. status'[m] \in Unresolved => status[m] \in Unresolved
    BY <1>2, <1>16 DEF Unresolved
  <2>4. Rows(m)' = Rows(m)
    <3>1. CASE SweepResolutions
      <4>1. /\ Len(resolutions') = Len(resolutions)
            /\ \A r \in 1 .. Len(resolutions) : resolutions'[r].market = resolutions[r].market
        BY <1>2, <3>1, Rows(sweep.market) \in SUBSET (1 .. Len(resolutions)), SweptRows DEF Rows
      <4> QED BY <4>1 DEF Rows
    <3>2. CASE resolutions' = resolutions BY <3>2 DEF Rows
    <3>3. SweepResolutions \/ resolutions' = resolutions BY <1>16
    <3> QED BY <3>1, <3>2, <3>3
  <2> QED BY <1>1, <2>2, <2>3, <2>4, SingleStays
<1>17. ASSUME NEW q \in Requests, Receive(q)
       PROVE  Single(m)'
  BY <1>3, <1>8, <1>9, <1>10, <1>17 DEF Receive
<1>18. ASSUME NEW q \in Requests, Statement(q)
       PROVE  Single(m)'
  BY <1>4, <1>5, <1>11, <1>12, <1>14, <1>15, <1>18 DEF Statement
<1>19. ASSUME NEW q \in Requests, RequestFails(q)
       PROVE  Single(m)'
  BY <1>6, <1>13, <1>19
<1> QED BY <1>16, <1>17, <1>18, <1>19 DEF Next

\* A market gets a second resolution only where two reports met or one was cut
\* off between its rows (worker/resolutions.ts).
THEOREM ResolvedOnce == Spec => []OneResolution
<1>1. Init => ReportsAccounted
  BY DEF Init, ReportsAccounted, Single, Rows, Reporting, Idle
<1>2. IInv /\ ReportsAccounted /\ [Next]_vars => ReportsAccounted' BY AccountedStep
<1>3. ReportsAccounted => OneResolution
  <2> SUFFICES ASSUME NEW m \in Markets, \A r, s \in Rows(m) : r = s
               PROVE  ~(Cardinality(Rows(m)) > 1)
    BY DEF ReportsAccounted, OneResolution, Single
  <2>1. CASE Rows(m) = {} BY <2>1, FS_EmptySet
  <2>2. CASE Rows(m) # {}
    <3>1. PICK r \in Rows(m) : TRUE BY <2>2
    <3>2. Rows(m) = {r} BY <3>1
    <3>3. Cardinality({r}) = 1 BY FS_Singleton
    <3> QED BY <3>2, <3>3
  <2> QED BY <2>1, <2>2
<1> QED BY IInvHolds, <1>1, <1>2, <1>3, PTL DEF Spec

-----------------------------------------------------------------------------
(* Reviews of disputes.                                                      *)

\* The statements a review makes, by its route and what it decides.
StepsOf(route, says) ==
  IF route = "admin" THEN {"dispute", "resolution", "market"}
  ELSE CASE says = "escalate" -> {"dispute"}
         [] says = "upheld"   -> {"resolution", "market", "dispute"}
         [] says \in Results  -> {"new", "resolution", "market", "dispute"}

Reviewer(q) == request[q].route \in {"admin", "agent"}
Started(q) == request[q].at # FirstOf(request[q].route, request[q].says)

\* A review is at one of its statements, and it closes the resolution before the
\* market.
OnTrack ==
  \A q \in Requests : Reviewer(q) =>
    /\ request[q].at \in StepsOf(request[q].route, request[q].says)
    /\ request[q].route = "admin" => request[q].says # "escalate"
    /\ request[q].at = "market" =>
         resolutions[disputes[request[q].row].row].status = "finalized"

\* A review that makes a statement goes on to the next one of its route or ends.
LEMMA ReviewMoves ==
  ASSUME IInv, OnTrack, NEW q \in Requests,
         RecordNewResult(q) \/ DecideDispute(q) \/ FinalizeResolution(q) \/ FinalizeMarket(q)
  PROVE  /\ Reviewer(q) /\ request[q] \in Reviews
         /\ \A p \in Requests : p # q => request'[p] = request[p]
         /\ \/ /\ request'[q] = Idle
               /\ \/ request[q].route = "admin" /\ request[q].at = "market"
                  \/ request[q].route = "agent" /\ request[q].at = "dispute"
            \/ /\ request'[q].route = request[q].route /\ request'[q].row = request[q].row
               /\ request'[q].market = request[q].market /\ request'[q].says = request[q].says
               /\ \/ request[q].at = "dispute" /\ request'[q].at = "resolution" /\ request[q].route = "admin"
                  \/ request[q].at = "new" /\ request'[q].at = "resolution" /\ request[q].route = "agent"
                  \/ request[q].at = "resolution" /\ request'[q].at = "market"
                  \/ request[q].at = "market" /\ request'[q].at = "dispute" /\ request[q].route = "agent"
<1> DEFINE req == request[q]
           next == After[req.route][req.at]
<1>1. req \in Reviews
  BY DEF IInv, TypeOK, Idle, NewRulings, NewDisputes, RecordNewResult, DecideDispute,
         FinalizeResolution, FinalizeMarket
<1>2. Reviewer(q) BY <1>1 DEF Reviews, Reviewer
<1>3. req.at \in StepsOf(req.route, req.says) BY <1>2 DEF OnTrack
<1>4. DOMAIN request = Requests BY DEF IInv, TypeOK
<1>5. request' = [request EXCEPT ![q] = IF next = "done" THEN Idle ELSE [req EXCEPT !.at = next]]
  BY <1>4 DEF RecordNewResult, DecideDispute, FinalizeResolution, FinalizeMarket, Advance
<1>6. /\ \A p \in Requests : p # q => request'[p] = request[p]
      /\ request'[q] = IF next = "done" THEN Idle ELSE [req EXCEPT !.at = next]
  BY <1>4, <1>5
<1>7. req.route = "admin" => req.at \in {"dispute", "resolution", "market"}
  BY <1>3 DEF StepsOf
<1>8. req.route \in {"admin", "agent"} /\ req.at \in {"new", "dispute", "resolution", "market"}
  BY <1>1 DEF Reviews
<1>9. /\ req.route = "admin" /\ req.at = "dispute" => next = "resolution"
      /\ req.route = "admin" /\ req.at = "resolution" => next = "market"
      /\ req.route = "admin" /\ req.at = "market" => next = "done"
      /\ req.route = "agent" /\ req.at = "new" => next = "resolution"
      /\ req.route = "agent" /\ req.at = "resolution" => next = "market"
      /\ req.route = "agent" /\ req.at = "market" => next = "dispute"
      /\ req.route = "agent" /\ req.at = "dispute" => next = "done"
  BY DEF After
<1> HIDE DEF next
<1>10. next # "done" => /\ request'[q].at = next /\ request'[q].route = req.route
                        /\ request'[q].row = req.row /\ request'[q].market = req.market
                        /\ request'[q].says = req.says
  BY <1>1, <1>6 DEF Reviews
<1>11. /\ \A p \in Requests : p # q => request'[p] = request[p]
       /\ next = "done" => request'[q] = Idle
  BY <1>6
<1> QED BY <1>1, <1>2, <1>7, <1>8, <1>9, <1>10, <1>11

\* A request of another kind begins, goes on or ends without becoming a review.
LEMMA OtherMoves ==
  ASSUME IInv, NEW q \in Requests,
         \/ \E m \in Markets : ReceiveDispute(q, m) \/ \E x \in Results : ReceiveReport(q, m, x)
         \/ InsertResolution(q) \/ MarkResolved(q) \/ InsertDispute(q) \/ MarkDisputed(q)
         \/ RequestFails(q)
  PROVE  /\ \A p \in Requests : p # q => request'[p] = request[p]
         /\ request'[q].route \notin {"admin", "agent"}
<1> DEFINE Goal == /\ \A p \in Requests : p # q => request'[p] = request[p]
                   /\ request'[q].route \notin {"admin", "agent"}
<1>1. DOMAIN request = Requests BY DEF IInv, TypeOK
<1>2. ASSUME NEW m \in Markets, ReceiveDispute(q, m) PROVE Goal
  BY <1>1, <1>2 DEF ReceiveDispute, Idle
<1>3. ASSUME NEW m \in Markets, NEW x \in Results, ReceiveReport(q, m, x) PROVE Goal
  BY <1>1, <1>3 DEF ReceiveReport, Idle
<1>4. CASE InsertResolution(q)
  <2>1. request[q] \in NewRulings
    BY <1>4 DEF IInv, TypeOK, Idle, NewDisputes, Reviews, InsertResolution
  <2> QED BY <1>1, <1>4, <2>1 DEF InsertResolution, NewRulings
<1>5. CASE InsertDispute(q)
  <2>1. request[q] \in NewDisputes
    BY <1>5 DEF IInv, TypeOK, Idle, NewRulings, Reviews, InsertDispute
  <2> QED BY <1>1, <1>5, <2>1 DEF InsertDispute, NewDisputes
<1>6. CASE MarkResolved(q) \/ MarkDisputed(q) \/ RequestFails(q)
  BY <1>1, <1>6 DEF MarkResolved, MarkDisputed, RequestFails, Idle
<1> QED BY <1>2, <1>3, <1>4, <1>5, <1>6

\* A review begins at its first statement, on a dispute of its market.
LEMMA ReviewBegins ==
  ASSUME IInv, NEW q \in Requests, NEW d \in 1 .. Len(disputes), NEW route \in {"admin", "agent"},
         NEW says \in {"upheld", "escalate"} \cup Results, ReceiveReview(q, d, route, says)
  PROVE  /\ \A p \in Requests : p # q => request'[p] = request[p]
         /\ request[q] = Idle
         /\ request'[q] = [route |-> route, at |-> FirstOf(route, says),
                           market |-> resolutions[disputes[d].row].market, row |-> d, says |-> says]
BY DEF ReceiveReview, IInv, TypeOK

\* The three writers of resolutions.
LEMMA ResolutionWriters ==
  ASSUME [Next]_vars
  PROVE  \/ SweepResolutions \/ resolutions' = resolutions
         \/ \E q \in Requests : InsertResolution(q) \/ FinalizeResolution(q)
BY DEF Next, Expire, WindowEnds, Scan, StartScan, MarkResolving, PublishMarketResolve, ScanFails,
     Sweep, StartSweep, SweepMarket, SweepFails, Resolver, ResolverReturns, ResolverThrows,
     ResolverRetries, ResolverStops, Receive, ReceiveReport, ReceiveDispute, ReceiveReview,
     Statement, MarkResolved, InsertDispute, MarkDisputed, RecordNewResult, DecideDispute,
     FinalizeMarket, RequestFails, vars, tables

\* A final resolution stays final.
LEMMA FinalStays ==
  ASSUME IInv, [Next]_vars, NEW r \in 1 .. Len(resolutions), resolutions[r].status = "finalized"
  PROVE  resolutions'[r].status = "finalized"
<1>1. resolutions \in Seq(Resolutions) /\ Len(resolutions) \in Nat BY DEF IInv, TypeOK
<1>2. resolutions[r] \in Resolutions BY <1>1, ElementOfSeq
<1>3. CASE SweepResolutions
  BY <1>2, <1>3 DEF SweepResolutions, Resolutions
<1>4. ASSUME NEW q \in Requests, InsertResolution(q) PROVE resolutions'[r] = resolutions[r]
  <2> DEFINE row == [market |-> request[q].market, reported |-> request[q].says,
                     result |-> request[q].says, status |-> "resolved"]
  <2>1. request[q] \in NewRulings
    BY <1>4 DEF IInv, TypeOK, Idle, NewDisputes, Reviews, InsertResolution
  <2>2. row \in Resolutions BY <2>1 DEF NewRulings, Resolutions
  <2>3. resolutions' = Append(resolutions, row) BY <1>4 DEF InsertResolution
  <2> HIDE DEF row
  <2> QED BY <1>1, <2>2, <2>3
<1>5. ASSUME NEW q \in Requests, FinalizeResolution(q) PROVE resolutions'[r].status = "finalized"
  <2> DEFINE w == disputes[request[q].row].row
             e == Finalized(resolutions[w], request[q].says)
  <2>1. resolutions' = [resolutions EXCEPT ![w] = e] BY <1>5 DEF FinalizeResolution
  <2>2. DOMAIN resolutions = 1 .. Len(resolutions) BY <1>1, LenProperties
  <2>3. r = w => e.status = "finalized" BY <1>2 DEF Finalized, Resolutions
  <2> HIDE DEF e, w
  <2> QED BY <2>1, <2>2, <2>3
<1> QED BY <1>3, <1>4, <1>5, ResolutionWriters

\* Steps that belong to no request leave all of them and the disputes alone.
LEMMA NobodysStep ==
  ASSUME [Next]_vars, ~\E q \in Requests : Receive(q) \/ Statement(q) \/ RequestFails(q)
  PROVE  request' = request /\ disputes' = disputes
BY DEF Next, Expire, WindowEnds, Scan, StartScan, MarkResolving, PublishMarketResolve, ScanFails,
     Sweep, StartSweep, SweepMarket, SweepResolutions, SweepFails, Resolver, ResolverReturns,
     ResolverThrows, ResolverRetries, ResolverStops, vars, tables

\* Requests that are no reviews, or unchanged ones, stay on track.
LEMMA OnTrackStays ==
  ASSUME IInv, OnTrack, [Next]_vars, NEW p \in Requests, Reviewer(p), request'[p] = request[p]
  PROVE  /\ request'[p].at \in StepsOf(request'[p].route, request'[p].says)
         /\ request'[p].route = "admin" => request'[p].says # "escalate"
         /\ request'[p].at = "market" =>
              resolutions'[disputes'[request'[p].row].row].status = "finalized"
<1> DEFINE d == request[p].row
<1>1. d \in 1 .. Len(disputes) /\ disputes[d].row \in 1 .. Len(resolutions)
  BY DEF IInv, RowsExist, Reviewer
<1>2. disputes'[d].row = disputes[d].row BY <1>1, TablesGrow
<1>3. request[p].at = "market" => resolutions'[disputes[d].row].status = "finalized"
  BY <1>1, FinalStays DEF OnTrack
<1> QED BY <1>2, <1>3 DEF OnTrack

\* Every step keeps the reviews on track.
LEMMA OnTrackStep ==
  ASSUME IInv, OnTrack, [Next]_vars
  PROVE  OnTrack'
<1> DEFINE Good(p) == /\ request'[p].at \in StepsOf(request'[p].route, request'[p].says)
                      /\ request'[p].route = "admin" => request'[p].says # "escalate"
                      /\ request'[p].at = "market" =>
                           resolutions'[disputes'[request'[p].row].row].status = "finalized"
<1> SUFFICES ASSUME NEW p \in Requests, request'[p].route \in {"admin", "agent"}
             PROVE  Good(p)
  BY DEF OnTrack, Reviewer
<1>1. request'[p] = request[p] => Good(p) BY OnTrackStays DEF Reviewer
<1> HIDE DEF Good
<1>2. CASE ~\E q \in Requests : Receive(q) \/ Statement(q) \/ RequestFails(q)
  BY <1>1, <1>2, NobodysStep
<1>3. ASSUME NEW q \in Requests,
             \/ \E m \in Markets : ReceiveDispute(q, m) \/ \E x \in Results : ReceiveReport(q, m, x)
             \/ InsertResolution(q) \/ MarkResolved(q) \/ InsertDispute(q) \/ MarkDisputed(q)
             \/ RequestFails(q)
      PROVE  Good(p)
  BY <1>1, <1>3, OtherMoves
<1>4. ASSUME NEW q \in Requests, NEW d \in 1 .. Len(disputes), NEW route \in {"admin", "agent"},
             NEW says \in {"upheld", "escalate"} \cup Results, ReceiveReview(q, d, route, says)
      PROVE  Good(p)
  <2>1. CASE p # q BY <1>1, <1>4, <2>1, ReviewBegins
  <2>2. CASE p = q
    <3>1. /\ request'[q].at = FirstOf(route, says) /\ request'[q].route = route
          /\ request'[q].says = says
      <4>1. request'[q] = [route |-> route, at |-> FirstOf(route, says),
                           market |-> resolutions[disputes[d].row].market, row |-> d, says |-> says]
        BY <1>4, ReviewBegins
      <4> QED BY <4>1
    <3>2. route = "admin" => says # "escalate" BY <1>4 DEF ReceiveReview
    <3>3. FirstOf(route, says) \in StepsOf(route, says) /\ FirstOf(route, says) # "market"
      BY <3>2 DEF FirstOf, StepsOf, Results
    <3> QED BY <2>2, <3>1, <3>2, <3>3 DEF Good
  <2> QED BY <2>1, <2>2
<1>5. ASSUME NEW q \in Requests,
             RecordNewResult(q) \/ DecideDispute(q) \/ FinalizeResolution(q) \/ FinalizeMarket(q)
      PROVE  Good(p)
  <2>1. CASE p # q BY <1>1, <1>5, <2>1, ReviewMoves
  <2>2. CASE p = q
    <3>1. /\ Reviewer(q) /\ request[q] \in Reviews /\ request'[q] # Idle
      BY <1>5, <2>2, ReviewMoves DEF Idle
    <3>2. /\ request'[q].route = request[q].route /\ request'[q].row = request[q].row
          /\ request'[q].says = request[q].says
          /\ \/ request[q].at = "dispute" /\ request'[q].at = "resolution" /\ request[q].route = "admin"
             \/ request[q].at = "new" /\ request'[q].at = "resolution" /\ request[q].route = "agent"
             \/ request[q].at = "resolution" /\ request'[q].at = "market"
             \/ request[q].at = "market" /\ request'[q].at = "dispute" /\ request[q].route = "agent"
      BY <1>5, <3>1, ReviewMoves
    <3>3. /\ request[q].at \in StepsOf(request[q].route, request[q].says)
          /\ request[q].route = "admin" => request[q].says # "escalate"
          /\ request[q].route \in {"admin", "agent"}
          /\ request[q].says \in {"upheld", "escalate"} \cup Results
      BY <3>1 DEF OnTrack, Reviews, Reviewer
    <3>4. request'[q].at \in StepsOf(request[q].route, request[q].says)
      BY <3>2, <3>3 DEF StepsOf, Results
    <3>5. request'[q].at = "market" =>
            resolutions'[disputes'[request'[q].row].row].status = "finalized"
      <4> SUFFICES ASSUME request'[q].at = "market"
                   PROVE  resolutions'[disputes'[request[q].row].row].status = "finalized"
        BY <3>2
      <4>1. request[q].at = "resolution" BY <3>2
      <4>2. FinalizeResolution(q)
        BY <1>5, <4>1 DEF RecordNewResult, DecideDispute, FinalizeMarket
      <4> DEFINE w == disputes[request[q].row].row
      <4>3. w \in 1 .. Len(resolutions) BY <3>3 DEF IInv, RowsExist
      <4>4. resolutions \in Seq(Resolutions) /\ resolutions[w] \in Resolutions
        BY <4>3, ElementOfSeq DEF IInv, TypeOK
      <4>5. DOMAIN resolutions = 1 .. Len(resolutions) BY <4>4, LenProperties
      <4>6. disputes' = disputes /\
            resolutions' = [resolutions EXCEPT ![w] = Finalized(@, request[q].says)]
        BY <4>2 DEF FinalizeResolution
      <4>7. Finalized(resolutions[w], request[q].says).status = "finalized"
        BY <4>4 DEF Finalized, Resolutions
      <4> QED BY <4>3, <4>5, <4>6, <4>7
    <3> QED BY <2>2, <3>2, <3>3, <3>4, <3>5 DEF Good
  <2> QED BY <2>1, <2>2
<1> QED BY <1>2, <1>3, <1>4, <1>5 DEF Receive, Statement

-----------------------------------------------------------------------------
(* Final markets have final resolutions.                                     *)

\* Every step keeps them so, as long as no other report or sweep is cut off.
LEMMA FinalResolutionsStep ==
  ASSUME IInv, OnTrack, ReportsAccounted, ClosersInformed, FinalResolutions, [Next]_vars
  PROVE  FinalResolutions'
<1> USE DEF tables, clock, broker, cron, history
<1> SUFFICES ASSUME NEW m \in Markets, status'[m] = "finalized",
                    <<"report", m>> \notin mishaps', <<"sweep", m>> \notin mishaps'
             PROVE  \/ \A r \in Rows(m)' : resolutions'[r].status = "finalized"
                    \/ sweep'.at = "resolutions" /\ sweep'.market = m
  BY DEF FinalResolutions
<1> DEFINE AllFinal == \A r \in Rows(m) : resolutions[r].status = "finalized"
<1>1. mishaps \subseteq mishaps' BY TablesGrow
<1>2. Single(m) BY <1>1 DEF ReportsAccounted
<1>3. /\ DOMAIN status = Markets /\ Len(resolutions) \in Nat /\ resolutions \in Seq(Resolutions)
      /\ Len(resolutions)' \in Nat
  BY IInvStep DEF IInv, TypeOK
<1>4. ASSUME AllFinal, Len(resolutions') = Len(resolutions)
      PROVE  \A r \in Rows(m)' : resolutions'[r].status = "finalized"
  <2>1. \A r \in Rows(m)' : r \in Rows(m) /\ r \in 1 .. Len(resolutions)
    BY <1>4, TablesGrow DEF Rows
  <2> QED BY <1>4, <2>1, FinalStays
<1>5. status[m] = "finalized" => AllFinal \/ (sweep.at = "resolutions" /\ sweep.market = m)
  BY <1>1 DEF FinalResolutions
<1>6. CASE SweepMarket
  <2>1. PICK n \in sweep.todo :
          /\ status' = IF status[n] = "resolved" THEN [status EXCEPT ![n] = "finalized"] ELSE status
          /\ sweep' = [at |-> "resolutions", todo |-> sweep.todo \ {n}, market |-> n]
    BY <1>6 DEF SweepMarket
  <2>2. CASE n = m BY <2>1, <2>2
  <2>3. CASE n # m
    <3>1. status[m] = "finalized" BY <1>3, <2>1, <2>3
    <3>2. sweep.at = "market" /\ resolutions' = resolutions BY <1>6 DEF SweepMarket
    <3> QED BY <1>4, <1>5, <3>1, <3>2
  <2> QED BY <2>2, <2>3
<1>7. CASE SweepResolutions
  <2>1. status[m] = "finalized" BY <1>7 DEF SweepResolutions
  <2>2. /\ Len(resolutions') = Len(resolutions)
        /\ \A r \in 1 .. Len(resolutions) : resolutions'[r].market = resolutions[r].market
    BY <1>3, <1>7, Rows(sweep.market) \in SUBSET (1 .. Len(resolutions)), SweptRows
       DEF SweepResolutions, Rows
  <2>3. CASE sweep.market = m
    <3>1. Rows(m)' = Rows(m) BY <2>2 DEF Rows
    <3>2. \A r \in Rows(m) : resolutions[r] \in Resolutions BY <1>3, ElementOfSeq DEF Rows
    <3>3. \A r \in Rows(m) : resolutions'[r] = [resolutions[r] EXCEPT !.status = "finalized"]
      BY <1>7, <2>3 DEF SweepResolutions, Rows
    <3> QED BY <3>1, <3>2, <3>3 DEF Resolutions
  <2>4. CASE sweep.market # m BY <1>4, <1>5, <2>1, <2>2, <2>4
  <2> QED BY <2>3, <2>4
<1>8. CASE SweepFails \/ StartSweep
  <2>1. status[m] = "finalized" /\ resolutions' = resolutions BY <1>8 DEF SweepFails, StartSweep
  <2>2. ~(sweep.at = "resolutions" /\ sweep.market = m)
    BY <1>8 DEF SweepFails, StartSweep, Asleep
  <2> QED BY <1>4, <1>5, <2>1, <2>2
<1>9. ASSUME NEW q \in Requests, FinalizeMarket(q) PROVE AllFinal \/ status[m] = "finalized"
  <2>1. Reviewer(q) /\ request[q].at = "market"
        /\ status' = [status EXCEPT ![request[q].market] = "finalized"]
    BY <1>9 DEF FinalizeMarket, Reviewer
  <2> DEFINE w == disputes[request[q].row].row
  <2>2. resolutions[w].status = "finalized" BY <2>1 DEF OnTrack
  <2>3. w \in Rows(request[q].market)
    BY <2>1 DEF IInv, RowsExist, Reviewer, Rows
  <2>4. CASE request[q].market = m
    <3>1. \A r \in Rows(m) : r = w BY <1>2, <2>3, <2>4 DEF Single
    <3> QED BY <2>2, <3>1
  <2>5. CASE request[q].market # m BY <1>3, <2>1, <2>5
  <2> QED BY <2>4, <2>5
<1>10. ASSUME NEW q \in Requests, InsertResolution(q), request[q].market = m PROVE FALSE
  <2>1. q \in Reporting(m) /\ request[q].at = "insert" BY <1>10 DEF InsertResolution, Reporting
  <2>2. Rows(m) = {} BY <1>2, <2>1 DEF Single
  <2>3. status[m] = "finalized" BY <1>10 DEF InsertResolution
  <2> QED BY <2>2, <2>3 DEF ClosersInformed, FinalAfterWindow
<1>11. ASSUME NEW q \in Requests, InsertResolution(q), request[q].market # m
       PROVE  Rows(m)' = Rows(m) /\ \A r \in Rows(m) : resolutions'[r] = resolutions[r]
  <2> DEFINE row == [market |-> request[q].market, reported |-> request[q].says,
                     result |-> request[q].says, status |-> "resolved"]
  <2>1. request[q] \in NewRulings
    BY <1>11 DEF IInv, TypeOK, Idle, NewDisputes, Reviews, InsertResolution
  <2>2. row \in Resolutions /\ row.market # m BY <1>11, <2>1 DEF NewRulings, Resolutions
  <2>3. resolutions' = Append(resolutions, row) BY <1>11 DEF InsertResolution
  <2> HIDE DEF row
  <2>4. /\ Len(resolutions') = Len(resolutions) + 1
        /\ \A i \in 1 .. Len(resolutions) : resolutions'[i] = resolutions[i]
        /\ resolutions'[Len(resolutions) + 1] = row
    BY <1>3, <2>2, <2>3
  <2> QED BY <1>3, <2>2, <2>4 DEF Rows
<1>12. ASSUME ~(SweepMarket \/ SweepResolutions \/ SweepFails \/ StartSweep)
       PROVE  /\ sweep' = sweep
              /\ status[m] = "finalized" \/ \E q \in Requests : FinalizeMarket(q)
  <2>1. sweep' = sweep
    BY <1>12 DEF Next, Expire, WindowEnds, Scan, StartScan, MarkResolving, PublishMarketResolve,
       ScanFails, Sweep, Resolver, ResolverReturns, ResolverThrows, ResolverRetries, ResolverStops,
       Receive, ReceiveReport, ReceiveDispute, ReceiveReview, Statement, InsertResolution,
       MarkResolved, InsertDispute, MarkDisputed, RecordNewResult, DecideDispute,
       FinalizeResolution, FinalizeMarket, RequestFails, vars
  <2>2. ASSUME status[m] # "finalized", ~\E q \in Requests : FinalizeMarket(q)
        PROVE  FALSE
    <3>1. ~SweepMarket BY <1>12
    <3> QED BY <1>3, <2>2, <3>1 DEF Next, Expire, WindowEnds, Scan, StartScan, MarkResolving,
       PublishMarketResolve, ScanFails, Sweep, StartSweep, SweepResolutions, SweepFails, Resolver,
       ResolverReturns, ResolverThrows, ResolverRetries, ResolverStops, Receive, ReceiveReport,
       ReceiveDispute, ReceiveReview, Statement, InsertResolution, MarkResolved, InsertDispute,
       MarkDisputed, RecordNewResult, DecideDispute, FinalizeResolution, RequestFails, vars
  <2> QED BY <2>1, <2>2
<1>13. ASSUME ~\E q \in Requests : InsertResolution(q) PROVE Len(resolutions') = Len(resolutions)
  <2>1. CASE SweepResolutions
    BY <1>3, <2>1, Rows(sweep.market) \in SUBSET (1 .. Len(resolutions)), SweptRows
       DEF SweepResolutions, Rows
  <2>2. ASSUME NEW q \in Requests, FinalizeResolution(q) PROVE Len(resolutions') = Len(resolutions)
    BY <2>2, ReviewRows
  <2> QED BY <1>13, <2>1, <2>2, ResolutionWriters
<1>14. CASE ~(SweepMarket \/ SweepResolutions \/ SweepFails \/ StartSweep)
  <2>1. AllFinal \/ (sweep'.at = "resolutions" /\ sweep'.market = m)
    BY <1>5, <1>9, <1>12, <1>14
  <2> QED BY <1>4, <1>10, <1>11, <1>13, <2>1
<1> QED BY <1>6, <1>7, <1>8, <1>14

\* Closed is closed in both tables: the resolutions of a final market are final
\* when the sweep is through with it, whichever of the three writers closed it.
THEOREM FinalMarketsClosed == Spec => []FinalResolutions
<1>1. Init => OnTrack /\ ReportsAccounted /\ ClosersInformed /\ FinalResolutions
  BY DEF Init, OnTrack, Reviewer, ReportsAccounted, Single, Rows, Reporting, Idle, ClosersInformed,
         FinalAfterWindow, Asleep, FinalResolutions
<1>2. IInv /\ OnTrack /\ ReportsAccounted /\ ClosersInformed /\ FinalResolutions /\ [Next]_vars
        => OnTrack' /\ ReportsAccounted' /\ ClosersInformed' /\ FinalResolutions'
  BY OnTrackStep, AccountedStep, InformedStep, FinalResolutionsStep
<1> QED BY IInvHolds, <1>1, <1>2, PTL DEF Spec

-----------------------------------------------------------------------------
(* Disputes and the results they overturn.                                   *)

\* Of a dispute that no two reviews met at and none left half done, at most one
\* review is in progress; before its first statement the dispute is open and has
\* no result, after it the result is the review's.
Clean(d) ==
  /\ \A p, q \in Reviewing(d) : p = q
  /\ \A q \in Reviewing(d) :
       /\ Started(q) =>
            /\ request[q].says \in Results => disputes[d].new = request[q].says
            /\ request[q].route = "admin" => disputes[d].status \in Decided
       /\ ~Started(q) => disputes[d].status \in Open /\ disputes[d].new = "none"
  /\ Reviewing(d) = {} /\ disputes[d].new # "none" => disputes[d].status \in Decided

ReviewsAccounted == \A d \in 1 .. Len(disputes) : <<"review", d>> \in mishaps \/ Clean(d)

\* A step that leaves a dispute and its reviews alone.
LEMMA CleanStays ==
  ASSUME NEW d, Clean(d), disputes'[d] = disputes[d], Reviewing(d)' = Reviewing(d),
         \A q \in Reviewing(d) : request'[q] = request[q]
  PROVE  Clean(d)'
<1>1. \A q \in Reviewing(d) : Started(q)' = Started(q) BY DEF Started
<1> QED BY <1>1 DEF Clean

\* A request that reviews another dispute, or none, before and after its step.
LEMMA ReviewingStays ==
  ASSUME NEW d, NEW q \in Requests, q \notin Reviewing(d),
         \A p \in Requests : p # q => request'[p] = request[p],
         request'[q].route \notin {"admin", "agent"} \/ request'[q].row # d
  PROVE  Reviewing(d)' = Reviewing(d) /\ \A p \in Reviewing(d) : request'[p] = request[p]
BY DEF Reviewing

\* Who writes to a row of disputes, and what a new one is.
LEMMA DisputeWriters ==
  ASSUME IInv, [Next]_vars, NEW d \in 1 .. Len(disputes)'
  PROVE  \/ d \in 1 .. Len(disputes) /\ disputes'[d] = disputes[d]
         \/ \E q \in Reviewing(d) :
              /\ RecordNewResult(q) \/ DecideDispute(q)
              /\ d \in 1 .. Len(disputes)
         \/ /\ d = Len(disputes) + 1 /\ disputes'[d].new = "none" /\ disputes'[d].status = "pending"
            /\ \E q \in Requests : InsertDispute(q)
<1>1. disputes \in Seq(Disputes) /\ Len(disputes) \in Nat BY DEF IInv, TypeOK
<1>2. CASE disputes' = disputes BY <1>2
<1>3. ASSUME NEW q \in Requests, InsertDispute(q)
      PROVE  \/ d \in 1 .. Len(disputes) /\ disputes'[d] = disputes[d]
             \/ /\ d = Len(disputes) + 1 /\ disputes'[d].new = "none"
                /\ disputes'[d].status = "pending"
  <2> DEFINE row == [row |-> request[q].row, status |-> "pending", new |-> "none"]
  <2>1. disputes' = Append(disputes, row) BY <1>3 DEF InsertDispute
  <2>2. row.new = "none" /\ row.status = "pending" OBVIOUS
  <2> HIDE DEF row
  <2>3. /\ Len(disputes') = Len(disputes) + 1
        /\ \A i \in 1 .. Len(disputes) : disputes'[i] = disputes[i]
        /\ disputes'[Len(disputes) + 1] = row
    BY <1>1, <2>1
  <2> QED BY <1>1, <2>2, <2>3
<1>4. ASSUME NEW q \in Requests, RecordNewResult(q) \/ DecideDispute(q), ~(q \in Reviewing(d))
      PROVE  d \in 1 .. Len(disputes) /\ disputes'[d] = disputes[d]
  <2>1. request[q] \in Reviews
    BY <1>4 DEF IInv, TypeOK, Idle, NewRulings, NewDisputes, RecordNewResult, DecideDispute
  <2>2. request[q].row # d BY <1>4, <2>1 DEF Reviewing, Reviews
  <2>3. Len(disputes') = Len(disputes) BY <1>4, ReviewRows
  <2>4. \A i \in 1 .. Len(disputes) : i # request[q].row => disputes'[i] = disputes[i]
    BY <1>1, <1>4 DEF RecordNewResult, DecideDispute
  <2> QED BY <2>2, <2>3, <2>4
<1>5. ASSUME NEW q \in Requests, RecordNewResult(q) \/ DecideDispute(q), q \in Reviewing(d)
      PROVE  d \in 1 .. Len(disputes)
  BY <1>5, ReviewRows
<1>6. \/ disputes' = disputes
      \/ \E q \in Requests : InsertDispute(q) \/ RecordNewResult(q) \/ DecideDispute(q)
  BY DEF Next, Expire, WindowEnds, Scan, StartScan, MarkResolving, PublishMarketResolve, ScanFails,
       Sweep, StartSweep, SweepMarket, SweepResolutions, SweepFails, Resolver, ResolverReturns,
       ResolverThrows, ResolverRetries, ResolverStops, Receive, ReceiveReport, ReceiveDispute,
       ReceiveReview, Statement, InsertResolution, MarkResolved, MarkDisputed, FinalizeResolution,
       FinalizeMarket, RequestFails, vars, tables
<1> QED BY <1>2, <1>3, <1>4, <1>5, <1>6

\* What a review writes to its dispute.
LEMMA ReviewWrites ==
  ASSUME IInv, NEW q \in Requests, NEW d, q \in Reviewing(d),
         RecordNewResult(q) \/ DecideDispute(q) \/ FinalizeResolution(q) \/ FinalizeMarket(q)
  PROVE  /\ RecordNewResult(q) =>
              disputes'[d].new = request[q].says /\ disputes'[d].status = disputes[d].status
         /\ DecideDispute(q) =>
              /\ disputes'[d].status = StatusOf(request[q].says)
              /\ disputes'[d].new = IF request[q].route = "admin" /\ request[q].says \in Results
                                    THEN request[q].says ELSE disputes[d].new
         /\ FinalizeResolution(q) \/ FinalizeMarket(q) => disputes'[d] = disputes[d]
<1>1. request[q].row = d /\ d \in 1 .. Len(disputes) BY DEF Reviewing, IInv, RowsExist
<1>2. disputes \in Seq(Disputes) /\ disputes[d] \in Disputes BY <1>1, ElementOfSeq DEF IInv, TypeOK
<1>3. d \in DOMAIN disputes BY <1>1, <1>2, LenProperties
<1>4. ASSUME RecordNewResult(q)
      PROVE  disputes'[d].new = request[q].says /\ disputes'[d].status = disputes[d].status
  BY <1>1, <1>2, <1>3, <1>4 DEF RecordNewResult, Disputes
<1>5. ASSUME DecideDispute(q)
      PROVE  /\ disputes'[d].status = StatusOf(request[q].says)
             /\ disputes'[d].new = IF request[q].route = "admin" /\ request[q].says \in Results
                                   THEN request[q].says ELSE disputes[d].new
  <2>1. disputes' = [disputes EXCEPT ![d].status = StatusOf(request[q].says),
                                     ![d].new = IF request[q].route = "admin" /\ request[q].says \in Results
                                                THEN request[q].says ELSE @]
    BY <1>1, <1>5 DEF DecideDispute
  <2> QED BY <1>2, <1>3, <2>1 DEF Disputes
<1>6. FinalizeResolution(q) \/ FinalizeMarket(q) => disputes' = disputes
  BY DEF FinalizeResolution, FinalizeMarket
<1> QED BY <1>4, <1>5, <1>6

\* Where a review is tells whether it has begun.
LEMMA StartedWhere ==
  ASSUME IInv, OnTrack, NEW q \in Requests, Reviewer(q)
  PROVE  /\ request[q].at = "new" =>
              ~Started(q) /\ request[q].route = "agent" /\ request[q].says \in Results
         /\ request[q].at = "dispute" =>
              (Started(q) <=> request[q].route = "agent" /\ request[q].says # "escalate")
         /\ request[q].at = "resolution" =>
              (Started(q) <=> request[q].route = "admin" \/ request[q].says \in Results)
         /\ request[q].at = "market" => Started(q) /\ request[q].says # "escalate"
         /\ request[q].route \in {"admin", "agent"}
         /\ request[q].says \in {"upheld", "escalate"} \cup Results
         /\ request[q].route = "admin" => request[q].says # "escalate"
<1>1. request[q] \in Reviews
  BY DEF IInv, TypeOK, Idle, NewRulings, NewDisputes, Reviewer
<1>2. /\ request[q].route \in {"admin", "agent"}
      /\ request[q].says \in {"upheld", "escalate"} \cup Results
  BY <1>1 DEF Reviews
<1>3. /\ request[q].at \in StepsOf(request[q].route, request[q].says)
      /\ request[q].route = "admin" => request[q].says # "escalate"
  BY DEF OnTrack
<1> QED BY <1>2, <1>3 DEF StepsOf, Started, FirstOf, Results

\* Every step keeps the account of reviews.
LEMMA CleanStep ==
  ASSUME IInv, OnTrack, ReviewsAccounted, [Next]_vars
  PROVE  ReviewsAccounted'
<1> SUFFICES ASSUME NEW d \in 1 .. Len(disputes)', <<"review", d>> \notin mishaps'
             PROVE  Clean(d)'
  BY DEF ReviewsAccounted
<1> USE DEF history
<1>1. Len(disputes) \in Nat BY DEF IInv, TypeOK
<1>2. mishaps \subseteq mishaps' BY TablesGrow
<1>3. d \in 1 .. Len(disputes) => Clean(d) BY <1>2 DEF ReviewsAccounted
<1>4. \A p \in Reviewing(d) : Reviewer(p) /\ request[p].row = d /\ d \in 1 .. Len(disputes)
  BY DEF Reviewing, Reviewer, IInv, RowsExist
<1>5. CASE \E q \in Requests : InsertDispute(q)
  <2>1. PICK q \in Requests : InsertDispute(q) BY <1>5
  <2>2. /\ \A p \in Requests : p # q => request'[p] = request[p]
        /\ request'[q].route \notin {"admin", "agent"}
    BY <2>1, OtherMoves
  <2>3. q \notin Reviewing(d) BY <2>1 DEF Reviewing, InsertDispute
  <2>4. Reviewing(d)' = Reviewing(d) /\ \A p \in Reviewing(d) : request'[p] = request[p]
    BY <2>2, <2>3, ReviewingStays
  <2>5. ~\E p \in Requests : RecordNewResult(p) \/ DecideDispute(p)
    <3> DEFINE row == [row |-> request[q].row, status |-> "pending", new |-> "none"]
    <3>1. disputes' = Append(disputes, row) BY <2>1 DEF InsertDispute
    <3> HIDE DEF row
    <3>2. disputes \in Seq(Disputes) BY DEF IInv, TypeOK
    <3>3. Len(disputes') = Len(disputes) + 1 BY <3>1, <3>2
    <3> QED BY <1>1, <3>3, ReviewRows
  <2>6. CASE d \in 1 .. Len(disputes) /\ disputes'[d] = disputes[d]
    BY <1>3, <2>4, <2>6, CleanStays
  <2>7. CASE d = Len(disputes) + 1 /\ disputes'[d].new = "none"
    <3>1. Reviewing(d) = {} BY <1>1, <1>4, <2>7
    <3> QED BY <2>4, <2>7, <3>1 DEF Clean
  <2> QED BY <2>5, <2>6, <2>7, DisputeWriters DEF Reviewing
<1>6. CASE ~\E q \in Requests : InsertDispute(q)
  <2>1. \/ disputes'[d] = disputes[d]
        \/ \E q \in Reviewing(d) : RecordNewResult(q) \/ DecideDispute(q)
    BY <1>6, DisputeWriters
  <2>2. d \in 1 .. Len(disputes) BY <1>6, DisputeWriters
  <2>3. Clean(d) BY <1>3, <2>2
  <2>4. CASE ~\E q \in Requests : Receive(q) \/ Statement(q) \/ RequestFails(q)
    BY <2>3, <2>4, NobodysStep, CleanStays DEF Reviewing
  <2>5. ASSUME NEW q \in Requests, q \notin Reviewing(d), disputes'[d] = disputes[d],
               \A p \in Requests : p # q => request'[p] = request[p],
               request'[q].route \notin {"admin", "agent"} \/ request'[q].row # d
        PROVE  Clean(d)'
    BY <2>3, <2>5, ReviewingStays, CleanStays
  <2>6. ASSUME NEW q \in Requests, q \notin Reviewing(d), 
               \/ \E m \in Markets : ReceiveDispute(q, m) \/ \E x \in Results : ReceiveReport(q, m, x)
               \/ InsertResolution(q) \/ MarkResolved(q) \/ MarkDisputed(q) \/ RequestFails(q)
        PROVE  Clean(d)'
    <3>1. disputes' = disputes
      BY <2>6 DEF ReceiveDispute, ReceiveReport, InsertResolution, MarkResolved, MarkDisputed,
                  RequestFails, tables
    <3> QED BY <2>5, <2>6, <3>1, OtherMoves
  <2>7. ASSUME NEW q \in Reviewing(d), RequestFails(q)
        PROVE  Clean(d)'
    <3>1. HalfDone(request[q]) \subseteq mishaps' BY <2>7 DEF RequestFails
    <3>2. ~Started(q)
      <4>1. Reviewer(q) /\ request[q].row = d BY <1>4
      <4> QED BY <3>1, <4>1 DEF HalfDone, Started, FirstOf, Reviewer
    <3>3. disputes[d].new = "none" /\ Reviewing(d) = {q} BY <2>3, <3>2 DEF Clean
    <3>4. /\ \A p \in Requests : p # q => request'[p] = request[p]
          /\ request'[q].route \notin {"admin", "agent"}
      BY <2>7, OtherMoves DEF Reviewing
    <3>5. Reviewing(d)' = {} BY <3>3, <3>4 DEF Reviewing
    <3>6. disputes' = disputes BY <2>7 DEF RequestFails, tables
    <3> QED BY <3>3, <3>5, <3>6 DEF Clean
  <2>8. ASSUME NEW q \in Requests, NEW e \in 1 .. Len(disputes), NEW route \in {"admin", "agent"},
               NEW says \in {"upheld", "escalate"} \cup Results, ReceiveReview(q, e, route, says)
        PROVE  Clean(d)'
    <3> DEFINE r == [route |-> route, at |-> FirstOf(route, says),
                     market |-> resolutions[disputes[e].row].market, row |-> e, says |-> says]
    <3>1. /\ \A p \in Requests : p # q => request'[p] = request[p]
          /\ request[q] = Idle /\ request'[q] = r
      BY <2>8, ReviewBegins
    <3>2. r.row = e /\ r.route = route /\ r.at = FirstOf(route, says) /\ r.says = says OBVIOUS
    <3> HIDE DEF r
    <3>3. disputes' = disputes BY <2>8 DEF ReceiveReview, tables
    <3>4. q \notin Reviewing(d) BY <3>1 DEF Reviewing, Idle
    <3>5. CASE e # d BY <2>5, <3>1, <3>2, <3>3, <3>4, <3>5
    <3>6. CASE e = d
      <4>1. Reviewing(d) = {} BY <2>8, <3>6 DEF ReceiveReview
      <4>2. Reviewing(d)' = {q} BY <3>1, <3>2, <3>6, <4>1 DEF Reviewing
      <4>3. ~Started(q)' BY <3>1, <3>2 DEF Started
      <4>4. disputes[d].status \in Open BY <2>8, <3>6 DEF ReceiveReview, Open
      <4>5. disputes[d].new = "none" BY <2>3, <4>1, <4>4 DEF Clean, Open, Decided
      <4> QED BY <3>3, <4>2, <4>3, <4>4, <4>5 DEF Clean
    <3> QED BY <3>5, <3>6
  <2>9. ASSUME NEW q \in Requests, q \notin Reviewing(d),
               RecordNewResult(q) \/ DecideDispute(q) \/ FinalizeResolution(q) \/ FinalizeMarket(q)
        PROVE  Clean(d)'
    <3>1. disputes'[d] = disputes[d]
      <4>1. Reviewer(q) /\ request[q].row # d BY <2>9, ReviewMoves DEF Reviewing, Reviewer
      <4>2. \A i \in 1 .. Len(disputes) : i # request[q].row => disputes'[i] = disputes[i]
        BY <2>9 DEF RecordNewResult, DecideDispute, FinalizeResolution, FinalizeMarket, IInv, TypeOK
      <4> QED BY <2>2, <4>1, <4>2
    <3>2. \/ request'[q] = Idle
          \/ request'[q].route = request[q].route /\ request'[q].row = request[q].row
      BY <2>9, ReviewMoves
    <3>3. request'[q].route \notin {"admin", "agent"} \/ request'[q].row # d
      BY <2>9, <3>2 DEF Reviewing, Idle
    <3> QED BY <2>5, <2>9, <3>1, <3>3, ReviewMoves
  <2>10. ASSUME NEW q \in Reviewing(d),
                RecordNewResult(q) \/ DecideDispute(q) \/ FinalizeResolution(q) \/ FinalizeMarket(q)
         PROVE  Clean(d)'
    <3>1. q \in Requests /\ Reviewer(q) /\ request[q].row = d BY <1>4 DEF Reviewing
    <3>2. Reviewing(d) = {q} BY <2>3 DEF Clean
    <3>3. /\ \A p \in Requests : p # q => request'[p] = request[p]
          /\ request'[q].route \in {"admin", "agent"} => request'[q].row = d
      BY <2>10, <3>1, ReviewMoves DEF Idle
    <3>4. Reviewing(d)' = IF request'[q].route \in {"admin", "agent"} THEN {q} ELSE {}
      BY <3>1, <3>2, <3>3 DEF Reviewing
    <3>5. /\ Started(q) =>
               /\ request[q].says \in Results => disputes[d].new = request[q].says
               /\ request[q].route = "admin" => disputes[d].status \in Decided
          /\ ~Started(q) => disputes[d].status \in Open /\ disputes[d].new = "none"
      BY <2>3 DEF Clean
    <3> USE DEF Results, Decided
    <3>6. CASE RecordNewResult(q)
      <4>1. request[q].at = "new" BY <3>6 DEF RecordNewResult
      <4>2. request[q].route = "agent" /\ request[q].says \in Results
        BY <3>1, <4>1, StartedWhere
      <4>3. request'[q].at = "resolution" /\ request'[q].says = request[q].says
            /\ request'[q].route = "agent"
        BY <2>10, <3>1, <4>1, <4>2, ReviewMoves
      <4>4. disputes'[d].new = request[q].says BY <2>10, <3>1, <3>6, ReviewWrites
      <4>5. Started(q)' BY <4>2, <4>3 DEF Started, FirstOf
      <4> QED BY <3>4, <4>3, <4>4, <4>5 DEF Clean
    <3>7. CASE DecideDispute(q) /\ request[q].route = "admin"
      <4>1. request[q].at = "dispute" BY <3>7 DEF DecideDispute
      <4>2. request[q].says \in {"upheld"} \cup Results BY <3>1, <3>7, StartedWhere
      <4>3. request'[q].at = "resolution" /\ request'[q].says = request[q].says
            /\ request'[q].route = "admin"
        BY <2>10, <3>1, <3>7, <4>1, ReviewMoves
      <4>4. disputes'[d].status \in Decided
            /\ (request[q].says \in Results => disputes'[d].new = request[q].says)
        BY <2>10, <3>1, <3>7, <4>2, ReviewWrites DEF StatusOf
      <4>5. Started(q)' BY <4>3 DEF Started, FirstOf
      <4> QED BY <3>4, <4>3, <4>4, <4>5 DEF Clean
    <3>8. CASE DecideDispute(q) /\ request[q].route = "agent"
      <4>1. request[q].at = "dispute" BY <3>8 DEF DecideDispute
      <4>2. request'[q] = Idle BY <2>10, <3>1, <3>8, <4>1, ReviewMoves
      <4>3. disputes'[d].new = disputes[d].new /\ disputes'[d].status = StatusOf(request[q].says)
        BY <2>10, <3>1, <3>8, ReviewWrites
      <4>4. CASE request[q].says = "escalate"
        <5>1. ~Started(q) BY <3>1, <4>1, <4>4, StartedWhere
        <5> QED BY <3>4, <3>5, <4>2, <4>3, <5>1 DEF Clean, Idle
      <4>5. CASE request[q].says # "escalate"
        <5>1. disputes'[d].status \in Decided BY <3>1, <4>3, <4>5, StartedWhere DEF StatusOf
        <5> QED BY <3>4, <4>2, <5>1 DEF Clean, Idle
      <4> QED BY <4>4, <4>5
    <3>9. CASE FinalizeResolution(q)
      <4>1. request[q].at = "resolution" BY <3>9 DEF FinalizeResolution
      <4>2. /\ request'[q].at = "market" /\ request'[q].says = request[q].says
            /\ request'[q].route = request[q].route
        BY <2>10, <3>1, <4>1, ReviewMoves
      <4>3. disputes'[d] = disputes[d] BY <2>10, <3>1, <3>9, ReviewWrites
      <4>4. Started(q)' BY <3>1, <4>2, StartedWhere DEF Started, FirstOf
      <4>5. /\ request[q].says \in Results => disputes[d].new = request[q].says
            /\ request[q].route = "admin" => disputes[d].status \in Decided
        BY <3>1, <3>5, <4>1, StartedWhere
      <4>6. Reviewing(d)' = {q} BY <3>1, <3>4, <4>2 DEF Reviewer
      <4> QED BY <4>2, <4>3, <4>4, <4>5, <4>6 DEF Clean
    <3>10. CASE FinalizeMarket(q) /\ request[q].route = "admin"
      <4>1. request[q].at = "market" BY <3>10 DEF FinalizeMarket
      <4>2. request'[q] = Idle BY <2>10, <3>1, <3>10, <4>1, ReviewMoves
      <4>3. disputes'[d] = disputes[d] BY <2>10, <3>1, <3>10, ReviewWrites
      <4>4. disputes[d].status \in Decided BY <3>1, <3>5, <3>10, <4>1, StartedWhere
      <4> QED BY <3>4, <4>2, <4>3, <4>4 DEF Clean, Idle
    <3>11. CASE FinalizeMarket(q) /\ request[q].route = "agent"
      <4>1. request[q].at = "market" BY <3>11 DEF FinalizeMarket
      <4>2. /\ request'[q].at = "dispute" /\ request'[q].says = request[q].says
            /\ request'[q].route = "agent"
        BY <2>10, <3>1, <3>11, <4>1, ReviewMoves
      <4>3. disputes'[d] = disputes[d] BY <2>10, <3>1, <3>11, ReviewWrites
      <4>4. Started(q) /\ request[q].says \in {"upheld"} \cup Results
        BY <3>1, <4>1, StartedWhere
      <4>5. Started(q)' BY <4>2, <4>4 DEF Started, FirstOf
      <4> QED BY <3>4, <3>5, <4>2, <4>3, <4>4, <4>5 DEF Clean
    <3> QED BY <2>10, <3>1, <3>6, <3>7, <3>8, <3>9, <3>10, <3>11 DEF Reviewer
  <2>11. ASSUME NEW q \in Requests, RequestFails(q) PROVE Clean(d)' BY <2>6, <2>7, <2>11
  <2>12. ASSUME NEW q \in Requests, Receive(q) PROVE Clean(d)'
    <3>1. request[q] = Idle BY <2>12 DEF Receive, ReceiveDispute, ReceiveReport, ReceiveReview
    <3>2. q \notin Reviewing(d) BY <3>1 DEF Reviewing, Idle
    <3> QED BY <2>6, <2>8, <2>12, <3>2 DEF Receive
  <2>13. ASSUME NEW q \in Requests, Statement(q) PROVE Clean(d)'
    <3>1. InsertResolution(q) \/ MarkResolved(q) \/ MarkDisputed(q) => q \notin Reviewing(d)
      BY DEF InsertResolution, MarkResolved, MarkDisputed, Reviewing
    <3> QED BY <1>6, <2>6, <2>9, <2>10, <2>13, <3>1 DEF Statement
  <2> QED BY <2>4, <2>11, <2>12, <2>13
<1> QED BY <1>5, <1>6

\* The new result of a dispute is written once.
LEMMA NewResultStays ==
  ASSUME IInv, OnTrack, ReviewsAccounted, [Next]_vars,
         NEW d \in 1 .. Len(disputes), disputes[d].new # "none", <<"review", d>> \notin mishaps
  PROVE  disputes'[d].new = disputes[d].new
<1>1. Clean(d) BY DEF ReviewsAccounted
<1>2. Len(disputes) \in Nat /\ d \in 1 .. Len(disputes)' BY IInvStep, TablesGrow DEF IInv, TypeOK
<1>3. ASSUME NEW q \in Reviewing(d), RecordNewResult(q) \/ DecideDispute(q)
      PROVE  disputes'[d].new = disputes[d].new
  <2>1. q \in Requests /\ Reviewer(q) BY DEF Reviewing, Reviewer
  <2>2. Started(q) BY <1>1 DEF Clean
  <2>3. request[q].at # "new" BY <2>1, <2>2, StartedWhere
  <2>4. DecideDispute(q) /\ request[q].at = "dispute" BY <1>3, <2>3 DEF RecordNewResult, DecideDispute
  <2>5. request[q].route = "agent" BY <2>1, <2>2, <2>4, StartedWhere
  <2> QED BY <2>1, <2>4, <2>5, ReviewWrites
<1> QED BY <1>2, <1>3, DisputeWriters

\* Every step keeps the explanations of overturned results.
LEMMA OverturnsStep ==
  ASSUME IInv, OnTrack, ReviewsAccounted, OverturnsExplained, [Next]_vars
  PROVE  OverturnsExplained'
<1> SUFFICES ASSUME NEW r \in 1 .. Len(resolutions)',
                    resolutions'[r].result # resolutions'[r].reported
             PROVE  \E d \in DisputesOf(r)' :
                      disputes'[d].new = resolutions'[r].result \/ <<"review", d>> \in mishaps'
  BY DEF OverturnsExplained
<1>1. /\ resolutions \in Seq(Resolutions) /\ Len(resolutions) \in Nat /\ Len(disputes) \in Nat
      /\ DOMAIN resolutions = 1 .. Len(resolutions)
  BY LenProperties DEF IInv, TypeOK
<1>2. mishaps \subseteq mishaps' BY TablesGrow
<1>3. ASSUME NEW d \in DisputesOf(r) PROVE d \in DisputesOf(r)' /\ d \in 1 .. Len(disputes)
  <2>1. Len(disputes)' \in Nat BY IInvStep DEF IInv, TypeOK
  <2> QED BY <1>1, <2>1, TablesGrow DEF DisputesOf
<1>4. ASSUME r \in 1 .. Len(resolutions), resolutions'[r].result = resolutions[r].result,
             resolutions'[r].reported = resolutions[r].reported
      PROVE  \E d \in DisputesOf(r)' :
               disputes'[d].new = resolutions'[r].result \/ <<"review", d>> \in mishaps'
  <2>1. PICK d \in DisputesOf(r) :
          disputes[d].new = resolutions[r].result \/ <<"review", d>> \in mishaps
    BY <1>4 DEF OverturnsExplained
  <2>2. resolutions[r] \in Resolutions BY <1>1, <1>4, ElementOfSeq
  <2>3. resolutions[r].result # "none" BY <2>2 DEF Resolutions, Results
  <2>4. <<"review", d>> \notin mishaps => disputes'[d].new = disputes[d].new
    BY <1>3, <2>1, <2>3, NewResultStays
  <2> QED BY <1>2, <1>3, <1>4, <2>1, <2>4
<1>5. CASE SweepResolutions
  <2>1. /\ Len(resolutions') = Len(resolutions)
        /\ \A s \in 1 .. Len(resolutions) :
             /\ resolutions'[s].result = resolutions[s].result
             /\ resolutions'[s].reported = resolutions[s].reported
    BY <1>1, <1>5, Rows(sweep.market) \in SUBSET (1 .. Len(resolutions)), SweptRows
       DEF SweepResolutions, Rows
  <2> QED BY <1>4, <2>1
<1>6. ASSUME NEW q \in Requests, InsertResolution(q)
      PROVE  r \in 1 .. Len(resolutions) /\ resolutions'[r] = resolutions[r]
  <2> DEFINE row == [market |-> request[q].market, reported |-> request[q].says,
                     result |-> request[q].says, status |-> "resolved"]
  <2>1. request[q] \in NewRulings
    BY <1>6 DEF IInv, TypeOK, Idle, NewDisputes, Reviews, InsertResolution
  <2>2. row \in Resolutions /\ row.result = row.reported BY <2>1 DEF NewRulings, Resolutions
  <2>3. resolutions' = Append(resolutions, row) BY <1>6 DEF InsertResolution
  <2> HIDE DEF row
  <2>4. /\ Len(resolutions') = Len(resolutions) + 1
        /\ \A i \in 1 .. Len(resolutions) : resolutions'[i] = resolutions[i]
        /\ resolutions'[Len(resolutions) + 1] = row
    BY <1>1, <2>2, <2>3
  <2> QED BY <1>1, <2>2, <2>4
<1>7. ASSUME NEW q \in Requests, FinalizeResolution(q)
      PROVE  \E d \in DisputesOf(r)' :
               disputes'[d].new = resolutions'[r].result \/ <<"review", d>> \in mishaps'
  <2> DEFINE d == request[q].row
             w == disputes[d].row
             e == Finalized(resolutions[w], request[q].says)
  <2>1. Reviewer(q) /\ request[q].at = "resolution" /\ disputes' = disputes
    BY <1>7, ReviewMoves DEF FinalizeResolution
  <2>2. d \in 1 .. Len(disputes) /\ w \in 1 .. Len(resolutions)
    BY <2>1 DEF IInv, RowsExist, Reviewer
  <2>3. resolutions[w] \in Resolutions BY <1>1, <2>2, ElementOfSeq
  <2>4. resolutions' = [resolutions EXCEPT ![w] = e] BY <1>7 DEF FinalizeResolution
  <2>5. e.reported = resolutions[w].reported
        /\ e.result = IF request[q].says \in Results THEN request[q].says ELSE resolutions[w].result
    BY <2>3 DEF Finalized, Resolutions
  <2>6. r \in 1 .. Len(resolutions) BY <1>7, ReviewRows
  <2>7. resolutions'[r] = IF r = w THEN e ELSE resolutions[r]
    <3> HIDE DEF e, w
    <3> QED BY <1>1, <2>4, <2>6
  <2>8. CASE r # w \/ request[q].says \notin Results
    BY <1>4, <2>5, <2>6, <2>7, <2>8
  <2>9. CASE r = w /\ request[q].says \in Results
    <3>1. d \in DisputesOf(r) BY <2>2, <2>9 DEF DisputesOf
    <3>2. Started(q) BY <2>1, <2>9, StartedWhere
    <3>3. q \in Reviewing(d) BY <2>1 DEF Reviewing, Reviewer
    <3>4. <<"review", d>> \in mishaps \/ disputes[d].new = request[q].says
      BY <2>2, <2>9, <3>2, <3>3 DEF ReviewsAccounted, Clean
    <3>5. resolutions'[r].result = request[q].says BY <2>5, <2>7, <2>9
    <3> QED BY <1>2, <1>3, <2>1, <3>1, <3>4, <3>5
  <2> QED BY <2>8, <2>9
<1> QED BY <1>4, <1>5, <1>6, <1>7, ResolutionWriters

\* A result is changed by a dispute only, which says so: the reports, the sweep
\* and the two review routes leave no other trace in a resolution.
THEOREM OverturnsTraceable == Spec => []OverturnsExplained
<1>1. Init => OnTrack /\ ReviewsAccounted /\ OverturnsExplained
  BY DEF Init, OnTrack, Reviewer, Idle, ReviewsAccounted, OverturnsExplained
<1>2. IInv /\ OnTrack /\ ReviewsAccounted /\ OverturnsExplained /\ [Next]_vars
        => OnTrack' /\ ReviewsAccounted' /\ OverturnsExplained'
  BY OnTrackStep, CleanStep, OverturnsStep
<1> QED BY IInvHolds, <1>1, <1>2, PTL DEF Spec

-----------------------------------------------------------------------------
(* Disputed markets.                                                         *)

\* A submission between its two statements has inserted a dispute of its market,
\* which is pending and nobody reviews, or somebody was faster.
FilingsFresh ==
  \A q \in Requests : request[q].route = "file" /\ request[q].at = "market" =>
    /\ request[q].row \in 1 .. Len(disputes)
    /\ resolutions[disputes[request[q].row].row].market = request[q].market
    /\ \/ <<"file", request[q].market>> \in mishaps
       \/ disputes[request[q].row].status = "pending" /\ Reviewing(request[q].row) = {}

\* Every step keeps the submissions fresh.
LEMMA FilingsStep ==
  ASSUME IInv, OnTrack, FilingsFresh, [Next]_vars
  PROVE  FilingsFresh'
<1> SUFFICES ASSUME NEW p \in Requests, request'[p].route = "file", request'[p].at = "market"
             PROVE  /\ request'[p].row \in 1 .. Len(disputes)'
                    /\ resolutions'[disputes'[request'[p].row].row].market = request'[p].market
                    /\ \/ <<"file", request'[p].market>> \in mishaps'
                       \/ /\ disputes'[request'[p].row].status = "pending"
                          /\ Reviewing(request[p].row)' = {}
  BY DEF FilingsFresh
<1>1. /\ disputes \in Seq(Disputes) /\ Len(disputes) \in Nat /\ Len(resolutions) \in Nat
      /\ Len(disputes)' \in Nat /\ DOMAIN request = Requests
  BY IInvStep DEF IInv, TypeOK
<1>2. mishaps \subseteq mishaps' BY TablesGrow
<1>3. CASE request'[p] = request[p]
  <2>1. PICK d \in 1 .. Len(disputes) :
          /\ d = request[p].row /\ disputes[d].row \in 1 .. Len(resolutions)
          /\ resolutions[disputes[d].row].market = request[p].market
          /\ \/ <<"file", request[p].market>> \in mishaps
             \/ disputes[d].status = "pending" /\ Reviewing(d) = {}
    BY <1>3 DEF FilingsFresh, IInv, RowsExist
  <2>2. d \in 1 .. Len(disputes)' /\ resolutions'[disputes'[d].row].market = request[p].market
    BY <1>1, <2>1, TablesGrow
  <2> SUFFICES ASSUME <<"file", request[p].market>> \notin mishaps'
               PROVE  disputes'[d].status = "pending" /\ Reviewing(d)' = {}
    BY <1>3, <2>1, <2>2
  <2>3. disputes[d].status = "pending" /\ Reviewing(d) = {} BY <1>2, <2>1
  <2>4. disputes'[d] = disputes[d] BY <1>1, <2>1, <2>2, <2>3, DisputeWriters
  <2>5. ASSUME NEW q \in Reviewing(d)'
        PROVE  FALSE
    <3>1. q \in Requests /\ request'[q] # request[q] BY <2>3 DEF Reviewing
    <3>2. PICK s \in Requests : Receive(s) \/ Statement(s) \/ RequestFails(s)
      BY <3>1, NobodysStep
    <3>3. ASSUME NEW e \in 1 .. Len(disputes), NEW route \in {"admin", "agent"},
                 NEW says \in {"upheld", "escalate"} \cup Results, ReceiveReview(s, e, route, says)
          PROVE  FALSE
      <4>1. s = q BY <3>1, <3>3, ReviewBegins
      <4>2. request'[q] = [route |-> route, at |-> FirstOf(route, says),
                           market |-> resolutions[disputes[e].row].market, row |-> e, says |-> says]
        BY <3>3, <4>1, ReviewBegins
      <4>3. e = d BY <4>2 DEF Reviewing
      <4>4. p \in Filing(d) BY <1>3, <2>1 DEF Filing
      <4>5. <<"file", request[p].market>> \in mishaps'
        BY <2>1, <3>3, <4>3, <4>4 DEF ReceiveReview
      <4> QED BY <4>5
    <3>4. ASSUME RecordNewResult(s) \/ DecideDispute(s) \/ FinalizeResolution(s) \/ FinalizeMarket(s)
          PROVE  FALSE
      <4>1. s = q BY <3>1, <3>4, ReviewMoves
      <4>2. q \in Reviewing(d) BY <3>1, <3>4, <4>1, ReviewMoves DEF Reviewing, Reviewer, Idle
      <4> QED BY <2>3, <4>2
    <3>5. ASSUME \/ \E m \in Markets : ReceiveDispute(s, m) \/ \E x \in Results : ReceiveReport(s, m, x)
                 \/ InsertResolution(s) \/ MarkResolved(s) \/ InsertDispute(s) \/ MarkDisputed(s)
                 \/ RequestFails(s)
          PROVE  FALSE
      BY <3>1, <3>5, OtherMoves DEF Reviewing
    <3> QED BY <3>2, <3>3, <3>4, <3>5 DEF Receive, Statement
  <2> QED BY <2>3, <2>4, <2>5
<1>4. CASE request'[p] # request[p]
  <2>1. PICK s \in Requests : Receive(s) \/ Statement(s) \/ RequestFails(s) BY <1>4, NobodysStep
  <2>2. InsertDispute(p)
    <3>1. ASSUME NEW m \in Markets, ReceiveDispute(s, m) PROVE FALSE
      BY <1>1, <1>4, <3>1 DEF ReceiveDispute, Idle
    <3>2. ASSUME NEW m \in Markets, NEW x \in Results, ReceiveReport(s, m, x) PROVE FALSE
      BY <1>1, <1>4, <3>2 DEF ReceiveReport, Idle
    <3>3. ASSUME NEW e \in 1 .. Len(disputes), NEW route \in {"admin", "agent"},
                 NEW says \in {"upheld", "escalate"} \cup Results, ReceiveReview(s, e, route, says)
          PROVE  FALSE
      BY <1>1, <1>4, <3>3 DEF ReceiveReview
    <3>4. ASSUME RecordNewResult(s) \/ DecideDispute(s) \/ FinalizeResolution(s) \/ FinalizeMarket(s)
          PROVE  FALSE
      BY <1>4, <3>4, ReviewMoves DEF Idle, Reviewer
    <3>5. ASSUME InsertResolution(s) PROVE FALSE
      BY <1>1, <1>4, <3>5 DEF InsertResolution, IInv, TypeOK, Idle, NewRulings, NewDisputes, Reviews
    <3>6. ASSUME MarkResolved(s) \/ MarkDisputed(s) \/ RequestFails(s) PROVE FALSE
      BY <1>1, <1>4, <3>6 DEF MarkResolved, MarkDisputed, RequestFails, Idle
    <3>7. ASSUME InsertDispute(s) PROVE s = p
      BY <1>4, <3>7, OtherMoves
    <3> QED BY <2>1, <3>1, <3>2, <3>3, <3>4, <3>5, <3>6, <3>7 DEF Receive, Statement
  <2> DEFINE row == [row |-> request[p].row, status |-> "pending", new |-> "none"]
  <2>3. PICK d \in Nat : d = Len(disputes) + 1 BY <1>1
  <2>4. request[p] \in NewDisputes /\ p \in Inserting("file")
    BY <2>2 DEF IInv, TypeOK, Idle, NewRulings, Reviews, InsertDispute, Inserting
  <2>5. request'[p].row = d /\ request'[p].market = request[p].market
    BY <1>1, <2>2, <2>4, <2>3 DEF InsertDispute, NewDisputes
  <2>6. disputes' = Append(disputes, row) /\ resolutions' = resolutions BY <2>2 DEF InsertDispute
  <2>7. row.row = request[p].row /\ row.status = "pending" OBVIOUS
  <2> HIDE DEF row
  <2>8. Len(disputes)' = Len(disputes) + 1 /\ disputes'[d] = row BY <1>1, <2>6, <2>3
  <2>9. resolutions[request[p].row].market = request[p].market BY <2>4 DEF IInv, RowsExist
  <2>10. Reviewing(d)' = {}
    <3>1. \A q \in Requests : q # p => request'[q] = request[q] BY <2>2, OtherMoves
    <3>2. Reviewing(d) = {} BY <1>1, <2>3 DEF Reviewing, IInv, RowsExist
    <3>3. request'[p].route = "file" OBVIOUS
    <3> QED BY <3>1, <3>2, <3>3 DEF Reviewing
  <2> QED BY <1>1, <2>3, <2>5, <2>6, <2>7, <2>8, <2>9, <2>10
<1> QED BY <1>3, <1>4

\* A review that still has to make its market final, and one that has only its
\* dispute to close.
WillClose(q) == Reviewer(q) /\ (request[q].route = "agent" => request[q].at # "dispute")
AtTheEnd(q) == request[q].route = "agent" /\ request[q].at = "dispute" /\ Started(q)

\* A dispute somebody can still review, or that met a mishap.
Pursued(d) ==
  \/ <<"review", d>> \in mishaps
  \/ disputes[d].status \in Open /\ \A q \in Reviewing(d) : ~AtTheEnd(q)

Heard(m) ==
  \/ <<"file", m>> \in mishaps
  \/ \E q \in Requests : WillClose(q) /\ request[q].market = m
  \/ \E r \in Rows(m) : \E d \in DisputesOf(r) : Pursued(d)

DisputedHeard == \A m \in Markets : status[m] = "disputed" => Heard(m)

\* A dispute is one of the market's, and stays one.
LEMMA DisputeOfMarket ==
  ASSUME IInv, [Next]_vars, NEW m, NEW r \in Rows(m), NEW d \in DisputesOf(r), Pursued(d)'
  PROVE  Heard(m)'
<1>1. /\ Len(disputes) \in Nat /\ Len(resolutions) \in Nat
      /\ Len(disputes)' \in Nat /\ Len(resolutions)' \in Nat
  BY IInvStep DEF IInv, TypeOK
<1>2. r \in Rows(m)' BY <1>1, TablesGrow DEF Rows
<1>3. d \in DisputesOf(r)' BY <1>1, TablesGrow DEF DisputesOf
<1> QED BY <1>2, <1>3 DEF Heard

\* The market of a review is that of its dispute.
LEMMA ReviewsMarket ==
  ASSUME IInv, NEW q \in Requests, Reviewer(q)
  PROVE  \E r \in Rows(request[q].market) : request[q].row \in DisputesOf(r)
BY DEF IInv, RowsExist, Reviewer, Rows, DisputesOf

\* A market that somebody is about to close is still heard of when that review
\* moves on or fails.
LEMMA CloserStep ==
  ASSUME IInv, OnTrack, ReviewsAccounted, [Next]_vars,
         NEW m \in Markets, NEW q \in Requests, WillClose(q), request[q].market = m,
         status'[m] = "disputed"
  PROVE  Heard(m)'
<1> DEFINE d == request[q].row
<1>1. q \in Requests /\ Reviewer(q) /\ request[q] # Idle BY DEF WillClose, Reviewer, Idle
<1>2. CASE request'[q] = request[q]
  <2>1. WillClose(q)' BY <1>2 DEF WillClose, Reviewer
  <2> QED BY <1>2, <2>1 DEF Heard
<1>3. CASE RecordNewResult(q) \/ DecideDispute(q) \/ FinalizeResolution(q)
  <2>1. request[q].at = "dispute" => request[q].route = "admin" BY <1>1 DEF WillClose, Reviewer
  <2>2. request[q].at \in {"new", "dispute", "resolution"}
    BY <1>3 DEF RecordNewResult, DecideDispute, FinalizeResolution
  <2>3. request'[q].route = request[q].route /\ request'[q].market = m
        /\ request'[q].at \in {"resolution", "market"}
    BY <1>3, <2>1, <2>2, ReviewMoves
  <2>4. WillClose(q)' BY <1>1, <2>3 DEF WillClose, Reviewer
  <2> QED BY <2>3, <2>4 DEF Heard
<1>4. CASE FinalizeMarket(q)
  <2>1. status'[m] = "finalized" BY <1>4 DEF FinalizeMarket, IInv, TypeOK
  <2> QED BY <2>1
<1>5. CASE RequestFails(q)
  <2>1. /\ \A p \in Requests : p # q => request'[p] = request[p]
        /\ request'[q].route \notin {"admin", "agent"}
    BY <1>5, OtherMoves
  <2>2. mishaps' = mishaps \cup HalfDone(request[q]) /\ disputes' = disputes
    BY <1>5 DEF RequestFails, tables
  <2>3. PICK r \in Rows(m) : request[q].row \in DisputesOf(r) BY <1>1, ReviewsMarket
  <2>4. PICK e \in DisputesOf(r) : e = request[q].row BY <2>3
  <2>5. e \in 1 .. Len(disputes) /\ q \in Reviewing(e)
    BY <1>1, <2>4 DEF DisputesOf, Reviewing, Reviewer
  <2>6. <<"review", e>> \in mishaps' \/ (Clean(e) /\ ~Started(q))
    BY <1>1, <2>2, <2>4, <2>5 DEF ReviewsAccounted, HalfDone, Started, FirstOf, Reviewer
  <2>7. ASSUME Clean(e), ~Started(q) PROVE disputes'[e].status \in Open /\ Reviewing(e)' = {}
    BY <2>1, <2>2, <2>5, <2>7 DEF Clean, Reviewing
  <2>8. Pursued(e)' BY <2>6, <2>7 DEF Pursued
  <2> QED BY <2>4, <2>8, DisputeOfMarket
<1>6. CASE request'[q] # request[q]
  <2>1. PICK s \in Requests : Receive(s) \/ Statement(s) \/ RequestFails(s) BY <1>6, NobodysStep
  <2>2. ASSUME Receive(s) PROVE FALSE
    <3>1. s # q BY <1>1, <2>2 DEF Receive, ReceiveDispute, ReceiveReport, ReceiveReview
    <3> QED BY <1>6, <2>2, <3>1, OtherMoves, ReviewBegins DEF Receive
  <2>3. ASSUME \/ InsertResolution(s) \/ MarkResolved(s) \/ InsertDispute(s) \/ MarkDisputed(s)
               \/ RequestFails(s)
        PROVE  RequestFails(q)
    <3>1. s = q BY <1>6, <2>3, OtherMoves
    <3> QED BY <1>1, <2>3, <3>1 DEF InsertResolution, MarkResolved, InsertDispute, MarkDisputed, Reviewer
  <2>4. ASSUME RecordNewResult(s) \/ DecideDispute(s) \/ FinalizeResolution(s) \/ FinalizeMarket(s)
        PROVE  s = q
    BY <1>6, <2>4, ReviewMoves
  <2> QED BY <1>3, <1>4, <1>5, <2>1, <2>2, <2>3, <2>4 DEF Statement
<1> QED BY <1>2, <1>6

\* A dispute somebody can still review: it stays one, or whoever closes it goes
\* on to close the market.
LEMMA PursuedStep ==
  ASSUME IInv, OnTrack, [Next]_vars,
         NEW m \in Markets, NEW r \in Rows(m), NEW d \in DisputesOf(r),
         disputes[d].status \in Open, \A q \in Reviewing(d) : ~AtTheEnd(q),
         status'[m] = "disputed"
  PROVE  Heard(m)'
<1>1. /\ d \in 1 .. Len(disputes) /\ Len(disputes) \in Nat /\ Len(disputes)' \in Nat
      /\ disputes[d].row = r /\ resolutions[r].market = m
  BY IInvStep DEF DisputesOf, Rows, IInv, TypeOK
<1>2. SUFFICES Pursued(d)' \/ Heard(m)' BY DisputeOfMarket
<1>3. \A q \in Reviewing(d) : Reviewer(q) /\ request[q].row = d /\ request[q].market = m
  BY <1>1 DEF Reviewing, Reviewer, IInv, RowsExist
<1>4. ASSUME disputes'[d].status \in Open,
             \A q \in Reviewing(d)' : request'[q] # request[q] => ~AtTheEnd(q)'
      PROVE  Pursued(d)'
  <2>1. ASSUME NEW q \in Reviewing(d)' PROVE ~AtTheEnd(q)'
    <3>1. CASE request'[q] = request[q]
      <4>1. q \in Reviewing(d) BY <3>1 DEF Reviewing
      <4> QED BY <3>1, <4>1 DEF AtTheEnd, Started
    <3> QED BY <1>4, <3>1
  <2> QED BY <1>4, <2>1 DEF Pursued
<1>5. CASE ~\E q \in Requests : Receive(q) \/ Statement(q) \/ RequestFails(q)
  BY <1>4, <1>5, NobodysStep DEF Reviewing
<1>6. ASSUME NEW q \in Requests,
             \/ \E n \in Markets : ReceiveDispute(q, n) \/ \E x \in Results : ReceiveReport(q, n, x)
             \/ InsertResolution(q) \/ MarkResolved(q) \/ InsertDispute(q) \/ MarkDisputed(q)
             \/ RequestFails(q)
      PROVE  Pursued(d)'
  <2>1. disputes'[d] = disputes[d]
    <3>1. CASE InsertDispute(q)
      <4> DEFINE row == [row |-> request[q].row, status |-> "pending", new |-> "none"]
      <4>1. disputes' = Append(disputes, row) BY <3>1 DEF InsertDispute
      <4> HIDE DEF row
      <4>2. disputes \in Seq(Disputes) BY DEF IInv, TypeOK
      <4> QED BY <1>1, <4>1, <4>2
    <3>2. CASE ~InsertDispute(q)
      BY <1>6, <3>2 DEF ReceiveDispute, ReceiveReport, InsertResolution, MarkResolved, MarkDisputed,
                        RequestFails, tables
    <3> QED BY <3>1, <3>2
  <2>2. /\ \A p \in Requests : p # q => request'[p] = request[p]
        /\ request'[q].route \notin {"admin", "agent"}
    BY <1>6, OtherMoves
  <2> QED BY <1>4, <2>1, <2>2 DEF Reviewing
<1>7. ASSUME NEW q \in Requests, NEW e \in 1 .. Len(disputes), NEW route \in {"admin", "agent"},
             NEW says \in {"upheld", "escalate"} \cup Results, ReceiveReview(q, e, route, says)
      PROVE  Pursued(d)'
  <2> DEFINE f == [route |-> route, at |-> FirstOf(route, says),
                   market |-> resolutions[disputes[e].row].market, row |-> e, says |-> says]
  <2>1. /\ \A p \in Requests : p # q => request'[p] = request[p]
        /\ request'[q] = f
    BY <1>7, ReviewBegins
  <2>2. f.route = route /\ f.at = FirstOf(route, says) /\ f.says = says OBVIOUS
  <2> HIDE DEF f
  <2>3. ~Started(q)' BY <2>1, <2>2 DEF Started
  <2>4. disputes' = disputes BY <1>7 DEF ReceiveReview, tables
  <2> QED BY <1>4, <2>1, <2>3, <2>4 DEF AtTheEnd, Reviewing
<1>8. ASSUME NEW q \in Requests,
             RecordNewResult(q) \/ DecideDispute(q) \/ FinalizeResolution(q) \/ FinalizeMarket(q)
      PROVE  Pursued(d)' \/ Heard(m)'
  <2>1. Reviewer(q) /\ \A p \in Requests : p # q => request'[p] = request[p]
    BY <1>8, ReviewMoves
  <2>2. CASE q \notin Reviewing(d)
    <3>1. request[q].row # d BY <2>1, <2>2 DEF Reviewing, Reviewer
    <3>2. \A i \in 1 .. Len(disputes) : i # request[q].row => disputes'[i] = disputes[i]
      BY <1>8 DEF RecordNewResult, DecideDispute, FinalizeResolution, FinalizeMarket, IInv, TypeOK
    <3>3. q \notin Reviewing(d)'
      BY <1>8, <3>1, ReviewMoves DEF Reviewing, Idle
    <3> QED BY <1>1, <1>4, <2>1, <3>1, <3>2, <3>3 DEF Reviewing
  <2>3. CASE q \in Reviewing(d) /\ FinalizeMarket(q)
    <3>1. status'[m] = "finalized" BY <1>3, <2>3 DEF FinalizeMarket, IInv, TypeOK
    <3> QED BY <3>1
  <2>4. CASE q \in Reviewing(d) /\ (RecordNewResult(q) \/ FinalizeResolution(q))
    <3>1. disputes'[d].status = disputes[d].status BY <1>8, <2>4, ReviewWrites
    <3>2. request[q].at \in {"new", "resolution"} BY <2>4 DEF RecordNewResult, FinalizeResolution
    <3>3. request'[q].at \in {"resolution", "market"} BY <1>8, <3>2, ReviewMoves
    <3> QED BY <1>4, <2>1, <3>1, <3>3 DEF AtTheEnd, Reviewing
  <2>5. CASE q \in Reviewing(d) /\ DecideDispute(q) /\ request[q].route = "admin"
    <3>1. request[q].at = "dispute" BY <2>5 DEF DecideDispute
    <3>2. request'[q].at = "resolution" /\ request'[q].route = "admin" /\ request'[q].market = m
      BY <1>3, <1>8, <2>5, <3>1, ReviewMoves
    <3>3. WillClose(q)' BY <3>2 DEF WillClose, Reviewer
    <3> QED BY <3>2, <3>3 DEF Heard
  <2>6. CASE q \in Reviewing(d) /\ DecideDispute(q) /\ request[q].route = "agent"
    <3>1. request[q].at = "dispute" BY <2>6 DEF DecideDispute
    <3>2. ~Started(q) BY <2>6, <3>1 DEF AtTheEnd
    <3>3. request[q].says = "escalate" BY <2>1, <2>6, <3>1, <3>2, StartedWhere
    <3>4. disputes'[d].status \in Open BY <1>8, <2>6, <3>3, ReviewWrites DEF StatusOf, Open, Results
    <3>5. request'[q] = Idle BY <1>8, <2>6, <3>1, ReviewMoves
    <3>6. q \notin Reviewing(d)' BY <3>5 DEF Reviewing, Idle
    <3> QED BY <1>4, <2>1, <3>4, <3>6 DEF Reviewing
  <2> QED BY <1>8, <2>1, <2>2, <2>3, <2>4, <2>5, <2>6 DEF Reviewer
<1> QED BY <1>5, <1>6, <1>7, <1>8 DEF Receive, Statement

\* Every step keeps the disputed markets heard.
LEMMA HeardStep ==
  ASSUME IInv, OnTrack, ReviewsAccounted, FilingsFresh, DisputedHeard, [Next]_vars
  PROVE  DisputedHeard'
<1> SUFFICES ASSUME NEW m \in Markets, status'[m] = "disputed" PROVE Heard(m)' BY DEF DisputedHeard
<1>1. mishaps \subseteq mishaps' /\ DOMAIN status = Markets BY TablesGrow DEF IInv, TypeOK
<1>2. CASE status[m] = "disputed"
  <2>1. CASE <<"file", m>> \in mishaps BY <1>1, <2>1 DEF Heard
  <2>2. ASSUME NEW q \in Requests, WillClose(q), request[q].market = m PROVE Heard(m)'
    BY <2>2, CloserStep
  <2>3. ASSUME NEW r \in Rows(m), NEW d \in DisputesOf(r), <<"review", d>> \in mishaps
        PROVE  Heard(m)'
    <3>1. Pursued(d)' BY <1>1, <2>3 DEF Pursued
    <3> QED BY <3>1, DisputeOfMarket
  <2>4. ASSUME NEW r \in Rows(m), NEW d \in DisputesOf(r),
               disputes[d].status \in Open, \A q \in Reviewing(d) : ~AtTheEnd(q)
        PROVE  Heard(m)'
    BY <2>4, PursuedStep
  <2> QED BY <1>2, <2>1, <2>2, <2>3, <2>4 DEF DisputedHeard, Heard, Pursued
<1>3. CASE status[m] # "disputed"
  <2>1. \E q \in Requests : MarkDisputed(q)
    BY <1>1, <1>3 DEF Next, Expire, WindowEnds, Scan, StartScan, MarkResolving,
         PublishMarketResolve, ScanFails, Sweep, StartSweep, SweepMarket, SweepResolutions,
         SweepFails, Resolver, ResolverReturns, ResolverThrows, ResolverRetries, ResolverStops,
         Receive, ReceiveReport, ReceiveDispute, ReceiveReview, Statement, InsertResolution,
         MarkResolved, InsertDispute, RecordNewResult, DecideDispute, FinalizeResolution,
         FinalizeMarket, RequestFails, vars, tables
  <2>2. PICK q \in Requests : MarkDisputed(q) BY <2>1
  <2>3. request[q].market = m /\ request[q].route = "file" /\ request[q].at = "market"
        /\ disputes' = disputes
    BY <1>1, <1>3, <2>2 DEF MarkDisputed
  <2>4. PICK d \in 1 .. Len(disputes) :
          /\ d = request[q].row /\ resolutions[disputes[d].row].market = m
          /\ <<"file", m>> \in mishaps \/ (disputes[d].status = "pending" /\ Reviewing(d) = {})
    BY <2>3 DEF FilingsFresh
  <2>5. CASE <<"file", m>> \in mishaps BY <1>1, <2>5 DEF Heard
  <2>6. CASE disputes[d].status = "pending" /\ Reviewing(d) = {}
    <3>1. Reviewing(d)' = {} BY <2>2, <2>6, OtherMoves DEF Reviewing
    <3>2. Pursued(d)' BY <2>3, <2>6, <3>1 DEF Pursued, Open
    <3>3. disputes[d].row \in Rows(m) /\ d \in DisputesOf(disputes[d].row)
      BY <2>4 DEF IInv, RowsExist, Rows, DisputesOf
    <3> QED BY <3>2, <3>3, DisputeOfMarket
  <2> QED BY <2>4, <2>5, <2>6
<1> QED BY <1>2, <1>3

\* A disputed market has an open dispute or a review on its way, or else a review
\* or a submission met another or was cut off.
THEOREM DisputesHeard == Spec => []DisputedIsHeard
<1>1. Init => OnTrack /\ ReviewsAccounted /\ FilingsFresh /\ DisputedHeard
  BY DEF Init, OnTrack, Reviewer, Idle, ReviewsAccounted, FilingsFresh, DisputedHeard
<1>2. IInv /\ OnTrack /\ ReviewsAccounted /\ FilingsFresh /\ DisputedHeard /\ [Next]_vars
        => OnTrack' /\ ReviewsAccounted' /\ FilingsFresh' /\ DisputedHeard'
  BY OnTrackStep, CleanStep, FilingsStep, HeardStep
<1>3. DisputedHeard => DisputedIsHeard
  BY DEF DisputedHeard, Heard, Pursued, WillClose, Reviewer, DisputedIsHeard, HasOpenDispute
<1> QED BY IInvHolds, <1>1, <1>2, <1>3, PTL DEF Spec

-----------------------------------------------------------------------------
(* The promise about a market's status.                                      *)

\* A report in progress is of an unresolved market unless it races another, a
\* market with a dispute is resolved, and the sweep goes through markets with a
\* window that is over.
StatusInv ==
  /\ \A q \in Requests : request[q].route = "report" =>
       request[q].market \in Raced \/ status[request[q].market] \in Unresolved
  /\ \A m \in About({"file"}) \cup OnRecord : m \in Markets => status[m] \in Promised!Resolved
  /\ sweep.todo \subseteq WindowsOver

\* What one request does to the markets that requests of some routes are about.
LEMMA AboutMoves ==
  ASSUME TypeOK, NEW q \in Requests, NEW r, request' = [request EXCEPT ![q] = r], NEW routes
  PROVE  /\ r.route \in routes /\ request[q].route \in routes /\ r.market = request[q].market
              => About(routes)' = About(routes)
         /\ r.route \notin routes /\ request[q].route \notin routes => About(routes)' = About(routes)
         /\ r.route \in routes /\ request[q].route \notin routes
              => About(routes)' = About(routes) \cup {r.market}
         /\ r.route \notin routes /\ request[q].route \in routes
              => About(routes)' \in {About(routes), About(routes) \ {request[q].market}}
<1>1. \A p \in Requests : request'[p] = IF p = q THEN r ELSE request[p] BY DEF TypeOK
<1>2. \A x : x \in About(routes) <=> \E p \in Requests : request[p].route \in routes /\ x = request[p].market
  BY DEF About
<1>3. \A x : x \in About(routes)' <=> \E p \in Requests : request'[p].route \in routes /\ x = request'[p].market
  BY DEF About
<1>4. \A x : x \in About(routes)' => x \in About(routes) \/ (r.route \in routes /\ x = r.market)
  BY <1>1, <1>2, <1>3
<1>5. ASSUME NEW x \in About(routes), ~(request[q].route \in routes /\ x = request[q].market)
      PROVE  x \in About(routes)'
  <2>1. PICK p \in Requests : request[p].route \in routes /\ x = request[p].market BY <1>2
  <2>2. request'[p] = request[p] BY <1>1, <1>5, <2>1
  <2> QED BY <1>3, <2>1, <2>2
<1>6. r.route \in routes => r.market \in About(routes)' BY <1>1, <1>3
<1>7. CASE r.route \in routes
  <2>1. CASE request[q].route \in routes /\ r.market = request[q].market
    <3>1. \A x \in About(routes) : x \in About(routes)' BY <1>5, <1>6, <1>7, <2>1
    <3>2. r.market \in About(routes) BY <1>2, <2>1
    <3> QED BY <1>4, <2>1, <3>1, <3>2
  <2>2. CASE request[q].route \notin routes
    <3>1. \A x \in About(routes) : x \in About(routes)' BY <1>5, <2>2
    <3> QED BY <1>4, <1>6, <1>7, <2>2, <3>1
  <2> QED BY <1>7, <2>1, <2>2
<1>8. CASE r.route \notin routes BY <1>4, <1>5, <1>8
<1> QED BY <1>7, <1>8

\* No row is taken away, and none changes its market.
LEMMA MarketsRecorded ==
  ASSUME IInv, [Next]_vars
  PROVE  /\ closed' = closed => WindowsOver' = WindowsOver
         /\ Len(disputes)' = Len(disputes) => OnRecord' = OnRecord
         /\ WindowsOver \subseteq WindowsOver'
<1>1. /\ closed \subseteq 1 .. Len(resolutions)
      /\ \A d \in 1 .. Len(disputes) : disputes[d].row \in 1 .. Len(resolutions)
  BY DEF IInv, TypeOK, RowsExist
<1>2. \A r \in closed : resolutions'[r].market = resolutions[r].market BY <1>1, TablesGrow
<1>3. \A d \in 1 .. Len(disputes) :
        resolutions'[disputes'[d].row].market = resolutions[disputes[d].row].market
  BY <1>1, TablesGrow
<1>4. closed \subseteq closed' BY TablesGrow
<1> QED BY <1>2, <1>3, <1>4 DEF WindowsOver, OnRecord

\* A step that concerns neither status nor disputes, windows, reports or requests.
LEMMA NothingPromised ==
  ASSUME IInv, [Next]_vars, status' = status, Len(disputes)' = Len(disputes), closed' = closed,
         request' = request, Raced' = Raced
  PROVE  UNCHANGED Promised!vars
<1>1. About({"file"})' = About({"file"}) /\ About({"admin", "agent"})' = About({"admin", "agent"})
  BY DEF About
<1> QED BY <1>1, MarketsRecorded DEF Promised!vars

\* Steps of the clock, the cron jobs and the resolver.
LEMMA JobsPromised ==
  ASSUME IInv, StatusInv, [Next]_vars,
         ~\E q \in Requests : Receive(q) \/ Statement(q) \/ RequestFails(q)
  PROVE  [Promised!Next]_(Promised!vars)
<1> USE DEF tables, clock, broker, cron, history
<1>1. /\ DOMAIN status = Markets /\ scan.todo \subseteq Markets /\ sweep.todo \subseteq Markets
      /\ closed \subseteq 1 .. Len(resolutions)
      /\ \A r \in 1 .. Len(resolutions) : resolutions[r].market \in Markets
  <2>1. \A r \in 1 .. Len(resolutions) : resolutions[r] \in Resolutions
    BY ElementOfSeq DEF IInv, TypeOK
  <2> QED BY <2>1 DEF IInv, TypeOK, Jobs, Asleep, Resolutions
<1>2. request' = request /\ disputes' = disputes BY NobodysStep
<1>3. About({"file"})' = About({"file"}) /\ About({"admin", "agent"})' = About({"admin", "agent"})
  BY <1>2 DEF About
<1>4. OnRecord' = OnRecord BY <1>2, MarketsRecorded
<1>5. ASSUME NEW r \in 1 .. Len(resolutions), WindowEnds(r)
      PROVE  Promised!Next
  <2>1. closed' = closed \cup {r} /\ UNCHANGED <<status, resolutions, mishaps>>
    BY <1>5 DEF WindowEnds
  <2>2. WindowsOver' = WindowsOver \cup {resolutions[r].market} /\ Raced' = Raced
    BY <2>1 DEF WindowsOver, Raced
  <2>3. Promised!EndWindow(resolutions[r].market)
    BY <1>3, <1>4, <2>1, <2>2 DEF Promised!EndWindow
  <2> QED BY <1>1, <2>3 DEF Promised!Next
<1>6. CASE MarkResolving
  <2>1. PICK m \in scan.todo :
          status' = IF status[m] = "active" THEN [status EXCEPT ![m] = "resolving"] ELSE status
    BY <1>6 DEF MarkResolving
  <2>2. WindowsOver' = WindowsOver /\ Raced' = Raced
    BY <1>6, MarketsRecorded DEF MarkResolving, Raced
  <2>3. CASE status[m] = "active"
    <3>1. Promised!FallDue(m)
      BY <1>3, <1>4, <2>1, <2>2, <2>3 DEF Promised!FallDue, Promised!Become
    <3> QED BY <1>1, <3>1 DEF Promised!Next
  <2>4. CASE status[m] # "active" BY <1>3, <1>4, <2>1, <2>2, <2>4 DEF Promised!vars
  <2> QED BY <2>3, <2>4
<1>7. CASE SweepMarket
  <2>1. PICK m \in sweep.todo :
          status' = IF status[m] = "resolved" THEN [status EXCEPT ![m] = "finalized"] ELSE status
    BY <1>7 DEF SweepMarket
  <2>2. WindowsOver' = WindowsOver /\ Raced' = Raced
    BY <1>7, MarketsRecorded DEF SweepMarket, Raced
  <2>3. CASE status[m] = "resolved"
    <3>1. m \in WindowsOver BY DEF StatusInv
    <3>2. Promised!Close(m)
      BY <1>3, <1>4, <2>1, <2>2, <2>3, <3>1 DEF Promised!Close, Promised!Become
    <3> QED BY <1>1, <3>2 DEF Promised!Next
  <2>4. CASE status[m] # "resolved" BY <1>3, <1>4, <2>1, <2>2, <2>4 DEF Promised!vars
  <2> QED BY <2>3, <2>4
<1>8. CASE \/ \E m \in Markets : Expire(m)
           \/ StartScan \/ PublishMarketResolve \/ ScanFails
           \/ StartSweep \/ SweepResolutions \/ SweepFails
           \/ Resolver \/ ResolverStops \/ UNCHANGED vars
  <2>1. status' = status /\ closed' = closed
    BY <1>8 DEF Expire, StartScan, PublishMarketResolve, ScanFails, StartSweep, SweepResolutions,
                SweepFails, Resolver, ResolverReturns, ResolverThrows, ResolverRetries,
                ResolverStops, vars
  <2>2. Raced' = Raced
    <3>1. \A m : <<"report", m>> \in mishaps' <=> <<"report", m>> \in mishaps
      BY <1>8 DEF Expire, StartScan, PublishMarketResolve, ScanFails, StartSweep, SweepResolutions,
                  SweepFails, Resolver, ResolverReturns, ResolverThrows, ResolverRetries,
                  ResolverStops, vars
    <3> QED BY <3>1 DEF Raced
  <2> QED BY <1>2, <2>1, <2>2, NothingPromised
<1> QED BY <1>5, <1>6, <1>7, <1>8 DEF Next, Scan, Sweep

\* A request that concerns no market's disputes, and no step on a status.
LEMMA OtherRequestPromised ==
  ASSUME IInv, [Next]_vars, NEW q \in Requests, NEW r, request' = [request EXCEPT ![q] = r],
         \/ {r.route, request[q].route} \cap {"file", "admin", "agent"} = {}
         \/ r.route = request[q].route /\ r.market = request[q].market,
         status' = status, Len(disputes)' = Len(disputes), closed' = closed, Raced' = Raced
  PROVE  UNCHANGED Promised!vars
<1>1. ASSUME NEW routes \in {{"file"}, {"admin", "agent"}}
      PROVE  About(routes)' = About(routes)
  <2>1. CASE r.route \notin routes /\ request[q].route \notin routes BY <2>1, AboutMoves DEF IInv
  <2>2. CASE r.route \in routes /\ request[q].route \in routes /\ r.market = request[q].market
    BY <2>2, AboutMoves DEF IInv
  <2> QED BY <2>1, <2>2
<1>2. About({"file"})' = About({"file"}) /\ About({"admin", "agent"})' = About({"admin", "agent"})
  BY <1>1
<1> QED BY <1>2, MarketsRecorded DEF Promised!vars

\* A request begins.
LEMMA ReceivePromised ==
  ASSUME IInv, [Next]_vars, NEW q \in Requests, Receive(q)
  PROVE  [Promised!Next]_(Promised!vars)
<1> USE DEF tables, clock, broker, cron, history
<1>1. ASSUME NEW m \in Markets, NEW x \in Results, ReceiveReport(q, m, x)
      PROVE  [Promised!Next]_(Promised!vars)
  <2> DEFINE r == [Idle EXCEPT !.route = "report", !.at = "insert", !.market = m, !.says = x]
  <2>1. /\ request' = [request EXCEPT ![q] = r] /\ request[q] = Idle /\ status[m] \in Unresolved
        /\ UNCHANGED <<status, disputes, closed>>
    BY <1>1 DEF ReceiveReport
  <2>2. r.route = "report" /\ request[q].route = "none" BY <2>1 DEF Idle
  <2> HIDE DEF r
  <2>3. /\ About({"file"})' = About({"file"}) /\ About({"admin", "agent"})' = About({"admin", "agent"})
        /\ WindowsOver' = WindowsOver /\ OnRecord' = OnRecord
    BY <2>1, <2>2, AboutMoves, MarketsRecorded DEF IInv
  <2>4. CASE mishaps' = mishaps
    <3>1. Raced' = Raced BY <2>4 DEF Raced
    <3> QED BY <2>1, <2>3, <3>1 DEF Promised!vars
  <2>5. CASE mishaps' = mishaps \cup {<<"report", m>>}
    <3>1. Raced' = Raced \cup {m} BY <2>5 DEF Raced
    <3>2. Promised!Race(m)
      BY <2>1, <2>3, <3>1 DEF Promised!Race, Promised!Unresolved, Unresolved
    <3> QED BY <3>2 DEF Promised!Next
  <2> QED BY <1>1, <2>4, <2>5 DEF ReceiveReport
<1>2. ASSUME NEW m \in Markets, ReceiveDispute(q, m)
      PROVE  [Promised!Next]_(Promised!vars)
  <2>1. PICK w : request' = [request EXCEPT ![q] = [Idle EXCEPT !.route = "file", !.at = "insert",
                                                                !.market = m, !.row = w]]
    BY <1>2 DEF ReceiveDispute
  <2> DEFINE r == [Idle EXCEPT !.route = "file", !.at = "insert", !.market = m, !.row = w]
  <2>2. /\ request' = [request EXCEPT ![q] = r] /\ request[q] = Idle /\ status[m] = "resolved"
        /\ UNCHANGED <<status, disputes, closed, mishaps>>
    BY <1>2, <2>1 DEF ReceiveDispute
  <2>3. r.route = "file" /\ r.market = m /\ request[q].route = "none" BY <2>2 DEF Idle
  <2> HIDE DEF r
  <2>4. /\ About({"file"})' = About({"file"}) \cup {m}
        /\ About({"admin", "agent"})' = About({"admin", "agent"})
        /\ WindowsOver' = WindowsOver /\ OnRecord' = OnRecord /\ Raced' = Raced
    BY <2>2, <2>3, AboutMoves, MarketsRecorded DEF IInv, Raced
  <2>5. Promised!File(m) BY <2>2, <2>4 DEF Promised!File
  <2> QED BY <2>5 DEF Promised!Next
<1>3. ASSUME NEW d \in 1 .. Len(disputes), NEW route \in {"admin", "agent"},
             NEW says \in {"upheld", "escalate"} \cup Results, ReceiveReview(q, d, route, says)
      PROVE  [Promised!Next]_(Promised!vars)
  <2> DEFINE m == resolutions[disputes[d].row].market
             r == [route |-> route, at |-> FirstOf(route, says), market |-> m, row |-> d, says |-> says]
  <2>1. m \in OnRecord /\ m \in Markets
    <3>1. disputes[d].row \in 1 .. Len(resolutions) BY DEF IInv, RowsExist
    <3>2. resolutions[disputes[d].row] \in Resolutions BY <3>1, ElementOfSeq DEF IInv, TypeOK
    <3> QED BY <3>2 DEF OnRecord, Resolutions
  <2>2. /\ request' = [request EXCEPT ![q] = r] /\ request[q] = Idle
        /\ UNCHANGED <<status, disputes, closed>>
    BY <1>3 DEF ReceiveReview
  <2>3. Raced' = Raced
    <3>1. \A n : <<"report", n>> \in mishaps' <=> <<"report", n>> \in mishaps
      BY <1>3 DEF ReceiveReview
    <3> QED BY <3>1 DEF Raced
  <2>4. r.route \in {"admin", "agent"} /\ r.market = m /\ request[q].route = "none"
    BY <2>2 DEF Idle
  <2> HIDE DEF r, m
  <2>5. /\ About({"file"})' = About({"file"})
        /\ About({"admin", "agent"})' = About({"admin", "agent"}) \cup {m}
        /\ WindowsOver' = WindowsOver /\ OnRecord' = OnRecord
    BY <2>2, <2>4, AboutMoves, MarketsRecorded DEF IInv
  <2>6. Promised!Hear(m) BY <2>1, <2>2, <2>3, <2>5 DEF Promised!Hear
  <2> QED BY <2>1, <2>6 DEF Promised!Next
<1> QED BY <1>1, <1>2, <1>3 DEF Receive

\* A report makes its statements.
LEMMA ReportPromised ==
  ASSUME IInv, StatusInv, [Next]_vars, NEW q \in Requests, InsertResolution(q) \/ MarkResolved(q)
  PROVE  [Promised!Next]_(Promised!vars)
<1> DEFINE req == request[q]
<1> USE DEF tables, clock, broker, cron, history
<1>1. req \in NewRulings /\ req.route = "report" /\ req.market \in Markets
  BY DEF IInv, TypeOK, Idle, NewRulings, NewDisputes, Reviews, InsertResolution, MarkResolved
<1>2. DOMAIN request = Requests /\ DOMAIN status = Markets BY DEF IInv, TypeOK
<1>3. CASE InsertResolution(q)
  <2> DEFINE r == [req EXCEPT !.at = "market"]
  <2>1. request' = [request EXCEPT ![q] = r] BY <1>2, <1>3 DEF InsertResolution
  <2>2. r.route = "report" BY <1>1 DEF NewRulings
  <2>3. UNCHANGED <<status, disputes, closed, mishaps>> BY <1>3 DEF InsertResolution
  <2> HIDE DEF r
  <2> QED BY <1>1, <2>1, <2>2, <2>3, OtherRequestPromised DEF Raced
<1>4. CASE MarkResolved(q)
  <2>1. /\ request' = [request EXCEPT ![q] = Idle] /\ status' = [status EXCEPT ![req.market] = "resolved"]
        /\ UNCHANGED <<disputes, closed, mishaps>>
    BY <1>4 DEF MarkResolved
  <2>2. Idle.route = "none" BY DEF Idle
  <2>3. /\ About({"file"})' = About({"file"}) /\ About({"admin", "agent"})' = About({"admin", "agent"})
        /\ WindowsOver' = WindowsOver /\ OnRecord' = OnRecord /\ Raced' = Raced
    BY <1>1, <2>1, <2>2, AboutMoves, MarketsRecorded DEF IInv, Raced
  <2>4. req.market \in Raced \/ status[req.market] \in Unresolved BY <1>1 DEF StatusInv
  <2>5. Promised!Resolve(req.market)
    BY <2>1, <2>3, <2>4 DEF Promised!Resolve, Promised!Become, Promised!Unresolved, Unresolved
  <2> QED BY <1>1, <2>5 DEF Promised!Next
<1> QED BY <1>3, <1>4

\* A submission makes its statements.
LEMMA FilingPromised ==
  ASSUME IInv, FilingsFresh, StatusInv, [Next]_vars, NEW q \in Requests,
         InsertDispute(q) \/ MarkDisputed(q)
  PROVE  [Promised!Next]_(Promised!vars)
<1> DEFINE req == request[q]
<1> USE DEF tables, clock, broker, cron, history
<1>1. req \in NewDisputes /\ req.route = "file" /\ req.market \in Markets
  BY DEF IInv, TypeOK, Idle, NewRulings, NewDisputes, Reviews, InsertDispute, MarkDisputed
<1>2. DOMAIN request = Requests /\ DOMAIN status = Markets /\ disputes \in Seq(Disputes)
      /\ Len(disputes) \in Nat
  BY DEF IInv, TypeOK
<1>3. req.market \in About({"file"}) BY <1>1 DEF About
<1>4. CASE InsertDispute(q)
  <2> DEFINE r == [req EXCEPT !.at = "market", !.row = Len(disputes) + 1]
             row == [row |-> req.row, status |-> "pending", new |-> "none"]
  <2>1. request' = [request EXCEPT ![q] = r] BY <1>2, <1>4 DEF InsertDispute
  <2>2. r.route = "file" /\ r.market = req.market /\ row.row = req.row BY <1>1 DEF NewDisputes
  <2>3. /\ disputes' = Append(disputes, row)
        /\ UNCHANGED <<status, resolutions, closed, mishaps>>
    BY <1>4 DEF InsertDispute
  <2>4. q \in Inserting("file") BY <1>4 DEF InsertDispute, Inserting
  <2>5. resolutions[req.row].market = req.market BY <2>4 DEF IInv, RowsExist
  <2> HIDE DEF r, row
  <2>6. /\ Len(disputes') = Len(disputes) + 1 /\ disputes'[Len(disputes) + 1] = row
        /\ \A d \in 1 .. Len(disputes) : disputes'[d] = disputes[d]
    BY <1>2, <2>3
  <2>7. OnRecord' = OnRecord \cup {req.market}
    <3>1. \A d \in 1 .. Len(disputes') : d \in 1 .. Len(disputes) \/ d = Len(disputes) + 1
      BY <1>2, <2>6
    <3>2. Len(disputes) + 1 \in 1 .. Len(disputes') BY <1>2, <2>6
    <3>3. \A d \in 1 .. Len(disputes) : d \in 1 .. Len(disputes') BY <1>2, <2>6
    <3>4. \A x : x \in OnRecord' <=>
            x \in OnRecord \/ x = resolutions[row.row].market
      BY <2>3, <2>6, <3>1, <3>2, <3>3 DEF OnRecord
    <3> QED BY <2>2, <2>5, <3>4
  <2>8. /\ About({"file"})' = About({"file"}) /\ About({"admin", "agent"})' = About({"admin", "agent"})
        /\ WindowsOver' = WindowsOver /\ Raced' = Raced
    <3>1. About({"file"})' = About({"file"})
      <4>1. r.route \in {"file"} /\ request[q].route \in {"file"} /\ r.market = request[q].market
        BY <1>1, <2>2
      <4> QED BY <2>1, <4>1, AboutMoves DEF IInv
    <3>2. About({"admin", "agent"})' = About({"admin", "agent"})
      BY <1>1, <2>1, <2>2, AboutMoves DEF IInv
    <3>3. WindowsOver' = WindowsOver BY <2>3, MarketsRecorded
    <3>4. Raced' = Raced BY <2>3 DEF Raced
    <3> QED BY <3>1, <3>2, <3>3, <3>4
  <2>9. Promised!Record(req.market) BY <1>3, <2>3, <2>7, <2>8 DEF Promised!Record
  <2> QED BY <1>1, <2>9 DEF Promised!Next
<1>5. CASE MarkDisputed(q)
  <2>1. /\ request' = [request EXCEPT ![q] = Idle] /\ status' = [status EXCEPT ![req.market] = "disputed"]
        /\ UNCHANGED <<disputes, closed, mishaps>>
    BY <1>5 DEF MarkDisputed
  <2>2. Idle.route = "none" BY DEF Idle
  <2>3. /\ About({"file"})' \in {About({"file"}), About({"file"}) \ {req.market}}
        /\ About({"admin", "agent"})' = About({"admin", "agent"})
        /\ WindowsOver' = WindowsOver /\ OnRecord' = OnRecord /\ Raced' = Raced
    BY <1>1, <2>1, <2>2, AboutMoves, MarketsRecorded DEF IInv, Raced
  <2>4. req.market \in OnRecord
    BY <1>5 DEF MarkDisputed, FilingsFresh, OnRecord
  <2>5. status[req.market] \in Promised!Resolved BY <1>1, <1>3 DEF StatusInv
  <2>6. Promised!Dispute(req.market)
    BY <1>3, <2>1, <2>3, <2>4, <2>5 DEF Promised!Dispute, Promised!Become
  <2> QED BY <1>1, <2>6 DEF Promised!Next
<1> QED BY <1>4, <1>5

\* A review makes its statements.
LEMMA ReviewPromised ==
  ASSUME IInv, OnTrack, StatusInv, [Next]_vars, NEW q \in Requests,
         RecordNewResult(q) \/ DecideDispute(q) \/ FinalizeResolution(q) \/ FinalizeMarket(q)
  PROVE  [Promised!Next]_(Promised!vars)
<1> DEFINE req == request[q]
<1> USE DEF tables, clock, broker, cron, history
<1>1. /\ req.route \in {"admin", "agent"} /\ req.market \in Markets
      /\ DOMAIN status = Markets /\ DOMAIN request = Requests
  BY ReviewMoves DEF Reviewer, Reviews, IInv, TypeOK
<1>2. req.market \in OnRecord /\ req.market \in About({"admin", "agent"})
  BY <1>1 DEF IInv, RowsExist, OnRecord, About
<1>3. PICK r : /\ request' = [request EXCEPT ![q] = r]
               /\ r = Idle \/ (r.route = req.route /\ r.market = req.market)
  <2>1. Advance(q) BY DEF RecordNewResult, DecideDispute, FinalizeResolution, FinalizeMarket
  <2>2. PICK s : /\ request' = [request EXCEPT ![q] = s]
                 /\ \/ s = Idle
                    \/ /\ s \in Reviews /\ s.at # "new" /\ request[q].route = s.route
                       /\ s.row = request[q].row /\ s.market = request[q].market
    BY <1>1, <2>1, AdvanceGoesOn
  <2> QED BY <2>2
<1>4. Len(disputes)' = Len(disputes) BY ReviewRows
<1>5. closed' = closed /\ mishaps' = mishaps
  BY DEF RecordNewResult, DecideDispute, FinalizeResolution, FinalizeMarket
<1>6. WindowsOver' = WindowsOver /\ OnRecord' = OnRecord /\ Raced' = Raced
  BY <1>4, <1>5, MarketsRecorded DEF Raced
<1>7. r.route \notin {"file"} BY <1>1, <1>3 DEF Idle
<1>8. About({"file"})' = About({"file"}) BY <1>1, <1>3, <1>7, AboutMoves DEF IInv
<1>9. About({"admin", "agent"})' \in {About({"admin", "agent"}),
                                      About({"admin", "agent"}) \ {req.market}}
  <2>1. CASE r = Idle
    <3>1. r.route \notin {"admin", "agent"} BY <2>1 DEF Idle
    <3> QED BY <1>1, <1>3, <3>1, AboutMoves DEF IInv
  <2>2. CASE r.route = req.route /\ r.market = req.market
    <3>1. /\ r.route \in {"admin", "agent"} /\ request[q].route \in {"admin", "agent"}
          /\ r.market = request[q].market
      BY <1>1, <2>2
    <3>2. About({"admin", "agent"})' = About({"admin", "agent"})
      BY <1>3, <3>1, AboutMoves DEF IInv
    <3> QED BY <3>2
  <2> QED BY <1>3, <2>1, <2>2
<1>10. CASE FinalizeMarket(q)
  <2>1. status' = [status EXCEPT ![req.market] = "finalized"] BY <1>10 DEF FinalizeMarket
  <2>2. status[req.market] \in Promised!Resolved BY <1>1, <1>2 DEF StatusInv
  <2>3. Promised!Decide(req.market)
    BY <1>2, <1>6, <1>8, <1>9, <2>1, <2>2 DEF Promised!Decide, Promised!Become
  <2> QED BY <1>1, <2>3 DEF Promised!Next
<1>11. CASE RecordNewResult(q) \/ DecideDispute(q) \/ FinalizeResolution(q)
  <2>1. status' = status BY <1>11 DEF RecordNewResult, DecideDispute, FinalizeResolution
  <2>2. CASE About({"admin", "agent"})' = About({"admin", "agent"})
    BY <1>6, <1>8, <2>1, <2>2 DEF Promised!vars
  <2>3. CASE About({"admin", "agent"})' = About({"admin", "agent"}) \ {req.market}
    <3>1. Promised!Adjourn(req.market) BY <1>6, <1>8, <2>1, <2>3 DEF Promised!Adjourn
    <3> QED BY <1>1, <3>1 DEF Promised!Next
  <2> QED BY <1>9, <2>2, <2>3
<1> QED BY <1>10, <1>11

\* A request is cut off.
LEMMA FailurePromised ==
  ASSUME IInv, StatusInv, [Next]_vars, NEW q \in Requests, RequestFails(q)
  PROVE  [Promised!Next]_(Promised!vars)
<1> DEFINE req == request[q]
<1> USE DEF tables, clock, broker, cron
<1>1. req \in NewRulings \cup NewDisputes \cup Reviews BY DEF IInv, TypeOK, RequestFails
<1>2. /\ request' = [request EXCEPT ![q] = Idle] /\ mishaps' = mishaps \cup HalfDone(req)
      /\ UNCHANGED <<status, disputes, closed>>
  BY DEF RequestFails
<1>3. Idle.route = "none" BY DEF Idle
<1>4. req.market \in Markets BY <1>1 DEF NewRulings, NewDisputes, Reviews
<1>5. WindowsOver' = WindowsOver /\ OnRecord' = OnRecord BY <1>2, MarketsRecorded
<1>6. CASE req.route = "report"
  <2>1. /\ About({"file"})' = About({"file"})
        /\ About({"admin", "agent"})' = About({"admin", "agent"})
    BY <1>2, <1>3, <1>6, AboutMoves DEF IInv
  <2>2. HalfDone(req) \in {{}, {<<"report", req.market>>}} BY <1>6 DEF HalfDone
  <2>3. Raced' \in {Raced, Raced \cup {req.market}} BY <1>2, <1>4, <2>2 DEF Raced
  <2>4. CASE Raced' = Raced BY <1>2, <1>5, <2>1, <2>4 DEF Promised!vars
  <2>5. CASE Raced' = Raced \cup {req.market} /\ req.market \notin Raced
    <3>1. status[req.market] \in Promised!Unresolved
      BY <1>6, <2>5 DEF StatusInv, Unresolved, Promised!Unresolved
    <3>2. Promised!Race(req.market) BY <1>2, <1>5, <2>1, <2>5, <3>1 DEF Promised!Race
    <3> QED BY <1>4, <3>2 DEF Promised!Next
  <2> QED BY <2>3, <2>4, <2>5
<1>7. CASE req.route = "file"
  <2>1. About({"file"})' \in {About({"file"}), About({"file"}) \ {req.market}}
    BY <1>2, <1>3, <1>7, AboutMoves DEF IInv
  <2>2. About({"admin", "agent"})' = About({"admin", "agent"})
    BY <1>2, <1>3, <1>7, AboutMoves DEF IInv
  <2>3. \A m : <<"report", m>> \notin HalfDone(req) BY <1>7 DEF HalfDone
  <2>4. Raced' = Raced BY <1>2, <2>3 DEF Raced
  <2>5. CASE About({"file"})' = About({"file"}) BY <1>2, <1>5, <2>2, <2>4, <2>5 DEF Promised!vars
  <2>6. CASE About({"file"})' = About({"file"}) \ {req.market}
    <3>1. Promised!GiveUp(req.market) BY <1>2, <1>5, <2>2, <2>4, <2>6 DEF Promised!GiveUp
    <3> QED BY <1>4, <3>1 DEF Promised!Next
  <2> QED BY <2>1, <2>5, <2>6
<1>8. CASE req.route \in {"admin", "agent"}
  <2>1. About({"admin", "agent"})' \in {About({"admin", "agent"}),
                                        About({"admin", "agent"}) \ {req.market}}
    BY <1>2, <1>3, <1>8, AboutMoves DEF IInv
  <2>2. About({"file"})' = About({"file"}) BY <1>2, <1>3, <1>8, AboutMoves DEF IInv
  <2>3. \A m : <<"report", m>> \notin HalfDone(req) BY <1>8 DEF HalfDone
  <2>4. Raced' = Raced BY <1>2, <2>3 DEF Raced
  <2>5. CASE About({"admin", "agent"})' = About({"admin", "agent"})
    BY <1>2, <1>5, <2>2, <2>4, <2>5 DEF Promised!vars
  <2>6. CASE About({"admin", "agent"})' = About({"admin", "agent"}) \ {req.market}
    <3>1. Promised!Adjourn(req.market) BY <1>2, <1>5, <2>2, <2>4, <2>6 DEF Promised!Adjourn
    <3> QED BY <1>4, <3>1 DEF Promised!Next
  <2> QED BY <2>1, <2>5, <2>6
<1> QED BY <1>1, <1>6, <1>7, <1>8 DEF NewRulings, NewDisputes, Reviews

\* Every step is one the promise allows, or none.
LEMMA PromisedStep ==
  ASSUME IInv, OnTrack, FilingsFresh, StatusInv, [Next]_vars
  PROVE  [Promised!Next]_(Promised!vars)
<1>1. ASSUME NEW q \in Requests, Receive(q) PROVE [Promised!Next]_(Promised!vars)
  BY <1>1, ReceivePromised
<1>2. ASSUME NEW q \in Requests, Statement(q) PROVE [Promised!Next]_(Promised!vars)
  BY <1>2, ReportPromised, FilingPromised, ReviewPromised DEF Statement
<1>3. ASSUME NEW q \in Requests, RequestFails(q) PROVE [Promised!Next]_(Promised!vars)
  BY <1>3, FailurePromised
<1> QED BY <1>1, <1>2, <1>3, JobsPromised

\* A report in progress keeps its market, and met an unresolved one at first.
LEMMA ReportsMove ==
  ASSUME IInv, OnTrack, [Next]_vars, NEW p \in Requests, request'[p].route = "report"
  PROVE  \/ request[p].route = "report" /\ request[p].market = request'[p].market
         \/ status[request'[p].market] \in Unresolved /\ status' = status
<1> DEFINE Goal == \/ request[p].route = "report" /\ request[p].market = request'[p].market
                   \/ status[request'[p].market] \in Unresolved /\ status' = status
<1> USE DEF tables
<1>1. DOMAIN request = Requests BY DEF IInv, TypeOK
<1>2. CASE request'[p] = request[p] BY <1>2
<1>3. ASSUME NEW m \in Markets, NEW x \in Results, ReceiveReport(p, m, x) PROVE Goal
  <2>1. request'[p] = [Idle EXCEPT !.route = "report", !.at = "insert", !.market = m, !.says = x]
    BY <1>1, <1>3 DEF ReceiveReport
  <2>2. request'[p].market = m BY <2>1 DEF Idle
  <2> QED BY <1>3, <2>2 DEF ReceiveReport
<1>4. CASE InsertResolution(p)
  <2>1. request[p] \in NewRulings
    BY <1>4 DEF IInv, TypeOK, Idle, NewDisputes, Reviews, InsertResolution
  <2> QED BY <1>1, <1>4, <2>1 DEF InsertResolution, NewRulings
<1>5. ASSUME NEW m \in Markets, ReceiveDispute(p, m) PROVE Goal
  BY <1>1, <1>5 DEF ReceiveDispute, Idle
<1>6. ASSUME NEW d \in 1 .. Len(disputes), NEW route \in {"admin", "agent"},
             NEW says \in {"upheld", "escalate"} \cup Results, ReceiveReview(p, d, route, says)
      PROVE  Goal
  <2>1. request'[p] = [route |-> route, at |-> FirstOf(route, says),
                       market |-> resolutions[disputes[d].row].market, row |-> d, says |-> says]
    BY <1>6, ReviewBegins
  <2>2. request'[p].route = route BY <2>1
  <2> QED BY <2>2
<1>7. CASE InsertDispute(p)
  <2>1. request[p] \in NewDisputes
    BY <1>7 DEF IInv, TypeOK, Idle, NewRulings, Reviews, InsertDispute
  <2>2. request'[p].route = "file" BY <1>1, <1>7, <2>1 DEF InsertDispute, NewDisputes
  <2> QED BY <2>2
<1>8. CASE MarkResolved(p) \/ MarkDisputed(p) \/ RequestFails(p)
  BY <1>1, <1>8 DEF MarkResolved, MarkDisputed, RequestFails, Idle
<1>9. CASE RecordNewResult(p) \/ DecideDispute(p) \/ FinalizeResolution(p) \/ FinalizeMarket(p)
  <2>1. request'[p].route \in {"none", "admin", "agent"} BY <1>9, ReviewMoves DEF Reviewer, Idle
  <2> QED BY <2>1
<1>10. CASE ~(Receive(p) \/ Statement(p) \/ RequestFails(p))
  <2>1. ASSUME NEW q \in Requests, Receive(q) \/ Statement(q) \/ RequestFails(q)
        PROVE  request'[p] = request[p]
    <3>1. q # p BY <1>10, <2>1
    <3>2. CASE RecordNewResult(q) \/ DecideDispute(q) \/ FinalizeResolution(q) \/ FinalizeMarket(q)
      BY <3>1, <3>2, ReviewMoves
    <3>3. ASSUME NEW d \in 1 .. Len(disputes), NEW route \in {"admin", "agent"},
                 NEW says \in {"upheld", "escalate"} \cup Results, ReceiveReview(q, d, route, says)
          PROVE  request'[p] = request[p]
      BY <3>1, <3>3, ReviewBegins
    <3>4. CASE \/ \E m \in Markets : ReceiveDispute(q, m) \/ \E x \in Results : ReceiveReport(q, m, x)
               \/ InsertResolution(q) \/ MarkResolved(q) \/ InsertDispute(q) \/ MarkDisputed(q)
               \/ RequestFails(q)
      BY <3>1, <3>4, OtherMoves
    <3> QED BY <2>1, <3>2, <3>3, <3>4 DEF Receive, Statement
  <2> QED BY <1>2, <2>1, NobodysStep
<1> QED BY <1>3, <1>4, <1>5, <1>6, <1>7, <1>8, <1>9, <1>10 DEF Receive, Statement

\* Every step preserves what the promise rests on.
LEMMA StatusInvStep ==
  ASSUME IInv, OnTrack, ReportsAccounted, FilingsFresh, StatusInv, [Next]_vars
  PROVE  StatusInv'
<1> USE DEF tables, clock, broker, cron, history
<1>1. /\ DOMAIN status = Markets /\ DOMAIN request = Requests /\ mishaps \subseteq mishaps'
      /\ Raced \subseteq Raced'
  BY TablesGrow DEF IInv, TypeOK, Raced
<1>2. ASSUME NEW q \in Requests, request'[q].route = "report", request'[q].market \notin Raced'
      PROVE  status'[request'[q].market] \in Unresolved
  <2> DEFINE m == request'[q].market
  <2>1. CASE status[m] \in Unresolved /\ status' = status BY <2>1
  <2>2. CASE request[q].route = "report" /\ request[q].market = m
    <3>1. m \in Markets /\ q \in Reporting(m)
      BY <2>2 DEF IInv, TypeOK, Idle, NewRulings, NewDisputes, Reviews, Reporting
    <3>2. m \notin Raced /\ status[m] \in Unresolved BY <1>1, <1>2, <2>2 DEF StatusInv
    <3>3. Single(m) BY <3>1, <3>2 DEF ReportsAccounted, Raced
    <3>4. status'[m] # status[m] => status'[m] \in Unresolved \cup {"resolved"}
      <4> HIDE DEF m
      <4> QED BY <1>1, <3>1, <3>2, PromisedStep
           DEF Promised!Next, Promised!vars, Promised!FallDue, Promised!Resolve, Promised!Race,
               Promised!EndWindow, Promised!File, Promised!Record, Promised!Dispute,
               Promised!GiveUp, Promised!Close, Promised!Hear, Promised!Decide, Promised!Adjourn,
               Promised!Become, Promised!Resolved, Unresolved
    <3>5. status'[m] # "resolved"
      <4>1. SUFFICES ASSUME status'[m] = "resolved" PROVE FALSE OBVIOUS
      <4>2. \E p \in Requests : MarkResolved(p)
        <5> HIDE DEF m
        <5> QED
          BY <1>1, <3>1, <3>2, <4>1 DEF Unresolved, Next, Expire, WindowEnds, Scan, StartScan,
             MarkResolving, PublishMarketResolve, ScanFails, Sweep, StartSweep, SweepMarket,
             SweepResolutions, SweepFails, Resolver, ResolverReturns, ResolverThrows,
             ResolverRetries, ResolverStops, Receive, ReceiveReport, ReceiveDispute, ReceiveReview,
             Statement, InsertResolution, InsertDispute, MarkDisputed, RecordNewResult,
             DecideDispute, FinalizeResolution, FinalizeMarket, RequestFails, vars
      <4>3. PICK p \in Requests : MarkResolved(p) BY <4>2
      <4>4. request[p].route = "report" /\ request[p].market = m
        BY <1>1, <3>1, <3>2, <4>1, <4>3 DEF MarkResolved, Unresolved
      <4>5. p = q BY <3>1, <3>3, <4>4 DEF Single, Reporting
      <4> QED BY <1>1, <1>2, <4>3, <4>5 DEF MarkResolved, Idle
    <3> QED BY <3>2, <3>4, <3>5
  <2> QED BY <1>2, <2>1, <2>2, ReportsMove
<1>3. ASSUME NEW m \in Markets, m \in About({"file"})' \cup OnRecord'
      PROVE  status'[m] \in Promised!Resolved
  <2> HIDE DEF tables, clock, broker, cron, history
  <2>1. CASE UNCHANGED Promised!vars BY <1>3, <2>1 DEF Promised!vars, StatusInv
  <2>2. ASSUME NEW n \in Markets,
               \/ Promised!FallDue(n) \/ Promised!Race(n) \/ Promised!EndWindow(n)
               \/ Promised!Hear(n) \/ Promised!Adjourn(n) \/ Promised!GiveUp(n)
        PROVE  status'[m] \in Promised!Resolved
    BY <1>1, <1>3, <2>2
       DEF StatusInv, Promised!FallDue, Promised!Race, Promised!EndWindow, Promised!Hear,
           Promised!Adjourn, Promised!GiveUp, Promised!Become, Promised!Resolved
  <2>3. ASSUME NEW n \in Markets, Promised!File(n) \/ Promised!Record(n)
        PROVE  status'[m] \in Promised!Resolved
    BY <1>1, <1>3, <2>3 DEF StatusInv, Promised!File, Promised!Record, Promised!Resolved
  <2>4. ASSUME NEW n \in Markets,
               Promised!Resolve(n) \/ Promised!Dispute(n) \/ Promised!Close(n) \/ Promised!Decide(n)
        PROVE  status'[m] \in Promised!Resolved
    BY <1>1, <1>3, <2>4
       DEF StatusInv, Promised!Resolve, Promised!Dispute, Promised!Close, Promised!Decide,
           Promised!Become, Promised!Resolved
  <2> QED BY <2>1, <2>2, <2>3, <2>4, PromisedStep DEF Promised!Next
<1>4. sweep'.todo \subseteq WindowsOver'
  <2>1. WindowsOver \subseteq WindowsOver' BY MarketsRecorded
  <2>2. CASE StartSweep
    <3>1. sweep'.todo = {n \in Markets : status[n] = "resolved" /\ Ripe(n)}
      BY <2>2 DEF StartSweep, Asleep
    <3>2. \A n : Ripe(n) => n \in WindowsOver BY DEF Ripe, Rows, WindowsOver
    <3> QED BY <2>1, <3>1, <3>2
  <2>3. CASE sweep'.todo \subseteq sweep.todo BY <2>1, <2>3 DEF StatusInv
  <2>4. StartSweep \/ sweep'.todo \subseteq sweep.todo BY SweepNarrows
  <2> QED BY <2>2, <2>3, <2>4
<1> QED BY <1>2, <1>3, <1>4 DEF StatusInv

\* The status of a market goes only where MarketStatus lets it, whoever writes it
\* and whatever the writers read before: the lifecycle implements the promise.
THEOREM StatusAsPromised == Spec => StatusKept
<1>1. Init => OnTrack /\ ReportsAccounted /\ FilingsFresh /\ StatusInv
  BY DEF Init, OnTrack, Reviewer, Idle, Asleep, ReportsAccounted, Single, Rows, Reporting,
         FilingsFresh, StatusInv, About, OnRecord
<1>2. IInv /\ OnTrack /\ ReportsAccounted /\ FilingsFresh /\ StatusInv /\ [Next]_vars
        => OnTrack' /\ ReportsAccounted' /\ FilingsFresh' /\ StatusInv'
  BY OnTrackStep, AccountedStep, FilingsStep, StatusInvStep
<1>3. Init => Promised!Init
  BY DEF Init, Promised!Init, Idle, About, WindowsOver, OnRecord, Raced
<1>4. IInv /\ OnTrack /\ FilingsFresh /\ StatusInv /\ [Next]_vars => [Promised!Next]_(Promised!vars)
  BY PromisedStep
<1> QED BY IInvHolds, <1>1, <1>2, <1>3, <1>4, PTL DEF Spec, StatusKept, Promised!Spec
=============================================================================
