-------------------------- MODULE ResolutionLifecycle --------------------------
(***************************************************************************)
(* From the expiry of a market to its final result: the scheduler's cron   *)
(* jobs and the resolver (src/workers/src), the routes that report a       *)
(* resolution, submit a dispute and review one (prediction-market-back-    *)
(* end/src/routes/v1), and the tables ai_markets, resolutions and disputes *)
(* they share.                                                             *)
(*                                                                         *)
(* A cron job or a request is split at every statement that writes, since  *)
(* none of them opens a transaction: others may run in between, and it may *)
(* fail before any statement.  The reads with which a request begins are   *)
(* one step.  Who files a dispute and what evidence is given is abstracted,*)
(* and with it the limits per user; rows of audit_logs are left out.       *)
(***************************************************************************)
EXTENDS Naturals, FiniteSets, Sequences

CONSTANTS
  Markets,      \* markets with an address
  Requests,     \* the requests the API may have in progress
  MaxTries,     \* RETRY_DELAYS.length
  MaxRulings,   \* bound on the rows of resolutions
  MaxDisputes,  \* bound on the rows of disputes
  MaxFailures   \* bound on the statements that fail and the deaths of processes

ASSUME LifecycleBounds ==
  /\ IsFiniteSet(Requests)
  /\ MaxTries \in Nat /\ MaxRulings \in Nat /\ MaxDisputes \in Nat /\ MaxFailures \in Nat

VARIABLES
  status,       \* ai_markets.status
  expired,      \* the markets whose resolution.expiry is in the past
  resolutions,  \* the rows of resolutions, oldest first
  closed,       \* those whose dispute_window_ends is in the past
  disputes,     \* the rows of disputes
  queue,        \* markets.resolve: its messages,
  timers,       \* their retries waiting in a setTimeout of the resolver,
  dead,         \* and those given up
  scan,         \* checkMarketsForResolution: the markets found, the next statement
  sweep,        \* checkMarketsForFinalization, likewise
  request,      \* what each request is about and its next statement
  failures,     \* how many statements failed and processes died
  mishaps       \* history: what was cut off between two statements, or done by
                \* two requests at the same time

tables == <<status, resolutions, disputes>>
clock == <<expired, closed>>
broker == <<queue, timers, dead>>
cron == <<scan, sweep>>
history == <<failures, mishaps>>
vars == <<tables, clock, broker, cron, request, history>>
-----------------------------------------------------------------------------
Statuses == {"active", "resolving", "resolved", "disputed", "finalized"}
Results == {"YES", "NO"}
Messages == [market : Markets, tries : 0 .. MaxTries]
\* A resolution keeps the result it was reported with beside the present one.
Resolutions == [market : Markets, reported : Results, result : Results,
                status : {"resolved", "finalized"}]
Open == {"pending", "escalated"}
Decided == {"upheld", "overturned"}
Disputes == [row : 1 .. MaxRulings, status : Open \cup Decided, new : Results \cup {"none"}]

\* A cron job goes through the markets of its query, in any order.
Asleep == [at |-> "idle", todo |-> {}, market |-> "none"]
Jobs(steps) == {Asleep} \cup [at : steps, todo : SUBSET Markets, market : Markets \cup {"none"}]

\* A request: its route, its next statement, the market or row it is about and
\* what it decides.
Idle == [route |-> "none", at |-> "idle", market |-> "none", row |-> 0, says |-> "none"]
NewRulings == [route : {"report"}, at : {"insert", "market"},
               market : Markets, row : {0}, says : Results]
NewDisputes == [route : {"file"}, at : {"insert", "market"},
                market : Markets, row : 1 .. MaxRulings \cup 1 .. MaxDisputes, says : {"none"}]
Reviews == [route : {"admin", "agent"}, at : {"new", "dispute", "resolution", "market"},
            market : Markets, row : 1 .. MaxDisputes, says : {"upheld", "escalate"} \cup Results]

Kinds == {"scan", "sweep", "retry", "report", "file", "review"}

TypeOK ==
  /\ status \in [Markets -> Statuses] /\ expired \subseteq Markets
  /\ resolutions \in Seq(Resolutions) /\ Len(resolutions) <= MaxRulings
  /\ closed \subseteq 1 .. Len(resolutions)
  /\ disputes \in Seq(Disputes) /\ Len(disputes) <= MaxDisputes
  /\ queue \subseteq Messages /\ timers \subseteq Messages /\ dead \subseteq Messages
  /\ scan \in Jobs({"mark", "publish"}) /\ sweep \in Jobs({"market", "resolutions"})
  /\ request \in [Requests -> {Idle} \cup NewRulings \cup NewDisputes \cup Reviews]
  /\ failures \in 0 .. MaxFailures
  /\ mishaps \subseteq Kinds \X (Markets \cup 1 .. MaxDisputes)

Init ==
  /\ status = [m \in Markets |-> "active"]
  /\ expired = {} /\ closed = {}
  /\ resolutions = << >> /\ disputes = << >>
  /\ queue = {} /\ timers = {} /\ dead = {}
  /\ scan = Asleep /\ sweep = Asleep
  /\ request = [q \in Requests |-> Idle]
  /\ failures = 0 /\ mishaps = {}

Rows(m) == {r \in 1 .. Len(resolutions) : resolutions[r].market = m}
DisputesOf(r) == {d \in 1 .. Len(disputes) : disputes[d].row = r}
-----------------------------------------------------------------------------
(* Time.  A dispute window lasts a day, an answered request far less. *)

Expire(m) ==
  /\ m \notin expired
  /\ expired' = expired \cup {m}
  /\ UNCHANGED <<tables, closed, broker, cron, request, history>>

Reporting(m) == {q \in Requests : request[q].route = "report" /\ request[q].market = m}

WindowEnds(r) ==
  /\ r \notin closed
  /\ Reporting(resolutions[r].market) = {}
  /\ closed' = closed \cup {r}
  /\ UNCHANGED <<tables, expired, broker, cron, request, history>>
-----------------------------------------------------------------------------
(* scheduler.ts: checkMarketsForResolution. *)

\* What is left of a cron job's work after a market.
Onward(job, step) == IF job.todo = {} THEN Asleep ELSE [job EXCEPT !.at = step, !.market = "none"]

StartScan ==
  LET due == {m \in expired : status[m] = "active"} IN
  /\ scan = Asleep /\ due # {}
  /\ scan' = [Asleep EXCEPT !.at = "mark", !.todo = due]
  /\ UNCHANGED <<tables, clock, broker, sweep, request, history>>

MarkResolving ==
  /\ scan.at = "mark"
  /\ \E m \in scan.todo :
       /\ status' = IF status[m] = "active" THEN [status EXCEPT ![m] = "resolving"] ELSE status
       /\ scan' = [at |-> "publish", todo |-> scan.todo \ {m}, market |-> m]
  /\ UNCHANGED <<resolutions, disputes, clock, broker, sweep, request, history>>

\* The message goes out whether or not the update found the market active.
PublishMarketResolve ==
  /\ scan.at = "publish"
  /\ queue' = queue \cup {[market |-> scan.market, tries |-> 0]}
  /\ scan' = Onward(scan, "mark")
  /\ UNCHANGED <<tables, clock, timers, dead, sweep, request, history>>

\* A statement of the loop fails, or the process dies: the other markets wait
\* for the next run, the one marked as resolving is not found again.
ScanFails ==
  /\ scan # Asleep /\ failures < MaxFailures
  /\ failures' = failures + 1
  /\ mishaps' = IF scan.at = "publish" THEN mishaps \cup {<<"scan", scan.market>>} ELSE mishaps
  /\ scan' = Asleep
  /\ UNCHANGED <<tables, clock, broker, sweep, request>>
-----------------------------------------------------------------------------
(* resolver.ts and the retries of queue.ts. *)

\* A market that is not resolving any more.
ResolverReturns(msg) ==
  /\ msg \in queue /\ status[msg.market] # "resolving"
  /\ queue' = queue \ {msg}
  /\ UNCHANGED <<tables, clock, timers, dead, cron, request, history>>

ResolverThrowsAway(msg) ==
  /\ msg \in queue /\ status[msg.market] = "resolving"
  /\ queue' = queue \ {msg}
  /\ timers' = IF msg.tries < MaxTries THEN timers \cup {[msg EXCEPT !.tries = @ + 1]} ELSE timers
  /\ UNCHANGED <<tables, clock, dead, cron, request, history>>

\* processResolution throws in every case before it has changed a row: without
\* evidence the status 'failed', with it the row of resolutions (which lacks
\* market_address, resolved_by and dispute_window_ends) is refused.
ResolverThrows(msg) ==
  /\ msg \in queue /\ status[msg.market] = "resolving"
  /\ queue' = queue \ {msg}
  /\ \/ /\ msg.tries < MaxTries
        /\ timers' = timers \cup {[msg EXCEPT !.tries = @ + 1]}
        /\ dead' = dead
     \/ /\ msg.tries >= MaxTries
        /\ dead' = dead \cup {msg}
        /\ timers' = timers
  /\ UNCHANGED <<tables, clock, cron, request, history>>

ResolverRetries(msg) ==
  /\ msg \in timers
  /\ timers' = timers \ {msg}
  /\ queue' = queue \cup {msg}
  /\ UNCHANGED <<tables, clock, dead, cron, request, history>>

\* The process dies with its timers; the broker redelivers the message it had.
ResolverStops ==
  /\ timers # {} /\ failures < MaxFailures
  /\ failures' = failures + 1
  /\ timers' = {}
  /\ mishaps' = mishaps \cup {<<"retry", msg.market>> : msg \in timers}
  /\ UNCHANGED <<tables, clock, queue, dead, cron, request>>
-----------------------------------------------------------------------------
(* worker/resolutions.ts: a worker reports a resolution to the API. *)

\* Requests that will still insert a row: for the bounds only.
Inserting(route) == {q \in Requests : request[q].route = route /\ request[q].at = "insert"}

UnresolvedOrLater == {"active", "resolving", "resolved"}

\* The statuses in which a resolution is accepted.
Unresolved == {"active", "resolving"}

ReceiveReport(q, m, result) ==
  /\ request[q] = Idle
  /\ status[m] \in Unresolved
  /\ Len(resolutions) + Cardinality(Inserting("report")) < MaxRulings
  /\ request' = [request EXCEPT ![q] = [Idle EXCEPT !.route = "report", !.at = "insert",
                                                    !.market = m, !.says = result]]
  /\ mishaps' = IF Reporting(m) = {} THEN mishaps ELSE mishaps \cup {<<"report", m>>}
  /\ UNCHANGED <<tables, clock, broker, cron, failures>>

InsertResolution(q) ==
  LET req == request[q] IN
  /\ req.route = "report" /\ req.at = "insert"
  /\ resolutions' = Append(resolutions, [market |-> req.market, reported |-> req.says,
                                         result |-> req.says, status |-> "resolved"])
  /\ request' = [request EXCEPT ![q].at = "market"]
  /\ UNCHANGED <<status, disputes, clock, broker, cron, history>>

MarkResolved(q) ==
  /\ request[q].route = "report" /\ request[q].at = "market"
  /\ status' = [status EXCEPT ![request[q].market] = "resolved"]
  /\ request' = [request EXCEPT ![q] = Idle]
  /\ UNCHANGED <<resolutions, disputes, clock, broker, cron, history>>
-----------------------------------------------------------------------------
(* disputes.ts: a holder disputes the latest resolution of a market. *)

ReceiveDispute(q, m) ==
  /\ request[q] = Idle
  /\ status[m] = "resolved"
  /\ Len(disputes) + Cardinality(Inserting("file")) < MaxDisputes
  /\ \E r \in Rows(m) \ closed :
       /\ \A s \in Rows(m) : s <= r
       /\ request' = [request EXCEPT ![q] = [Idle EXCEPT !.route = "file", !.at = "insert",
                                                         !.market = m, !.row = r]]
  /\ UNCHANGED <<tables, clock, broker, cron, history>>

InsertDispute(q) ==
  LET req == request[q] IN
  /\ req.route = "file" /\ req.at = "insert"
  /\ disputes' = Append(disputes, [row |-> req.row, status |-> "pending", new |-> "none"])
  /\ request' = [request EXCEPT ![q].at = "market", ![q].row = Len(disputes) + 1]
  /\ UNCHANGED <<status, resolutions, clock, broker, cron, history>>

\* Whatever the status has become since it was read.
MarkDisputed(q) ==
  /\ request[q].route = "file" /\ request[q].at = "market"
  /\ status' = [status EXCEPT ![request[q].market] = "disputed"]
  /\ request' = [request EXCEPT ![q] = Idle]
  /\ UNCHANGED <<resolutions, disputes, clock, broker, cron, history>>
-----------------------------------------------------------------------------
(* admin/disputes.ts and worker/disputes.ts: a dispute is reviewed, by the     *)
(* admin or by a worker.  Both write three rows, each in its own order, on the *)
(* strength of the status read at the beginning.                               *)

AfterMarketSkipped ==
  [admin |-> [dispute |-> "resolution", resolution |-> "done", market |-> "done"],
   agent |-> [new |-> "resolution", resolution |-> "market", market |-> "dispute",
              dispute |-> "done"]]

After ==
  [admin |-> [dispute |-> "resolution", resolution |-> "market", market |-> "done"],
   agent |-> [new |-> "resolution", resolution |-> "market", market |-> "dispute",
              dispute |-> "done"]]

FirstOf(route, says) ==
  CASE route = "admin" \/ says = "escalate" -> "dispute"
    [] route = "agent" /\ says = "upheld"   -> "resolution"
    [] route = "agent" /\ says \in Results  -> "new"

Reviewing(d) == {q \in Requests : request[q].route \in {"admin", "agent"} /\ request[q].row = d}
Filing(d) == {q \in Requests : request[q].route = "file" /\ request[q].at = "market"
                               /\ request[q].row = d}

ReceiveReview(q, d, route, says) ==
  LET m == resolutions[disputes[d].row].market IN
  /\ request[q] = Idle
  /\ \/ route = "admin" /\ disputes[d].status \in Open /\ says # "escalate"
     \/ route = "agent" /\ disputes[d].status = "pending"
  /\ request' = [request EXCEPT ![q] = [route |-> route, at |-> FirstOf(route, says),
                                        market |-> m, row |-> d, says |-> says]]
  /\ mishaps' = mishaps \cup (IF Reviewing(d) = {} THEN {} ELSE {<<"review", d>>})
                        \cup (IF Filing(d) = {} THEN {} ELSE {<<"file", m>>})
  /\ UNCHANGED <<tables, clock, broker, cron, failures>>

\* The review has made a statement and goes on to the next.
Advance(q) ==
  LET next == After[request[q].route][request[q].at] IN
  request' = [request EXCEPT ![q] = IF next = "done" THEN Idle ELSE [@ EXCEPT !.at = next]]

RecordNewResult(q) ==
  LET req == request[q] IN
  /\ req.at = "new"
  /\ disputes' = [disputes EXCEPT ![req.row].new = req.says]
  /\ Advance(q)
  /\ UNCHANGED <<status, resolutions, clock, broker, cron, history>>

StatusOf(says) ==
  CASE says = "upheld" -> "upheld"
    [] says = "escalate" -> "escalated"
    [] says \in Results -> "overturned"

DecideDisputeOnly(q) ==
  LET req == request[q] IN
  /\ req.at = "dispute"
  /\ disputes' = [disputes EXCEPT ![req.row].status = StatusOf(req.says)]
  /\ Advance(q)
  /\ UNCHANGED <<status, resolutions, clock, broker, cron, history>>

DecideDispute(q) ==
  LET req == request[q] IN
  /\ req.at = "dispute"
  /\ disputes' = [disputes EXCEPT ![req.row].status = StatusOf(req.says),
                                  ![req.row].new =
                                    IF req.route = "admin" /\ req.says \in Results
                                    THEN req.says ELSE @]
  /\ Advance(q)
  /\ UNCHANGED <<status, resolutions, clock, broker, cron, history>>

\* A resolution that a review closes, with another result if it says so.
Finalized(row, says) ==
  [row EXCEPT !.status = "finalized", !.result = IF says \in Results THEN says ELSE @]

FinalizeResolutionIfOverturned(q) ==
  LET req == request[q] IN
  /\ req.at = "resolution"
  /\ resolutions' = [resolutions EXCEPT ![disputes[req.row].row] =
       IF req.says \in Results THEN Finalized(@, req.says) ELSE @]
  /\ Advance(q)
  /\ UNCHANGED <<status, disputes, clock, broker, cron, history>>

FinalizeResolution(q) ==
  LET req == request[q] IN
  /\ req.at = "resolution"
  /\ resolutions' = [resolutions EXCEPT ![disputes[req.row].row] = Finalized(@, req.says)]
  /\ Advance(q)
  /\ UNCHANGED <<status, disputes, clock, broker, cron, history>>

FinalizeMarket(q) ==
  LET req == request[q] IN
  /\ req.route \in {"admin", "agent"} /\ req.at = "market"
  /\ status' = [status EXCEPT ![req.market] = "finalized"]
  /\ Advance(q)
  /\ UNCHANGED <<resolutions, disputes, clock, broker, cron, history>>

\* What a request leaves behind that fails before its next statement: nothing,
\* unless it has made one already.
HalfDone(req) ==
  CASE req.route = "report" /\ req.at = "market" -> {<<"report", req.market>>}
    [] req.route = "file" /\ req.at = "market" -> {<<"file", req.market>>}
    [] req.route = "admin" /\ req.at # "dispute" -> {<<"review", req.row>>}
    [] req.route = "agent" /\ req.at # FirstOf(req.route, req.says) -> {<<"review", req.row>>}
    [] OTHER -> {}

RequestFails(q) ==
  /\ request[q] # Idle /\ failures < MaxFailures
  /\ failures' = failures + 1
  /\ mishaps' = mishaps \cup HalfDone(request[q])
  /\ request' = [request EXCEPT ![q] = Idle]
  /\ UNCHANGED <<tables, clock, broker, cron>>
-----------------------------------------------------------------------------
(* scheduler.ts: checkMarketsForFinalization. *)

RipeAnyTime(m) ==
  \E r \in Rows(m) :
    \/ DisputesOf(r) = {}
    \/ \E d \in DisputesOf(r) : disputes[d].status \in Decided

RipeIfDisputed(m) ==
  \E r \in Rows(m) \cap closed : \E d \in DisputesOf(r) : disputes[d].status \in Decided

\* The join of the query: a resolution past its window, without a dispute or
\* with one that is decided.
Ripe(m) ==
  \E r \in Rows(m) \cap closed :
    \/ DisputesOf(r) = {}
    \/ \E d \in DisputesOf(r) : disputes[d].status \in Decided

StartSweep ==
  LET found == {m \in Markets : status[m] = "resolved" /\ Ripe(m)} IN
  /\ sweep = Asleep /\ found # {}
  /\ sweep' = [Asleep EXCEPT !.at = "market", !.todo = found]
  /\ UNCHANGED <<tables, clock, broker, scan, request, history>>

SweepMarketAnyway ==
  /\ sweep.at = "market"
  /\ \E m \in sweep.todo :
       /\ status' = [status EXCEPT ![m] = "finalized"]
       /\ sweep' = [at |-> "resolutions", todo |-> sweep.todo \ {m}, market |-> m]
  /\ UNCHANGED <<resolutions, disputes, clock, broker, scan, request, history>>

SweepMarket ==
  /\ sweep.at = "market"
  /\ \E m \in sweep.todo :
       /\ status' = IF status[m] = "resolved" THEN [status EXCEPT ![m] = "finalized"] ELSE status
       /\ sweep' = [at |-> "resolutions", todo |-> sweep.todo \ {m}, market |-> m]
  /\ UNCHANGED <<resolutions, disputes, clock, broker, scan, request, history>>

\* All resolutions of the market, and also when the update above found the
\* market disputed.
SweepResolutions ==
  /\ sweep.at = "resolutions"
  /\ resolutions' = [r \in 1 .. Len(resolutions) |->
       IF r \in Rows(sweep.market) THEN [resolutions[r] EXCEPT !.status = "finalized"]
       ELSE resolutions[r]]
  /\ sweep' = Onward(sweep, "market")
  /\ UNCHANGED <<status, disputes, clock, broker, scan, request, history>>

SweepFails ==
  /\ sweep # Asleep /\ failures < MaxFailures
  /\ failures' = failures + 1
  /\ mishaps' = IF sweep.at = "resolutions" THEN mishaps \cup {<<"sweep", sweep.market>>}
                ELSE mishaps
  /\ sweep' = Asleep
  /\ UNCHANGED <<tables, clock, broker, scan, request>>
-----------------------------------------------------------------------------
Resolver == \E msg \in Messages : ResolverReturns(msg) \/ ResolverThrows(msg) \/ ResolverRetries(msg)
Scan == StartScan \/ MarkResolving \/ PublishMarketResolve
Sweep == StartSweep \/ SweepMarket \/ SweepResolutions

\* A request that is in progress makes its next statement.
Statement(q) ==
  \/ InsertResolution(q) \/ MarkResolved(q)
  \/ InsertDispute(q) \/ MarkDisputed(q)
  \/ RecordNewResult(q) \/ DecideDispute(q) \/ FinalizeResolution(q) \/ FinalizeMarket(q)

Receive(q) ==
  \/ \E m \in Markets : ReceiveDispute(q, m) \/ \E x \in Results : ReceiveReport(q, m, x)
  \/ \E d \in 1 .. Len(disputes), route \in {"admin", "agent"},
        says \in {"upheld", "escalate"} \cup Results : ReceiveReview(q, d, route, says)

Next ==
  \/ \E m \in Markets : Expire(m)
  \/ \E r \in 1 .. Len(resolutions) : WindowEnds(r)
  \/ Scan \/ ScanFails \/ Sweep \/ SweepFails
  \/ Resolver \/ ResolverStops
  \/ \E q \in Requests : Receive(q) \/ Statement(q) \/ RequestFails(q)

\* Time passes, the cron jobs are started again and again and the resolver
\* consumes; a request in progress goes on.  Nobody must report, file or review.
Fairness ==
  /\ WF_vars(Scan) /\ WF_vars(Sweep) /\ WF_vars(Resolver)
  /\ \A m \in Markets : WF_vars(Expire(m))
  /\ \A r \in 1 .. MaxRulings : WF_vars(r \in 1 .. Len(resolutions) /\ WindowEnds(r))
  /\ \A q \in Requests : WF_vars(Statement(q))

Spec == Init /\ [][Next]_vars /\ Fairness
-----------------------------------------------------------------------------
HasOpenDispute(m) == \E r \in Rows(m) : \E d \in DisputesOf(r) : disputes[d].status \in Open

\* A market that waits for its resolution has a message, with the resolver, in
\* a timer or given up, unless the scheduler was cut off before sending it or
\* the resolver's process died (checkMarketsForResolution, consumeQueue).
ResolvingIsQueued ==
  \A m \in Markets : status[m] = "resolving" =>
    \/ scan.at = "publish" /\ scan.market = m
    \/ \E msg \in queue \cup timers \cup dead : msg.market = m
    \/ <<"scan", m>> \in mishaps \/ <<"retry", m>> \in mishaps

\* A market gets two resolutions only if two workers report at the same time, or
\* a report was cut off after its first row (worker/resolutions.ts reads the
\* status before it writes).
OneResolution ==
  \A m \in Markets : Cardinality(Rows(m)) > 1 => <<"report", m>> \in mishaps

\* A market is final only after the dispute window of a resolution of its own,
\* or after a dispute of one (the scheduler's query and the two review routes).
FinalAfterWindow ==
  \A m \in Markets : status[m] = "finalized" =>
    \E r \in Rows(m) : r \in closed \/ DisputesOf(r) # {}

\* The resolutions of a final market are final, once the scheduler is through
\* with it (three writers close both tables, in different orders).
FinalResolutions ==
  \A m \in Markets : status[m] = "finalized" =>
    \/ \A r \in Rows(m) : resolutions[r].status = "finalized"
    \/ sweep.at = "resolutions" /\ sweep.market = m
    \/ <<"report", m>> \in mishaps \/ <<"sweep", m>> \in mishaps

\* A result is no longer the reported one only where a dispute has overturned it,
\* and the dispute says so, unless two reviewed it at the same time.
OverturnsExplained ==
  \A r \in 1 .. Len(resolutions) :
    resolutions[r].result # resolutions[r].reported =>
      \E d \in DisputesOf(r) : disputes[d].new = resolutions[r].result \/ <<"review", d>> \in mishaps

\* A disputed market has a dispute somebody can still review, or is being
\* reviewed, unless the review or the submission was cut off or overtaken: the
\* scheduler passes over disputed markets, so it would stay disputed for ever.
DisputedIsHeard ==
  \A m \in Markets : status[m] = "disputed" =>
    \/ HasOpenDispute(m)
    \/ \E q \in Requests : request[q].route \in {"admin", "agent"} /\ request[q].market = m
    \/ <<"file", m>> \in mishaps
    \/ \E r \in Rows(m) : \E d \in DisputesOf(r) : <<"review", d>> \in mishaps

\* The status as an outsider may rely on it: the rows and requests behind it are
\* mapped to the markets they are about.
About(routes) == {request[q].market : q \in {p \in Requests : request[p].route \in routes}}
WindowsOver == {resolutions[r].market : r \in closed}
OnRecord == {resolutions[disputes[d].row].market : d \in 1 .. Len(disputes)}
Raced == {m \in Markets : <<"report", m>> \in mishaps}

Promised == INSTANCE MarketStatus WITH
  over <- WindowsOver, filing <- About({"file"}), onRecord <- OnRecord,
  hearing <- About({"admin", "agent"}), raced <- Raced

\* No interleaving of cron jobs, reports, submissions and reviews takes a market's
\* status where MarketStatus does not let it go: out of "finalized" by a dispute
\* accepted before or by racing reports only, out of "disputed" by a review or
\* such reports only, into "finalized" only with cause.
StatusKept == Promised!Spec

\* A resolved market is final one day, or somebody disputes it.
ResolvedEnds ==
  \A m \in Markets :
    status[m] = "resolved" ~> status[m] \in {"finalized", "disputed"} \/ HasOpenDispute(m)
================================================================================
