---------------------------- MODULE ProposalApi -----------------------------
(* The routes through which proposals come in and external workers report on *)
(* them: POST /propose with its sliding-window limits, submitted from pages  *)
(* that try twice, and the worker routes for drafts, validations and         *)
(* publications.  Handlers are concurrent; every statement they send to the  *)
(* database is a step, and none of them shares a transaction with the next.  *)
(* Identifiers: request n makes proposal n; all pages are of one user.       *)
EXTENDS Naturals, FiniteSets, Sequences

CONSTANTS
  Pages,            \* pages of the user, each with at most one submission pending
  Calls,            \* calls of the worker routes that may be under way at a time
  Markets,          \* numbers for draft markets
  Limits, Lengths,  \* per window in the order of RATE_LIMITS: limit, length
  QueueConfigured,  \* isQueueConfigured
  Budgets           \* bounds: requests, worker calls, faults and time of a run

ASSUME Windows == /\ Limits \in Seq(Nat) /\ Lengths \in Seq(Nat)
                  /\ Len(Limits) = Len(Lengths) /\ Len(Limits) > 0
ASSUME Numbers == Markets \subseteq Nat \ {0} /\ IsFiniteSet(Pages) /\ Pages # {}

VARIABLES
  clock,
  budget,      \* the bounds chosen for this run
  faults,
  similar,     \* whether a market like the proposals is active
  page,        \* the request each page waits for or is about to repeat, 0 if none
  requests,    \* POST /propose so far, with the state of their handlers
  proposals,   \* the rows, by request
  counted,     \* rate_limits: per request the windows it is counted in
  sent,        \* candidate messages
  vanished,    \* messages given to a channel that closed before it wrote them
  lost,        \* requests whose page stopped waiting
  markets,     \* ai_markets, as far as these routes write it
  known,       \* drafts whose number a reply has told
  approvals,   \* markets.publish
  calls,       \* the handlers of the worker routes
  overlapped   \* history: markets two calls were on at the same time

intake == <<similar, page, requests, proposals, counted, sent, vanished, lost>>
review == <<markets, known, approvals, calls, overlapped>>
vars == <<clock, budget, faults, intake, review>>

None == "none"
Idle == [at |-> "idle", kind |-> None, market |-> 0, proposal |-> 0, verdict |-> None]
Verdicts == {"approved", "rejected", "needs_human"}

Init ==
  /\ clock = 0 /\ budget \in Budgets /\ faults = 0 /\ similar = FALSE
  /\ page = [p \in Pages |-> [at |-> "form", of |-> 0]] /\ requests = <<>> /\ proposals = <<>> /\ counted = <<>>
  /\ sent = {} /\ vanished = {} /\ lost = {}
  /\ markets = [m \in Markets |-> [status |-> None, address |-> FALSE, source |-> 0]]
  /\ known = {} /\ approvals = {}
  /\ calls = [c \in Calls |-> Idle] /\ overlapped = {}

Tick == /\ clock < budget.clock /\ clock' = clock + 1
        /\ UNCHANGED <<budget, faults, intake, review>>

Rest == <<clock, budget, review>>
Fault == faults < budget.faults /\ faults' = faults + 1

-----------------------------------------------------------------------------
(* The page: one submission at a time; a mutation that fails is tried again  *)
(* once.                                                                     *)

Post(p, first) ==
  LET n == Len(requests) + 1 IN
  /\ n <= budget.requests
  /\ requests' = Append(requests, [at |-> "check", window |-> 1, matched |-> FALSE, stamp |-> 0,
                                   reply |-> None, first |-> IF first = 0 THEN n ELSE first])
  /\ proposals' = Append(proposals, [status |-> None, born |-> 0, draft |-> 0])
  /\ counted' = Append(counted, {})
  /\ page' = [page EXCEPT ![p] = [at |-> "waiting", of |-> n]]
  /\ UNCHANGED <<Rest, faults, similar, sent, vanished, lost>>

Submit(p) == page[p].at = "form" /\ Post(p, 0)
Retry(p) == page[p].at = "again" /\ Post(p, page[p].of)

\* What a page does about an error: it has a second try, or shows it.
Failed(p) == IF requests[page[p].of].first = page[p].of THEN [page[p] EXCEPT !.at = "again"]
             ELSE [at |-> "form", of |-> 0]

Receive(p) ==
  LET reply == requests[page[p].of].reply IN
  /\ page[p].at = "waiting" /\ reply # None
  /\ page' = [page EXCEPT ![p] = IF reply \in {"limited", "failed"} THEN Failed(p)
                                 ELSE [at |-> "form", of |-> 0]]
  /\ UNCHANGED <<Rest, faults, similar, requests, proposals, counted, sent, vanished, lost>>

\* The connection breaks: an error to the page, nothing to the handler.
LoseReply(p) ==
  /\ page[p].at = "waiting" /\ Fault
  /\ lost' = lost \cup {page[p].of} /\ page' = [page EXCEPT ![p] = Failed(p)]
  /\ UNCHANGED <<Rest, similar, requests, proposals, counted, sent, vanished>>

-----------------------------------------------------------------------------
(* The handler of POST /propose. *)

At(n, step) == requests[n].at = step
Go(n, step) == requests' = [requests EXCEPT ![n].at = step]
Reply(n, reply) == requests' = [requests EXCEPT ![n].at = "done", ![n].reply = reply]
Same == <<Rest, page, lost>>

\* Rows of a window that began after now - windowMs.
Count(w) == Cardinality({q \in 1 .. Len(counted) :
                           w \in counted[q] /\ requests[q].stamp + Lengths[w] > clock})

FullOnceOver(w) == Count(w) > Limits[w]   \* mutant
Full(w) == Count(w) >= Limits[w]

CheckRateLimit(n) ==
  LET w == requests[n].window IN
  /\ At(n, "check")
  /\ IF Full(w) THEN Reply(n, "limited")
     ELSE IF w < Len(Limits) THEN requests' = [requests EXCEPT ![n].window = w + 1]
     ELSE Go(n, "similar")
  /\ UNCHANGED <<Same, faults, similar, proposals, counted, sent, vanished>>

FindSimilarMarkets(n) ==
  /\ At(n, "similar")
  /\ requests' = [requests EXCEPT ![n].at = "insert", ![n].matched = similar]
  /\ UNCHANGED <<Same, faults, similar, proposals, counted, sent, vanished>>

InsertProposal(n) ==
  /\ At(n, "insert")
  /\ proposals' = [proposals EXCEPT ![n].born = clock,
                     ![n].status = IF requests[n].matched THEN "matched" ELSE "pending"]
  /\ requests' = [requests EXCEPT ![n].at = "count", ![n].window = 1]
  /\ UNCHANGED <<Same, faults, similar, counted, sent, vanished>>

\* One row per window, all with the time at which the counting began.
IncrementRateLimit(n) ==
  LET w == requests[n].window
      r == [requests[n] EXCEPT !.stamp = IF w = 1 THEN clock ELSE @] IN
  /\ At(n, "count")
  /\ counted' = [counted EXCEPT ![n] = @ \cup {w}]
  /\ requests' = [requests EXCEPT ![n] =
                    IF w < Len(Limits) THEN [r EXCEPT !.window = w + 1]
                    ELSE IF r.matched THEN [r EXCEPT !.at = "done", !.reply = "matched"]
                    ELSE IF ~QueueConfigured THEN [r EXCEPT !.at = "done", !.reply = "pending"]
                    ELSE [r EXCEPT !.at = "candidate"]]
  /\ UNCHANGED <<Same, faults, similar, proposals, sent, vanished>>

InsertCandidateQueued(n) ==   \* mutant
  /\ At(n, "candidate") /\ Go(n, "mark") /\ sent' = sent \cup {n}
  /\ UNCHANGED <<Same, faults, similar, proposals, counted, vanished>>
InsertCandidate(n) ==
  /\ At(n, "candidate") /\ Go(n, "mark")
  /\ UNCHANGED <<Same, faults, similar, proposals, counted, sent, vanished>>

MarkProcessing(n) ==
  /\ At(n, "mark") /\ Go(n, "publish")
  /\ proposals' = [proposals EXCEPT ![n].status = "processing"]
  /\ UNCHANGED <<Same, faults, similar, counted, sent, vanished>>

\* Nobody waits for the broker to confirm.
PublishCandidate(n) ==
  /\ At(n, "publish") /\ Reply(n, "processing")
  /\ \/ sent' = sent \cup {n} /\ UNCHANGED <<vanished, faults>>
     \/ vanished' = vanished \cup {n} /\ Fault /\ UNCHANGED sent
  /\ UNCHANGED <<Same, similar, proposals, counted>>

\* A statement or the connection fails, or the process dies.
Throw(n) ==
  /\ ~At(n, "done") /\ Fault /\ Reply(n, "failed")
  /\ UNCHANGED <<Same, similar, proposals, counted, sent, vanished>>

Propose(n) ==
  CheckRateLimit(n) \/ FindSimilarMarkets(n) \/ InsertProposal(n) \/ IncrementRateLimit(n)
  \/ InsertCandidate(n) \/ MarkProcessing(n) \/ PublishCandidate(n)

\* Some market like the texts becomes active, or ends.
SimilarChanges ==
  /\ similar' = ~similar
  /\ UNCHANGED <<Same, faults, requests, proposals, counted, sent, vanished>>

\* The scheduler's hourly job: rows older than the longest window.
Expired(n) == \A w \in 1 .. Len(Lengths) : requests[n].stamp + Lengths[w] < clock
CleanupRateLimits ==
  /\ \E n \in 1 .. Len(counted) : Expired(n) /\ counted[n] # {}
  /\ counted' = [n \in 1 .. Len(counted) |-> IF Expired(n) THEN {} ELSE counted[n]]
  /\ UNCHANGED <<Same, faults, similar, requests, proposals, sent, vanished>>

-----------------------------------------------------------------------------
(* The worker routes. *)

Others == <<clock, similar, page, requests, counted, sent, vanished, lost>>
On(c, step) == calls[c].at = step
To(c, step) == calls' = [calls EXCEPT ![c].at = step]
End(c) == calls' = [calls EXCEPT ![c] = Idle]

Busy(m) == \E c \in Calls : calls[c].market = m
Call(c, kind, at, m, n, verdict) ==
  /\ On(c, "idle") /\ budget.calls > 0 /\ budget' = [budget EXCEPT !.calls = @ - 1]
  /\ calls' = [calls EXCEPT ![c] = [at |-> at, kind |-> kind, market |-> m,
                                    proposal |-> n, verdict |-> verdict]]
  /\ overlapped' = IF m # 0 /\ Busy(m) THEN overlapped \cup {m} ELSE overlapped
  /\ UNCHANGED <<Others, faults, proposals, markets, known, approvals>>

\* POST /worker/drafts, for a candidate of a proposal the worker was sent.
PostDraft(c) == \E n \in sent : Call(c, "draft", "insert", 0, n, None)
\* POST /worker/validations and .../published, for a draft it was told of.
PostValidation(c) == \E m \in known, v \in Verdicts : Call(c, "validation", "read", m, 0, v)
PostPublished(c) == \E m \in known : Call(c, "published", "read", m, 0, None)

Unused == {m \in Markets : markets[m].status = None}
InsertDraft(c) ==
  /\ On(c, "insert") /\ Unused # {}
  /\ LET m == CHOOSE x \in Unused : \A y \in Unused : x <= y IN
       /\ markets' = [markets EXCEPT ![m].status = "draft"]
       /\ calls' = [calls EXCEPT ![c].at = "proposal", ![c].market = m]
  /\ UNCHANGED <<Others, budget, faults, proposals, known, approvals, overlapped>>

\* The second half of the draft route: proposal to draft, then draft to proposal.
LinkDraft(c) ==
  LET m == calls[c].market  n == calls[c].proposal IN
  /\ calls[c].kind = "draft" /\ On(c, "link")
  /\ markets' = [markets EXCEPT ![m].source = n]
  /\ known' = known \cup {m} /\ End(c)
  /\ UNCHANGED <<Others, budget, faults, proposals, approvals, overlapped>>

MayWriteAny(c, status) == TRUE   \* mutant
\* The statuses each route goes on with.
MayWrite(c, status) ==
  IF calls[c].kind = "validation" THEN status = "draft" ELSE status \in {"draft", "pending_review"}
Read(c) ==
  LET row == markets[calls[c].market] IN
  /\ On(c, "read")
  /\ IF MayWrite(c, row.status)
     THEN calls' = [calls EXCEPT ![c].at = "update", ![c].proposal = row.source]
     ELSE End(c)
  /\ UNCHANGED <<Others, budget, faults, proposals, markets, known, approvals, overlapped>>

\* The update names the id only: what was read may no longer hold.
UpdateMarket(c) ==
  /\ On(c, "update") /\ To(c, "proposal")
  /\ markets' = [markets EXCEPT ![calls[c].market] =
       IF calls[c].kind = "published" THEN [@ EXCEPT !.status = "active", !.address = TRUE]
       ELSE [@ EXCEPT !.status = IF calls[c].verdict = "rejected" THEN "canceled"
                                 ELSE "pending_review"]]
  /\ UNCHANGED <<Others, budget, faults, proposals, known, approvals, overlapped>>

ToldForgetful(call, row) ==   \* mutant
  CASE call.kind = "draft" -> [row EXCEPT !.draft = call.market]
    [] call.kind = "validation" -> [row EXCEPT !.status = call.verdict]
    [] OTHER -> [row EXCEPT !.status = "published"]
\* What a proposal is told of its draft.
Told(call, row) ==
  CASE call.kind = "draft" -> [row EXCEPT !.status = "draft_created", !.draft = call.market]
    [] call.kind = "validation" -> [row EXCEPT !.status = call.verdict]
    [] OTHER -> [row EXCEPT !.status = "published"]

UpdateProposal(c) ==
  LET call == calls[c] IN
  /\ On(c, "proposal")
  /\ proposals' = [proposals EXCEPT ![call.proposal] = Told(call, @)]
  /\ IF call.kind = "draft" THEN To(c, "link")
     ELSE IF call.verdict = "approved" /\ QueueConfigured THEN To(c, "queue")
     ELSE End(c)
  /\ UNCHANGED <<Others, budget, faults, markets, known, approvals, overlapped>>

QueueApproval(c) ==
  /\ On(c, "queue") /\ End(c)
  /\ approvals' = approvals \cup {calls[c].market}
  /\ UNCHANGED <<Others, budget, faults, proposals, markets, known, overlapped>>

\* The caller hears of an error, and may call again.
ThrowCall(c) ==
  /\ ~On(c, "idle") /\ Fault /\ End(c)
  /\ UNCHANGED <<Others, budget, proposals, markets, known, approvals, overlapped>>

Work(c) == InsertDraft(c) \/ LinkDraft(c) \/ Read(c) \/ UpdateMarket(c) \/ UpdateProposal(c)
           \/ QueueApproval(c)

Next ==
  \/ Tick \/ SimilarChanges \/ CleanupRateLimits
  \/ \E p \in Pages : Submit(p) \/ Retry(p) \/ Receive(p) \/ LoseReply(p)
  \/ \E n \in 1 .. Len(requests) : Propose(n) \/ Throw(n)
  \/ \E c \in Calls : PostDraft(c) \/ PostValidation(c) \/ PostPublished(c) \/ Work(c) \/ ThrowCall(c)

Spec == Init /\ [][Next]_vars

-----------------------------------------------------------------------------
\* In no window does a user get more proposals in than the limit, one more for
\* each page that was checked before the others were counted, and one for each
\* fault (which keeps a row from being counted, or a page from waiting).
RateHeld ==
  \A w \in 1 .. Len(Limits) :
    Cardinality({n \in 1 .. Len(proposals) : /\ proposals[n].status # None
                                             /\ proposals[n].born + Lengths[w] > clock})
      <= Limits[w] + Cardinality(Pages) - 1 + faults

\* One submission queues two candidates, and so two markets, only if the page
\* never got the answer to the first try: an error in the answer means that
\* nothing was queued.
RetryIsSafe ==
  \A n \in sent : requests[n].first # n /\ requests[n].first \in sent
                    => requests[n].first \in lost

\* What is on chain stays active in the table, unless a validation was under
\* way when the publication came.
PublishedStays ==
  \A m \in Markets : markets[m].address /\ markets[m].status # "active" => m \in overlapped

\* When calls come one after another and none fails, a proposal and its only
\* draft tell the same.
Sources(n) == {m \in Markets : markets[m].source = n}
Matching == [draft |-> {"draft_created"}, canceled |-> {"rejected"},
             pending_review |-> {"approved", "needs_human"}, active |-> {"published"}]
RecordsFollow ==
  \A m \in known :
    LET n == markets[m].source IN
    faults = 0 /\ ~Busy(m) /\ m \notin overlapped /\ Sources(n) = {m}
      /\ (\A c \in Calls : calls[c].proposal # n)
      => proposals[n].status \in Matching[markets[m].status]
=============================================================================
