------------------------- MODULE ProposalApi_proofs -------------------------
(***************************************************************************)
(* Theorems about ProposalApi, for any pages, calls, windows and bounds.   *)
(* SubmissionsInv carries the limits and the second try, ReviewsInv what   *)
(* the worker routes write; README.md explains both.                       *)
(***************************************************************************)
EXTENDS ProposalApi, SequenceTheorems, FiniteSetTheorems, WellFoundedInduction, TLAPS

(***************************************************************************)
(* The inductive invariant of the submissions: how far a request is says   *)
(* what its rows hold, who waits for it, and what was spent on it.         *)
(***************************************************************************)

L == 1 .. Len(Limits)
N == 1 .. Len(requests)

Requests ==
  [at : {"check", "similar", "insert", "count", "candidate", "mark", "publish", "done"},
   window : L, matched : BOOLEAN, stamp : Nat,
   reply : {None, "limited", "failed", "matched", "pending", "processing"}, first : Nat]

Rows ==
  [status : {None, "matched", "pending", "processing", "draft_created", "published"} \cup Verdicts,
   born : Nat, draft : Markets \cup {0}]

SubmissionsTyped ==
  /\ clock \in Nat /\ faults \in Nat /\ similar \in BOOLEAN
  /\ page \in [Pages -> [at : {"form", "waiting", "again"}, of : Nat]]
  /\ requests \in Seq(Requests) /\ proposals \in Seq(Rows) /\ counted \in Seq(SUBSET L)
  /\ Len(proposals) = Len(requests) /\ Len(counted) = Len(requests)
  /\ sent \subseteq N /\ lost \subseteq N

\* An error that is no secret: the answer said so, or the page never got it.
Excused(n) == n \in lost \/ requests[n].reply \in {"limited", "failed"}

Watched ==
  \A p \in Pages : LET n == page[p].of IN
    /\ page[p].at # "form" => n \in N
    /\ page[p].at = "again" => requests[n].first = n /\ Excused(n)

\* A handler at work has a page that waits for it, unless the page gave up.
Attended ==
  \A n \in N : requests[n].at # "done" =>
    n \in lost \/ \E p \in Pages : page[p].at = "waiting" /\ page[p].of = n

\* Counted in window w, as young as the proposal, or too old to matter.
Seen(r, p, k, w) ==
  \/ p.born + Lengths[w] <= clock
  \/ w \in k /\ p.born <= r.stamp

\* What the rows p and k of a request r are when it is where it is.
Orderly(r, p, k) ==
  /\ r.at = "done" <=> r.reply # None
  /\ r.at \in {"check", "similar", "insert"} => p.status = None
  /\ r.at \in {"count", "candidate", "mark", "publish"} => p.status # None
  /\ r.reply = "processing" => p.status # None
  /\ p.status # None => p.born <= clock
  /\ r.at = "count" /\ r.window > 1 => p.born <= r.stamp
  /\ p.status # None /\ r.reply # "failed" =>
       \A w \in L : r.at # "count" \/ w < r.window => Seen(r, p, k, w)

InOrder(n) ==
  LET r == requests[n] IN
  /\ Orderly(r, proposals[n], counted[n])
  /\ n \in sent => r.reply = "processing"
  /\ r.first # n => r.first \in N /\ Excused(r.first)

Broken == {n \in N : requests[n].reply = "failed"}
FaultsPaid == Cardinality(lost \cup Broken) <= faults

\* In the window, or past its check and on the way in.
Within(r, p, w) ==
  \/ p.status # None /\ p.born + Lengths[w] > clock
  \/ r.at = "check" /\ r.window > w
  \/ r.at \in {"similar", "insert"}
Inside(w) == {n \in N : Within(requests[n], proposals[n], w)}
Bounded == \A w \in L : Cardinality(Inside(w)) <= Limits[w] + Cardinality(Pages) - 1 + faults

SubmissionsInv ==
  /\ SubmissionsTyped /\ Watched /\ Attended /\ (\A n \in N : InOrder(n))
  /\ FaultsPaid /\ Bounded

(***************************************************************************)
(* The inductive invariant of the worker routes.                           *)
(***************************************************************************)

CallRecords ==
  [at : {"idle", "insert", "read", "update", "proposal", "link", "queue"},
   kind : {None, "draft", "validation", "published"}, market : Markets \cup {0},
   proposal : Nat, verdict : Verdicts \cup {None}]

ReviewsTyped ==
  /\ markets \in [Markets ->
       [status : {None, "draft", "pending_review", "active", "canceled"},
        address : BOOLEAN, source : Nat]]
  /\ calls \in [Calls -> CallRecords]
  /\ overlapped \subseteq known /\ known \subseteq Markets

\* A draft's number is told once its source is written.
Sourced ==
  \A m \in Markets : LET row == markets[m] IN
    /\ m \in known => row.source \in sent /\ row.status # None
    /\ m \notin known => row.source = 0 /\ ~row.address

Decided(verdict) == IF verdict = "rejected" THEN "canceled" ELSE "pending_review"

\* Where a call is, and what it found or wrote there.
Placed(call) ==
  LET m == call.market  row == markets[m] IN
  /\ call.kind = None => call = Idle
  /\ call.kind # "validation" => call.verdict = None
  /\ call.kind = "draft" =>
       /\ call.at \in {"insert", "proposal", "link"} /\ call.proposal \in sent
       /\ call.at = "insert" => m = 0
       /\ call.at # "insert" => m \in Markets \ known /\ row.status = "draft"
  /\ call.kind \in {"validation", "published"} =>
       /\ call.at \in {"read", "update", "proposal", "queue"} /\ m \in known
       /\ call.proposal = IF call.at = "read" THEN 0 ELSE row.source
  /\ call.kind = "validation" =>
       /\ call.verdict \in Verdicts
       /\ m \notin overlapped /\ call.at = "update" => row.status = "draft"
       /\ m \notin overlapped /\ call.at = "proposal" => row.status = Decided(call.verdict)
  /\ call.kind = "published" =>
       (m \notin overlapped /\ call.at = "proposal" => row.status = "active")

\* Two calls on one market are known to have met.
Alone ==
  \A c, d \in Calls : c # d /\ calls[c].market = calls[d].market /\ calls[c].market # 0
                        => calls[c].market \in overlapped

\* The proposal of a draft about to be linked says so, until another is.
Linking ==
  \A c \in Calls : calls[c].at = "link" /\ Sources(calls[c].proposal) = {}
    => proposals[calls[c].proposal].status = "draft_created"

\* What is being written about m, or about its proposal by another draft.
Unsettled(m) ==
  \/ \E c \in Calls : calls[c].at = "proposal" /\ calls[c].market = m
  \/ \E c \in Calls : calls[c].at = "link" /\ calls[c].proposal = markets[m].source
Agreeing ==
  \A m \in known :
    m \notin overlapped /\ Sources(markets[m].source) = {m} /\ ~Unsettled(m)
      => proposals[markets[m].source].status \in Matching[markets[m].status]

ReviewsInv ==
  /\ ReviewsTyped /\ Sourced /\ (\A c \in Calls : Placed(calls[c])) /\ Alone /\ PublishedStays
  /\ faults = 0 => Linking /\ Agreeing

ProposalsInv == SubmissionsInv /\ ReviewsInv

(***************************************************************************)
(* Counting.                                                               *)
(***************************************************************************)

LEMMA Sizes ==
  /\ Len(Limits) \in Nat /\ Len(Limits) > 0 /\ 1 \in L
  /\ \A w \in L : Limits[w] \in Nat /\ Lengths[w] \in Nat
  /\ Cardinality(Pages) \in Nat
<1>1. Len(Limits) \in Nat /\ Len(Limits) = Len(Lengths) BY Windows, LenProperties
<1>2. \A w \in L : Limits[w] \in Nat /\ Lengths[w] \in Nat
  BY <1>1, Windows, ElementOfSeq DEF L
<1> QED BY <1>1, <1>2, Windows, Numbers, FS_CardinalityType DEF L

LEMMA Finite ==
  ASSUME SubmissionsTyped
  PROVE  /\ Len(requests) \in Nat /\ IsFiniteSet(N)
         /\ \A S \in SUBSET N : IsFiniteSet(S) /\ Cardinality(S) \in Nat
         /\ \A n \in N : requests[n] \in Requests /\ proposals[n] \in Rows
                         /\ counted[n] \in SUBSET L
<1>1. Len(requests) \in Nat BY LenProperties DEF SubmissionsTyped
<1>2. IsFiniteSet(N)
  <2>1. 1 \in Int /\ Len(requests) \in Int BY <1>1
  <2> QED BY <2>1, FS_Interval DEF N
<1>3. ASSUME NEW S \in SUBSET N PROVE IsFiniteSet(S) /\ Cardinality(S) \in Nat
  BY <1>2, FS_Subset, FS_CardinalityType
<1> QED BY <1>1, <1>2, <1>3, ElementOfSeq DEF SubmissionsTyped, N

\* At work, or stopped by a failure: a page each, or a fault.
Underway == {n \in N : requests[n].at # "done" \/ requests[n].reply = "failed"}

LEMMA UnderwayFew ==
  ASSUME SubmissionsInv
  PROVE  Cardinality(Underway) <= Cardinality(Pages) + faults
<1> DEFINE watched == {page[p].of : p \in Pages}
           f == [p \in Pages |-> page[p].of]
<1>1. IsFiniteSet(watched) /\ Cardinality(watched) <= Cardinality(Pages)
  <2>1. f \in Surjection(Pages, watched) BY DEF Surjection
  <2> HIDE DEF f, watched
  <2> QED BY <2>1, FS_Surjection, Numbers
<1>2. SubmissionsTyped BY DEF SubmissionsInv
<1>3. /\ lost \cup Broken \in SUBSET N /\ IsFiniteSet(lost \cup Broken)
      /\ Cardinality(lost \cup Broken) \in Nat
  BY <1>2, Finite DEF SubmissionsTyped, Broken
<1>4. Underway \in SUBSET (watched \cup (lost \cup Broken))
  <2>1. ASSUME NEW n \in Underway PROVE n \in watched \cup (lost \cup Broken)
    <3>1. CASE requests[n].reply = "failed" BY <3>1 DEF Underway, Broken
    <3>2. CASE requests[n].at # "done"
      BY <3>2 DEF Underway, SubmissionsInv, Attended
    <3> QED BY <2>1, <3>1, <3>2 DEF Underway
  <2> QED BY <2>1
<1> HIDE DEF f, watched
<1>5. /\ IsFiniteSet(watched \cup (lost \cup Broken))
      /\ Cardinality(watched \cup (lost \cup Broken)) =
           Cardinality(watched) + Cardinality(lost \cup Broken)
             - Cardinality(watched \cap (lost \cup Broken))
  BY <1>1, <1>3, FS_Union
<1>6. Cardinality(watched) \in Nat /\ Cardinality(watched \cap (lost \cup Broken)) \in Nat
  <2>1. IsFiniteSet(watched \cap (lost \cup Broken)) BY <1>1, FS_Intersection
  <2> QED BY <1>1, <2>1, FS_CardinalityType
<1>7. /\ Cardinality(Underway) <= Cardinality(watched \cup (lost \cup Broken))
      /\ Cardinality(Underway) \in Nat
  BY <1>4, <1>5, FS_Subset, FS_CardinalityType
<1>8. Cardinality(lost \cup Broken) <= faults /\ faults \in Nat
  BY DEF SubmissionsInv, SubmissionsTyped, FaultsPaid
<1>9. Cardinality(watched \cup (lost \cup Broken)) \in Nat BY <1>5, FS_CardinalityType
<1> QED BY <1>1, <1>3, <1>5, <1>6, <1>7, <1>8, <1>9, Sizes

\* A request that passes the check of a window finds room for itself: whoever is
\* in the window is counted, and below the limit, or under way beside it.
LEMMA PassedCheck ==
  ASSUME SubmissionsInv, NEW n \in N, requests[n].at = "check",
         NEW w \in L, requests[n].window = w, ~Full(w)
  PROVE  Cardinality(Inside(w) \cup {n}) <= Limits[w] + Cardinality(Pages) - 1 + faults
<1> DEFINE C == {q \in 1 .. Len(counted) :
                   w \in counted[q] /\ requests[q].stamp + Lengths[w] > clock}
           P == Underway \ {n}
<1>1. SubmissionsTyped /\ 1 .. Len(counted) = N
  BY DEF SubmissionsInv, SubmissionsTyped, N
<1>2. C \in SUBSET N /\ IsFiniteSet(C) /\ Cardinality(C) \in Nat BY <1>1, Finite
<1>3. Cardinality(C) < Limits[w] BY <1>2, Sizes DEF Full, Count
<1>4. /\ Underway \in SUBSET N /\ n \in Underway /\ IsFiniteSet(Underway)
      /\ Cardinality(Underway) \in Nat
  BY <1>1, Finite DEF Underway
<1>5. IsFiniteSet(P) /\ Cardinality(P) = Cardinality(Underway) - 1
  BY <1>4, FS_RemoveElement
<1>6. Inside(w) \in SUBSET (C \cup P)
  <2>1. ASSUME NEW q \in Inside(w) PROVE q \in C \cup P
    <3> DEFINE r == requests[q]
               p == proposals[q]
    <3>1. /\ q \in N /\ Within(r, p, w) /\ Orderly(r, p, counted[q])
          /\ Orderly(requests[n], proposals[n], counted[n])
      BY DEF Inside, SubmissionsInv, InOrder
    <3>2. q # n
      <4>1. proposals[n].status = None BY <3>1 DEF Orderly
      <4>2. ~(w > w) BY DEF L
      <4> QED BY <3>1, <4>1, <4>2 DEF Within
    <3>3. CASE q \in Underway BY <3>2, <3>3
    <3>4. CASE q \notin Underway
      <4>1. r.at = "done" /\ r.reply # "failed" BY <3>1, <3>4 DEF Underway
      <4>2. p.status # None /\ p.born + Lengths[w] > clock BY <3>1, <4>1 DEF Within
      <4>3. r \in Requests /\ p \in Rows /\ clock \in Nat
        BY <1>1, <3>1, Finite DEF SubmissionsTyped
      <4>4. r.stamp \in Nat /\ p.born \in Nat BY <4>3 DEF Requests, Rows
      <4>5. w \in counted[q] /\ p.born <= r.stamp
        BY <3>1, <4>1, <4>2, <4>3, <4>4, Sizes DEF Orderly, Seen
      <4>6. r.stamp + Lengths[w] > clock BY <4>2, <4>3, <4>4, <4>5, Sizes
      <4> QED BY <1>1, <3>1, <4>5, <4>6
    <3> QED BY <3>3, <3>4
  <2> QED BY <2>1
<1> HIDE DEF C, P
<1>7. /\ IsFiniteSet(C \cup P)
      /\ Cardinality(C \cup P) = Cardinality(C) + Cardinality(P) - Cardinality(C \cap P)
  BY <1>2, <1>5, FS_Union
<1>8. Cardinality(C \cap P) \in Nat /\ Cardinality(P) \in Nat
  BY <1>2, <1>5, FS_Intersection, FS_CardinalityType
<1>9. /\ IsFiniteSet(Inside(w)) /\ Cardinality(Inside(w)) <= Cardinality(C \cup P)
      /\ Cardinality(Inside(w)) \in Nat /\ Cardinality(C \cup P) \in Nat
  BY <1>6, <1>7, FS_Subset, FS_CardinalityType
<1>10. Cardinality(Inside(w) \cup {n}) \in {Cardinality(Inside(w)), Cardinality(Inside(w)) + 1}
  BY <1>9, FS_AddElement
<1>11. Cardinality(Underway) <= Cardinality(Pages) + faults /\ faults \in Nat
  BY UnderwayFew DEF SubmissionsInv, SubmissionsTyped
<1>12. PICK c, u, a, b, pages, lim :
         /\ c = Cardinality(C) /\ u = Cardinality(Underway) /\ a = Cardinality(Inside(w))
         /\ b = Cardinality(C \cup P) /\ pages = Cardinality(Pages) /\ lim = Limits[w]
  OBVIOUS
<1>13. /\ c \in Nat /\ u \in Nat /\ a \in Nat /\ b \in Nat /\ pages \in Nat /\ lim \in Nat
       /\ c < lim /\ b <= c + u - 1 /\ a <= b /\ u <= pages + faults /\ faults \in Nat
  BY <1>2, <1>3, <1>4, <1>5, <1>7, <1>8, <1>9, <1>11, <1>12, Sizes
<1>14. a + 1 <= lim + pages - 1 + faults BY <1>13
<1>15. a <= lim + pages - 1 + faults BY <1>13, <1>14
<1> QED BY <1>10, <1>12, <1>14, <1>15

\* The property itself counts no more than that.
LEMMA InsideCounts ==
  ASSUME SubmissionsInv, NEW w \in L
  PROVE  Cardinality({n \in 1 .. Len(proposals) :
                        proposals[n].status # None /\ proposals[n].born + Lengths[w] > clock})
           <= Limits[w] + Cardinality(Pages) - 1 + faults
<1> DEFINE S == {n \in 1 .. Len(proposals) :
                   proposals[n].status # None /\ proposals[n].born + Lengths[w] > clock}
<1>1. SubmissionsTyped /\ 1 .. Len(proposals) = N
  BY DEF SubmissionsInv, SubmissionsTyped, N
<1>2. Inside(w) \in SUBSET N BY DEF Inside
<1>3. S \in SUBSET Inside(w) BY <1>1 DEF Inside, Within
<1>4. IsFiniteSet(Inside(w)) /\ Cardinality(Inside(w)) \in Nat BY <1>1, <1>2, Finite
<1> HIDE DEF S
<1>5. Cardinality(S) <= Cardinality(Inside(w)) /\ Cardinality(S) \in Nat
  BY <1>3, <1>4, FS_Subset, FS_CardinalityType
<1>6. Cardinality(Inside(w)) <= Limits[w] + Cardinality(Pages) - 1 + faults /\ faults \in Nat
  BY DEF SubmissionsInv, SubmissionsTyped, Bounded
<1> QED BY <1>4, <1>5, <1>6, Sizes DEF S

(***************************************************************************)
(* The steps of a submission.                                              *)
(***************************************************************************)

\* One row of each table is written.
LEMMA Written ==
  ASSUME SubmissionsTyped, NEW n \in N,
         NEW r \in Requests, requests' = [requests EXCEPT ![n] = r],
         NEW p \in Rows, proposals' = [proposals EXCEPT ![n] = p],
         NEW k \in SUBSET L, counted' = [counted EXCEPT ![n] = k]
  PROVE  /\ requests' \in Seq(Requests) /\ proposals' \in Seq(Rows)
         /\ counted' \in Seq(SUBSET L)
         /\ Len(requests') = Len(requests) /\ Len(proposals') = Len(proposals)
         /\ Len(counted') = Len(counted) /\ N' = N
         /\ requests'[n] = r /\ proposals'[n] = p /\ counted'[n] = k
         /\ \A q \in N : q # n => /\ requests'[q] = requests[q]
                                  /\ proposals'[q] = proposals[q] /\ counted'[q] = counted[q]
<1>1. /\ N = 1 .. Len(requests) /\ N = 1 .. Len(proposals) /\ N = 1 .. Len(counted)
      /\ requests \in Seq(Requests) /\ proposals \in Seq(Rows) /\ counted \in Seq(SUBSET L)
  BY DEF SubmissionsTyped, N
<1>2. /\ requests' \in Seq(Requests) /\ Len(requests') = Len(requests)
      /\ \A q \in N : requests'[q] = IF q = n THEN r ELSE requests[q]
  BY <1>1, ExceptSeq
<1>3. /\ proposals' \in Seq(Rows) /\ Len(proposals') = Len(proposals)
      /\ \A q \in N : proposals'[q] = IF q = n THEN p ELSE proposals[q]
  BY <1>1, ExceptSeq
<1>4. /\ counted' \in Seq(SUBSET L) /\ Len(counted') = Len(counted)
      /\ \A q \in N : counted'[q] = IF q = n THEN k ELSE counted[q]
  BY <1>1, ExceptSeq
<1>5. N' = N BY <1>2 DEF N
<1> QED BY <1>2, <1>3, <1>4, <1>5

\* Nobody gets into a window without its check.
Fits(n, r, p) ==
  \A w \in L : Within(r, p, w) =>
    \/ Within(requests[n], proposals[n], w)
    \/ requests[n].at = "check" /\ requests[n].window = w /\ ~Full(w)

LEMMA OneRequest ==
  ASSUME SubmissionsInv, NEW n \in N, requests[n].at # "done",
         NEW r \in Requests, requests' = [requests EXCEPT ![n] = r],
         r.first = requests[n].first,
         NEW p \in Rows, proposals' = [proposals EXCEPT ![n] = p],
         NEW k \in SUBSET L, counted' = [counted EXCEPT ![n] = k],
         UNCHANGED <<clock, similar, page, lost>>,
         sent \subseteq sent', sent' \subseteq sent \cup {n},
         n \in sent' => r.reply = "processing",
         faults' \in {faults, faults + 1}, r.reply = "failed" => faults' = faults + 1,
         Orderly(r, p, k),
         Fits(n, r, p)
  PROVE  SubmissionsInv'
<1>1. SubmissionsTyped BY DEF SubmissionsInv
<1>2. /\ requests' \in Seq(Requests) /\ proposals' \in Seq(Rows)
      /\ counted' \in Seq(SUBSET L)
      /\ Len(requests') = Len(requests) /\ Len(proposals') = Len(proposals)
      /\ Len(counted') = Len(counted) /\ N' = N
      /\ requests'[n] = r /\ proposals'[n] = p /\ counted'[n] = k
      /\ \A q \in N : q # n => /\ requests'[q] = requests[q]
                               /\ proposals'[q] = proposals[q] /\ counted'[q] = counted[q]
  BY <1>1, Written
<1>3. faults \in Nat /\ faults' \in Nat /\ faults' >= faults BY <1>1 DEF SubmissionsTyped
<1>4. SubmissionsTyped' BY <1>1, <1>2, <1>3 DEF SubmissionsTyped
<1>5. requests[n].reply = None BY DEF SubmissionsInv, InOrder, Orderly
<1>6. \A q \in N : Excused(q) => Excused(q)' BY <1>2, <1>5 DEF Excused, None
<1>7. Watched'
  <2>1. ASSUME NEW q \in Pages, page[q].at = "again"
        PROVE  requests'[page[q].of].first = page[q].of /\ Excused(page[q].of)'
    <3>1. PICK m : m = page[q].of OBVIOUS
    <3>2. m \in N /\ requests[m].first = m /\ Excused(m)
      BY <2>1, <3>1 DEF SubmissionsInv, Watched
    <3>3. Excused(m)' BY <1>6, <3>2
    <3>4. requests'[m].first = m BY <1>2, <3>2
    <3> QED BY <3>1, <3>3, <3>4
  <2> QED BY <1>2, <2>1 DEF SubmissionsInv, Watched
<1>8. Attended' BY <1>2 DEF SubmissionsInv, Attended
<1>9. ASSUME NEW q \in N' PROVE InOrder(q)'
  <2>1. q \in N /\ InOrder(q) BY <1>2 DEF SubmissionsInv
  <2>2. requests'[q].first = requests[q].first BY <1>2, <2>1
  <2>3. (requests[q].first # q => requests[q].first \in N /\ Excused(requests[q].first))'
    <3>1. PICK m : m = requests[q].first OBVIOUS
    <3>2. m # q => m \in N /\ Excused(m) BY <2>1, <3>1 DEF InOrder
    <3>3. m # q => Excused(m)' BY <1>6, <3>2
    <3>4. Excused(requests[q].first)' <=> Excused(m)' BY <2>2, <3>1 DEF Excused
    <3> QED BY <1>2, <2>2, <3>1, <3>2, <3>3, <3>4
  <2>4. Orderly(requests[q], proposals[q], counted[q])' BY <1>2, <2>1 DEF InOrder, Orderly, Seen
  <2>5. q \in sent' => requests'[q].reply = "processing" BY <1>2, <2>1 DEF InOrder
  <2> QED BY <2>3, <2>4, <2>5 DEF InOrder
<1>10. FaultsPaid'
  <2>1. Broken \subseteq Broken' /\ Broken' \subseteq Broken \cup {n}
        /\ (r.reply # "failed" => Broken' = Broken)
    BY <1>2, <1>5 DEF Broken, None
  <2>2. lost \cup Broken \in SUBSET N BY <1>1 DEF SubmissionsTyped, Broken
  <2>3. IsFiniteSet(lost \cup Broken) /\ Cardinality(lost \cup Broken) \in Nat
    BY <1>1, <2>2, Finite
  <2>4. Cardinality(lost \cup Broken) <= faults BY DEF SubmissionsInv, FaultsPaid
  <2>5. CASE r.reply # "failed"
    <3>1. (lost \cup Broken)' = lost \cup Broken BY <2>1, <2>5
    <3>2. PICK a, b : a = Cardinality(lost \cup Broken) /\ b = Cardinality(lost \cup Broken)'
      OBVIOUS
    <3>3. a \in Nat /\ a <= faults /\ faults \in Nat /\ b = a
      BY <1>1, <2>3, <2>4, <3>1, <3>2 DEF SubmissionsTyped
    <3>4. b <= faults' BY <1>3, <3>3
    <3> QED BY <3>2, <3>4 DEF FaultsPaid
  <2>6. CASE r.reply = "failed"
    <3>1. Broken' = Broken \cup {n} BY <1>2, <1>5, <2>6 DEF Broken, None
    <3>2. lost' \cup Broken' = (lost \cup Broken) \cup {n} BY <3>1
    <3>3. Cardinality((lost \cup Broken) \cup {n}) \in
            {Cardinality(lost \cup Broken), Cardinality(lost \cup Broken) + 1}
      BY <2>3, FS_AddElement
    <3>4. PICK a, b : a = Cardinality(lost \cup Broken) /\ b = Cardinality(lost \cup Broken)'
      OBVIOUS
    <3>5. a \in Nat /\ a <= faults /\ faults \in Nat /\ b \in {a, a + 1} /\ faults' = faults + 1
      BY <1>1, <2>3, <2>4, <2>6, <3>2, <3>3, <3>4 DEF SubmissionsTyped
    <3>6. b <= faults' BY <3>5
    <3> QED BY <3>4, <3>6 DEF FaultsPaid
  <2> QED BY <2>5, <2>6
<1>11. ASSUME NEW w \in L
       PROVE  Cardinality(Inside(w))' <= Limits[w] + Cardinality(Pages) - 1 + faults'
  <2>1. \A q \in N : q # n => (q \in Inside(w)' <=> q \in Inside(w))
    BY <1>2 DEF Inside, Within
  <2>2. n \in Inside(w)' => Within(r, p, w) BY <1>2 DEF Inside, Within
  <2>3. Inside(w)' \subseteq N BY <1>2 DEF Inside
  <2>4. Inside(w) \in SUBSET N BY DEF Inside
  <2>5. IsFiniteSet(Inside(w)) /\ Cardinality(Inside(w)) \in Nat BY <1>1, <2>4, Finite
  <2>6. Cardinality(Inside(w)) <= Limits[w] + Cardinality(Pages) - 1 + faults
    BY DEF SubmissionsInv, Bounded
  <2>7. CASE Inside(w)' \subseteq Inside(w)
    <3>1. PICK S : S = Inside(w)' OBVIOUS
    <3>2. Cardinality(S) <= Cardinality(Inside(w)) /\ Cardinality(S) \in Nat
      BY <2>5, <2>7, <3>1, FS_Subset, FS_CardinalityType
    <3> QED BY <1>3, <2>5, <2>6, <3>1, <3>2, Sizes
  <2>8. CASE ~(Inside(w)' \subseteq Inside(w))
    <3>1. n \in Inside(w)' /\ n \notin Inside(w) BY <2>1, <2>3, <2>8
    <3>2. requests[n].at = "check" /\ requests[n].window = w /\ ~Full(w)
      BY <2>2, <3>1 DEF Inside, Fits
    <3>3. Cardinality(Inside(w) \cup {n}) <= Limits[w] + Cardinality(Pages) - 1 + faults
      BY <3>2, PassedCheck
    <3>4. PICK S : S = Inside(w)' OBVIOUS
    <3>5. S = Inside(w) \cup {n} BY <2>1, <2>3, <2>4, <3>1, <3>4
    <3>6. Cardinality(S) \in Nat BY <2>5, <3>5, FS_AddElement, FS_CardinalityType
    <3> QED BY <1>3, <3>3, <3>4, <3>5, <3>6, Sizes
  <2> QED BY <2>7, <2>8
<1>12. Bounded' BY <1>11 DEF Bounded
<1> QED BY <1>4, <1>7, <1>8, <1>9, <1>10, <1>12 DEF SubmissionsInv

\* The rows of a request at work.
LEMMA AtStep ==
  ASSUME SubmissionsInv, NEW n \in N
  PROVE  /\ requests[n] \in Requests /\ proposals[n] \in Rows /\ counted[n] \in SUBSET L
         /\ Orderly(requests[n], proposals[n], counted[n])
         /\ n \in sent => requests[n].reply = "processing"
         /\ SubmissionsTyped /\ clock \in Nat /\ faults \in Nat /\ similar \in BOOLEAN
         /\ requests = [requests EXCEPT ![n] = requests[n]]
         /\ proposals = [proposals EXCEPT ![n] = proposals[n]]
         /\ counted = [counted EXCEPT ![n] = counted[n]]
<1>1. SubmissionsTyped /\ InOrder(n) BY DEF SubmissionsInv
<1>2. /\ requests \in [N -> Requests] /\ proposals \in [N -> Rows]
      /\ counted \in [N -> SUBSET L]
  BY <1>1, LenProperties DEF SubmissionsTyped, N
<1> QED BY <1>1, <1>2 DEF InOrder, SubmissionsTyped

\* The state of the handler alone changes.
LEMMA HandlerGoes ==
  ASSUME SubmissionsInv, NEW n \in N, requests[n].at # "done",
         NEW r \in Requests, requests' = [requests EXCEPT ![n] = r],
         r.first = requests[n].first,
         UNCHANGED <<clock, similar, page, lost, proposals, counted, sent, faults>>,
         r.reply # "failed", Orderly(r, proposals[n], counted[n]), Fits(n, r, proposals[n])
  PROVE  SubmissionsInv'
<1>1. PICK p, k : p = proposals[n] /\ k = counted[n] OBVIOUS
<1>2. /\ p \in Rows /\ k \in SUBSET L
      /\ proposals' = [proposals EXCEPT ![n] = p] /\ counted' = [counted EXCEPT ![n] = k]
      /\ n \notin sent'
  BY <1>1, AtStep DEF Orderly, None
<1>3. Orderly(r, p, k) /\ Fits(n, r, p) BY <1>1
<1>4. /\ sent \subseteq sent' /\ sent' \subseteq sent \cup {n}
      /\ faults' \in {faults, faults + 1}
  OBVIOUS
<1> QED BY <1>2, <1>3, <1>4, OneRequest

LEMMA HandlerKeeps ==
  ASSUME SubmissionsInv, NEW n \in N, Propose(n) \/ Throw(n)
  PROVE  SubmissionsInv'
<1> DEFINE r == requests[n]
           p == proposals[n]
           k == counted[n]
<1>0. /\ r \in Requests /\ p \in Rows /\ k \in SUBSET L /\ Orderly(r, p, k)
      /\ n \in sent => r.reply = "processing"
      /\ clock \in Nat /\ faults \in Nat /\ similar \in BOOLEAN
      /\ requests = [requests EXCEPT ![n] = r]
      /\ proposals = [proposals EXCEPT ![n] = p] /\ counted = [counted EXCEPT ![n] = k]
  BY AtStep
<1>0a. r.at # "done" => r.reply = None /\ n \notin sent BY <1>0 DEF Orderly, None
<1>1. CASE CheckRateLimit(n)
  <2> DEFINE w == r.window
  <2>1. /\ r.at = "check"
        /\ UNCHANGED <<clock, similar, page, lost, proposals, counted, sent, faults>>
        /\ w \in L /\ p.status = None
    BY <1>0, <1>1 DEF CheckRateLimit, At, Same, Rest, Requests, Orderly
  <2>2. CASE Full(w)
    <3>1. PICK s : s = [r EXCEPT !.at = "done", !.reply = "limited"] OBVIOUS
    <3>2. /\ s \in Requests /\ s.first = r.first /\ s.at = "done" /\ s.reply = "limited"
      BY <1>0, <3>1 DEF Requests
    <3>3. requests' = [requests EXCEPT ![n] = s]
      BY <1>1, <2>2, <3>1 DEF CheckRateLimit, Reply
    <3>4. Orderly(s, p, k) BY <2>1, <3>2 DEF Orderly, None
    <3>5. Fits(n, s, p) BY <2>1, <3>2 DEF Within, Fits
    <3> QED BY <2>1, <3>2, <3>3, <3>4, <3>5, HandlerGoes
  <2>3. CASE ~Full(w) /\ w < Len(Limits)
    <3>0. w + 1 \in L BY <2>1, <2>3, Sizes DEF L
    <3>1. PICK s : s = [r EXCEPT !.window = w + 1] OBVIOUS
    <3>2. /\ s \in Requests /\ s.first = r.first /\ s.at = "check" /\ s.reply = r.reply
          /\ s.window = w + 1
      BY <1>0, <2>1, <3>0, <3>1 DEF Requests
    <3>3. requests' = [requests EXCEPT ![n] = s]
      BY <1>1, <2>3, <3>1 DEF CheckRateLimit
    <3>4. Orderly(s, p, k) BY <1>0, <2>1, <3>2 DEF Orderly
    <3>5. \A v \in L : s.window > v => r.window > v \/ v = w BY <2>1, <3>2 DEF L
    <3>6. Fits(n, s, p) BY <2>1, <2>3, <3>2, <3>5 DEF Within, Fits
    <3>7. s.reply # "failed" BY <1>0a, <2>1, <3>2 DEF None
    <3> QED BY <2>1, <3>2, <3>3, <3>4, <3>6, <3>7, HandlerGoes
  <2>4. CASE ~Full(w) /\ ~(w < Len(Limits))
    <3>1. PICK s : s = [r EXCEPT !.at = "similar"] OBVIOUS
    <3>2. /\ s \in Requests /\ s.first = r.first /\ s.at = "similar" /\ s.reply = r.reply
      BY <1>0, <2>1, <3>1 DEF Requests
    <3>3. requests' = [requests EXCEPT ![n] = s]
      BY <1>1, <2>4, <3>1 DEF CheckRateLimit, Go
    <3>4. Orderly(s, p, k) BY <1>0, <2>1, <3>2 DEF Orderly
    <3>5. \A v \in L : r.window > v \/ v = w BY <2>1, <2>4, Sizes DEF L
    <3>6. Fits(n, s, p) BY <2>1, <2>4, <3>5 DEF Within, Fits
    <3>7. s.reply # "failed" BY <1>0a, <2>1, <3>2 DEF None
    <3> QED BY <2>1, <3>2, <3>3, <3>4, <3>6, <3>7, HandlerGoes
  <2> QED BY <2>2, <2>3, <2>4
<1>2. CASE FindSimilarMarkets(n)
  <2>1. /\ r.at = "similar"
        /\ UNCHANGED <<clock, similar, page, lost, proposals, counted, sent, faults>>
        /\ p.status = None
    BY <1>0, <1>2 DEF FindSimilarMarkets, At, Same, Rest, Orderly
  <2>2. PICK s : s = [r EXCEPT !.at = "insert", !.matched = similar] OBVIOUS
  <2>3. /\ s \in Requests /\ s.first = r.first /\ s.at = "insert" /\ s.reply = r.reply
    BY <1>0, <2>2 DEF Requests
  <2>4. requests' = [requests EXCEPT ![n] = s] BY <1>2, <2>2 DEF FindSimilarMarkets
  <2>5. Orderly(s, p, k) BY <1>0, <2>1, <2>3 DEF Orderly
  <2>6. Fits(n, s, p) BY <2>1 DEF Within, Fits
  <2>7. s.reply # "failed" BY <1>0a, <2>1, <2>3 DEF None
  <2> QED BY <2>1, <2>3, <2>4, <2>5, <2>6, <2>7, HandlerGoes
<1>3. CASE InsertProposal(n)
  <2>1. /\ r.at = "insert" /\ UNCHANGED <<clock, similar, page, lost, counted, sent, faults>>
        /\ p.status = None /\ r.reply = None /\ n \notin sent
    BY <1>0, <1>0a, <1>3 DEF InsertProposal, At, Same, Rest, Orderly
  <2>2. PICK s, row, status :
          /\ s = [r EXCEPT !.at = "count", !.window = 1]
          /\ status = IF r.matched THEN "matched" ELSE "pending"
          /\ row = [p EXCEPT !.born = clock, !.status = status]
    OBVIOUS
  <2>3. /\ s \in Requests /\ s.first = r.first /\ s.at = "count" /\ s.reply = None
        /\ s.window = 1
    BY <1>0, <2>1, <2>2, Sizes DEF Requests
  <2>4. /\ row \in Rows /\ row.born = clock /\ row.status = status /\ status # None
    BY <1>0, <2>2 DEF Rows, None
  <2>5. /\ requests' = [requests EXCEPT ![n] = s] /\ proposals' = [proposals EXCEPT ![n] = row]
        /\ counted' = [counted EXCEPT ![n] = k]
    BY <1>0, <1>3, <2>1, <2>2 DEF InsertProposal
  <2>6. Orderly(s, row, k)
    <3>1. \A v \in L : ~(v < 1) BY DEF L
    <3> QED BY <1>0, <2>3, <2>4, <3>1 DEF Orderly
  <2>7. Fits(n, s, row) BY <2>1 DEF Within, Fits
  <2>8. /\ sent \subseteq sent' /\ sent' \subseteq sent \cup {n} /\ n \notin sent'
        /\ faults' \in {faults, faults + 1} /\ s.reply # "failed" /\ r.at # "done"
    BY <2>1, <2>3 DEF None
  <2> QED BY <1>0, <2>1, <2>3, <2>4, <2>5, <2>6, <2>7, <2>8, OneRequest
<1>4. CASE IncrementRateLimit(n)
  <2> DEFINE w == r.window
             stamp == IF w = 1 THEN clock ELSE r.stamp
  <2>1. /\ r.at = "count" /\ UNCHANGED <<clock, similar, page, lost, proposals, sent, faults>>
        /\ w \in L /\ p.status # None /\ r.reply = None /\ n \notin sent /\ p.born <= clock
        /\ w > 1 => p.born <= r.stamp
        /\ p.born \in Nat /\ r.stamp \in Nat
    BY <1>0, <1>0a, <1>4 DEF IncrementRateLimit, At, Same, Rest, Requests, Rows, Orderly
  <2>2. stamp \in Nat /\ p.born <= stamp
        /\ \A v \in L : v < w => Seen(r, p, k, v) /\ (v \in k => stamp = r.stamp)
    <3>1. w = 1 \/ w > 1 BY <2>1 DEF L
    <3>2. \A v \in L : v < w => w # 1 BY DEF L
    <3>3. \A v \in L : v < w => Seen(r, p, k, v) BY <1>0, <2>1 DEF Orderly, None
    <3> QED BY <1>0, <2>1, <3>1, <3>2, <3>3
  <2>3. PICK c : c = k \cup {w} OBVIOUS
  <2>4. c \in SUBSET L BY <1>0, <2>1, <2>3
  <2>5. \A s : s.stamp = stamp => \A v \in L : v < w \/ v = w => Seen(s, p, c, v)
    BY <2>2, <2>3 DEF Seen
  <2>6. PICK t : t = [r EXCEPT !.stamp = stamp] OBVIOUS
  <2>7. /\ t \in Requests /\ t.stamp = stamp /\ t.first = r.first /\ t.at = "count"
        /\ t.reply = None /\ t.window = w /\ t.matched = r.matched
    BY <1>0, <2>1, <2>2, <2>6 DEF Requests
  <2>8. PICK s : s = IF w < Len(Limits) THEN [t EXCEPT !.window = w + 1]
                     ELSE IF t.matched THEN [t EXCEPT !.at = "done", !.reply = "matched"]
                     ELSE IF ~QueueConfigured THEN [t EXCEPT !.at = "done", !.reply = "pending"]
                     ELSE [t EXCEPT !.at = "candidate"]
    OBVIOUS
  <2>9. /\ requests' = [requests EXCEPT ![n] = s] /\ proposals' = [proposals EXCEPT ![n] = p]
        /\ counted' = [counted EXCEPT ![n] = c]
    BY <1>0, <1>4, <2>1, <2>3, <2>6, <2>8 DEF IncrementRateLimit
  <2>10. /\ s \in Requests /\ s.first = r.first /\ s.stamp = stamp
         /\ (s.at = "done" <=> s.reply # None) /\ s.reply # "failed" /\ s.reply # "processing"
         /\ s.at \in {"count", "candidate", "done"}
         /\ s.at = "count" => w < Len(Limits) /\ s.window = w + 1
         /\ s.at # "count" => ~(w < Len(Limits))
    <3>1. w < Len(Limits) => w + 1 \in L BY <2>1, Sizes DEF L
    <3> QED BY <2>7, <2>8, <3>1 DEF Requests, None
  <2>11. \A v \in L : s.at # "count" \/ v < s.window => v < w \/ v = w
    BY <2>1, <2>10, Sizes DEF L
  <2>12. \A v \in L : s.at # "count" \/ v < s.window => Seen(s, p, c, v)
    BY <2>5, <2>10, <2>11
  <2>13. Orderly(s, p, c) BY <2>1, <2>2, <2>10, <2>12 DEF Orderly
  <2>14. Fits(n, s, p) BY <2>1, <2>10 DEF Within, Fits
  <2>15. /\ sent \subseteq sent' /\ sent' \subseteq sent \cup {n} /\ n \notin sent'
         /\ faults' \in {faults, faults + 1} /\ r.at # "done"
    BY <2>1
  <2> QED BY <1>0, <2>1, <2>4, <2>9, <2>10, <2>13, <2>14, <2>15, OneRequest
<1>5. CASE InsertCandidate(n)
  <2>1. /\ r.at = "candidate"
        /\ UNCHANGED <<clock, similar, page, lost, proposals, counted, sent, faults>>
    BY <1>5 DEF InsertCandidate, At, Same, Rest
  <2>2. PICK s : s = [r EXCEPT !.at = "mark"] OBVIOUS
  <2>3. /\ s \in Requests /\ s.first = r.first /\ s.at = "mark" /\ s.reply = r.reply
        /\ s.stamp = r.stamp
    BY <1>0, <2>2 DEF Requests
  <2>4. requests' = [requests EXCEPT ![n] = s] BY <1>5, <2>2 DEF InsertCandidate, Go
  <2>5. Orderly(s, p, k) BY <1>0, <2>1, <2>3 DEF Orderly, Seen
  <2>6. Fits(n, s, p) BY <2>1, <2>3 DEF Within, Fits
  <2>7. s.reply # "failed" BY <1>0a, <2>1, <2>3 DEF None
  <2> QED BY <2>1, <2>3, <2>4, <2>5, <2>6, <2>7, HandlerGoes
<1>6. CASE MarkProcessing(n)
  <2>1. /\ r.at = "mark" /\ UNCHANGED <<clock, similar, page, lost, counted, sent, faults>>
        /\ p.status # None /\ r.reply = None /\ n \notin sent
    BY <1>0, <1>0a, <1>6 DEF MarkProcessing, At, Same, Rest, Orderly
  <2>2. PICK s, row : s = [r EXCEPT !.at = "publish"] /\ row = [p EXCEPT !.status = "processing"]
    OBVIOUS
  <2>3. /\ s \in Requests /\ s.first = r.first /\ s.at = "publish" /\ s.reply = None
        /\ s.stamp = r.stamp
    BY <1>0, <2>1, <2>2 DEF Requests
  <2>4. row \in Rows /\ row.born = p.born /\ row.status # None
    BY <1>0, <2>2 DEF Rows, None
  <2>5. /\ requests' = [requests EXCEPT ![n] = s] /\ proposals' = [proposals EXCEPT ![n] = row]
        /\ counted' = [counted EXCEPT ![n] = k]
    BY <1>0, <1>6, <2>1, <2>2 DEF MarkProcessing, Go
  <2>6. Orderly(s, row, k) BY <1>0, <2>1, <2>3, <2>4 DEF Orderly, Seen
  <2>7. Fits(n, s, row) BY <2>1, <2>3, <2>4 DEF Within, Fits
  <2>8. /\ sent \subseteq sent' /\ sent' \subseteq sent \cup {n} /\ n \notin sent'
        /\ faults' \in {faults, faults + 1} /\ s.reply # "failed" /\ r.at # "done"
    BY <2>1, <2>3 DEF None
  <2> QED BY <1>0, <2>1, <2>3, <2>4, <2>5, <2>6, <2>7, <2>8, OneRequest
<1>7. CASE PublishCandidate(n)
  <2>1. /\ r.at = "publish" /\ UNCHANGED <<clock, similar, page, lost, proposals, counted>>
        /\ p.status # None
    BY <1>0, <1>7 DEF PublishCandidate, At, Same, Rest, Orderly
  <2>2. PICK s : s = [r EXCEPT !.at = "done", !.reply = "processing"] OBVIOUS
  <2>3. /\ s \in Requests /\ s.first = r.first /\ s.at = "done" /\ s.reply = "processing"
        /\ s.stamp = r.stamp
    BY <1>0, <2>2 DEF Requests
  <2>4. /\ requests' = [requests EXCEPT ![n] = s] /\ proposals' = [proposals EXCEPT ![n] = p]
        /\ counted' = [counted EXCEPT ![n] = k]
    BY <1>0, <1>7, <2>1, <2>2 DEF PublishCandidate, Reply
  <2>5. Orderly(s, p, k) BY <1>0, <1>0a, <2>1, <2>3 DEF Orderly, Seen, None
  <2>6. Fits(n, s, p) BY <2>1, <2>3 DEF Within, Fits
  <2>7. /\ sent \subseteq sent' /\ sent' \subseteq sent \cup {n}
        /\ faults' \in {faults, faults + 1} /\ r.at # "done" /\ s.reply # "failed"
    BY <1>7, <2>1, <2>3 DEF PublishCandidate, Fault
  <2> QED BY <1>0, <2>1, <2>3, <2>4, <2>5, <2>6, <2>7, OneRequest
<1>8. CASE Throw(n)
  <2>1. /\ r.at # "done" /\ UNCHANGED <<clock, similar, page, lost, proposals, counted, sent>>
        /\ faults' = faults + 1
    BY <1>8 DEF Throw, At, Same, Rest, Fault
  <2>2. PICK s : s = [r EXCEPT !.at = "done", !.reply = "failed"] OBVIOUS
  <2>3. /\ s \in Requests /\ s.first = r.first /\ s.at = "done" /\ s.reply = "failed"
    BY <1>0, <2>2 DEF Requests
  <2>4. /\ requests' = [requests EXCEPT ![n] = s] /\ proposals' = [proposals EXCEPT ![n] = p]
        /\ counted' = [counted EXCEPT ![n] = k]
    BY <1>0, <1>8, <2>1, <2>2 DEF Throw, Reply
  <2>5. Orderly(s, p, k) BY <1>0, <2>3 DEF Orderly, None
  <2>6. Fits(n, s, p) BY <2>3 DEF Within, Fits
  <2>7. /\ sent \subseteq sent' /\ sent' \subseteq sent \cup {n} /\ n \notin sent'
        /\ faults' \in {faults, faults + 1}
    BY <1>0a, <2>1
  <2> QED BY <1>0, <2>1, <2>3, <2>4, <2>5, <2>6, <2>7, OneRequest
<1> QED
  BY <1>1, <1>2, <1>3, <1>4, <1>5, <1>6, <1>7, <1>8 DEF Propose

\* Time passes, old counts are swept out, and rows are told how it went on.
LEMMA TablesAge ==
  ASSUME SubmissionsInv, SubmissionsTyped', UNCHANGED <<requests, page, lost, sent>>,
         clock' >= clock, faults' >= faults,
         \A n \in N : /\ proposals'[n].born = proposals[n].born
                      /\ proposals'[n].status # None <=> proposals[n].status # None
                      /\ \A w \in counted[n] :
                           w \in counted'[n] \/ requests[n].stamp + Lengths[w] <= clock'
  PROVE  SubmissionsInv'
<1>1. SubmissionsTyped /\ N' = N BY DEF SubmissionsInv, N
<1>2. clock \in Nat /\ faults \in Nat /\ clock' \in Nat /\ faults' \in Nat
  BY <1>1 DEF SubmissionsTyped
<1>3. Watched' /\ Attended' BY <1>1 DEF SubmissionsInv, Watched, Attended, Excused
<1>4. ASSUME NEW n \in N' PROVE InOrder(n)'
  <2> DEFINE r == requests[n]
             p == proposals[n]
             k == counted[n]
             q == proposals'[n]
             j == counted'[n]
  <2>1. n \in N /\ InOrder(n) /\ Orderly(r, p, k) BY <1>1 DEF SubmissionsInv, InOrder
  <2>2. /\ q.born = p.born /\ (q.status # None <=> p.status # None)
        /\ r.stamp \in Nat /\ p.born \in Nat
    BY <1>1, <2>1, Finite DEF Requests, Rows
  <2>3. ASSUME NEW w \in L, Seen(r, p, k, w) PROVE Seen(requests[n], proposals[n], counted[n], w)'
    <3>1. Lengths[w] \in Nat BY Sizes
    <3>2. CASE p.born + Lengths[w] <= clock
      <4>1. q.born + Lengths[w] <= clock' BY <1>2, <2>2, <3>1, <3>2
      <4> QED BY <4>1 DEF Seen
    <3>3. CASE w \in k /\ p.born <= r.stamp
      <4>1. w \in j \/ r.stamp + Lengths[w] <= clock' BY <2>1, <3>3
      <4>2. CASE w \in j BY <2>2, <3>3, <4>2 DEF Seen
      <4>3. CASE r.stamp + Lengths[w] <= clock'
        <5>1. q.born + Lengths[w] <= clock' BY <1>2, <2>2, <3>1, <3>3, <4>3
        <5> QED BY <5>1 DEF Seen
      <4> QED BY <4>1, <4>2, <4>3
    <3> QED BY <2>3, <3>2, <3>3 DEF Seen
  <2>4. Orderly(requests[n], proposals[n], counted[n])'
    <3>1. p.status # None => q.born <= clock' BY <1>2, <2>1, <2>2 DEF Orderly
    <3>2. p.status # None /\ r.reply # "failed" =>
            \A w \in L : r.at # "count" \/ w < r.window =>
              Seen(requests[n], proposals[n], counted[n], w)'
      BY <2>1, <2>3 DEF Orderly
    <3>3. L' = L BY DEF L
    <3> HIDE DEF L
    <3> QED BY <2>1, <2>2, <3>1, <3>2, <3>3 DEF Orderly
  <2> QED BY <1>1, <2>1, <2>4 DEF InOrder, Excused
<1>5. FaultsPaid'
  <2>1. (lost \cup Broken)' = lost \cup Broken BY <1>1 DEF Broken
  <2>2. lost \cup Broken \in SUBSET N BY <1>1 DEF SubmissionsTyped, Broken
  <2>3. Cardinality(lost \cup Broken) \in Nat /\ Cardinality(lost \cup Broken) <= faults
    BY <1>1, <2>2, Finite DEF SubmissionsInv, FaultsPaid
  <2>4. PICK a, b : a = Cardinality(lost \cup Broken) /\ b = Cardinality(lost \cup Broken)'
    OBVIOUS
  <2>5. a = b /\ a \in Nat /\ a <= faults BY <2>1, <2>3, <2>4
  <2>6. b <= faults' BY <1>2, <2>5
  <2> QED BY <2>4, <2>6 DEF FaultsPaid
<1>6. ASSUME NEW w \in L
      PROVE  Cardinality(Inside(w))' <= Limits[w] + Cardinality(Pages) - 1 + faults'
  <2>1. Inside(w)' \subseteq Inside(w)
    <3>1. ASSUME NEW n \in Inside(w)' PROVE n \in Inside(w)
      <4>1. n \in N /\ Within(requests[n], proposals[n], w)' BY <1>1 DEF Inside
      <4>2. proposals'[n].born = proposals[n].born /\ proposals[n].born \in Nat
        BY <1>1, <4>1, Finite DEF Rows
      <4>3. proposals'[n].born + Lengths[w] > clock' => proposals[n].born + Lengths[w] > clock
        BY <1>2, <4>2, Sizes
      <4> QED BY <4>1, <4>3 DEF Within, Inside
    <3> QED BY <3>1
  <2>2. Inside(w) \in SUBSET N BY DEF Inside
  <2>3. IsFiniteSet(Inside(w)) /\ Cardinality(Inside(w)) \in Nat BY <1>1, <2>2, Finite
  <2>4. PICK S : S = Inside(w)' OBVIOUS
  <2>5. Cardinality(S) <= Cardinality(Inside(w)) /\ Cardinality(S) \in Nat
    BY <2>1, <2>3, <2>4, FS_Subset, FS_CardinalityType
  <2>6. Cardinality(Inside(w)) <= Limits[w] + Cardinality(Pages) - 1 + faults
    BY DEF SubmissionsInv, Bounded
  <2> QED BY <1>2, <2>3, <2>4, <2>5, <2>6, Sizes
<1>7. Bounded' BY <1>6 DEF Bounded
<1> QED BY <1>3, <1>4, <1>5, <1>7 DEF SubmissionsInv

LEMMA TickAges == ASSUME SubmissionsInv, Tick PROVE SubmissionsInv'
<1>1. SubmissionsTyped BY DEF SubmissionsInv
<1>2. /\ UNCHANGED <<faults, similar, page, requests, proposals, counted, sent, lost>>
      /\ clock' = clock + 1 /\ clock \in Nat /\ faults \in Nat
  BY <1>1 DEF Tick, intake, SubmissionsTyped
<1>3. SubmissionsTyped' BY <1>1, <1>2 DEF SubmissionsTyped, N
<1>4. clock' >= clock /\ faults' >= faults BY <1>2
<1> QED BY <1>2, <1>3, <1>4, TablesAge

LEMMA SimilarAges == ASSUME SubmissionsInv, SimilarChanges PROVE SubmissionsInv'
<1>1. SubmissionsTyped BY DEF SubmissionsInv
<1>2. /\ UNCHANGED <<clock, faults, page, requests, proposals, counted, sent, lost>>
      /\ similar' \in BOOLEAN /\ clock \in Nat /\ faults \in Nat
  BY <1>1 DEF SimilarChanges, Same, Rest, SubmissionsTyped
<1>3. SubmissionsTyped' BY <1>1, <1>2 DEF SubmissionsTyped, N
<1>4. clock' >= clock /\ faults' >= faults BY <1>2
<1> QED BY <1>2, <1>3, <1>4, TablesAge

LEMMA StutterAges ==
  ASSUME SubmissionsInv,
         UNCHANGED <<clock, faults, similar, page, requests, proposals, counted, sent, lost>>
  PROVE  SubmissionsInv'
<1>1. SubmissionsTyped BY DEF SubmissionsInv
<1>2. clock \in Nat /\ faults \in Nat BY <1>1 DEF SubmissionsTyped
<1>3. SubmissionsTyped' BY <1>1 DEF SubmissionsTyped, N
<1>4. clock' >= clock /\ faults' >= faults BY <1>2
<1> QED BY <1>3, <1>4, TablesAge

LEMMA CleanupAges == ASSUME SubmissionsInv, CleanupRateLimits PROVE SubmissionsInv'
<1>1. SubmissionsTyped /\ 1 .. Len(counted) = N BY DEF SubmissionsInv, SubmissionsTyped, N
<1>2. /\ UNCHANGED <<clock, faults, similar, page, requests, proposals, sent, lost>>
      /\ counted' = [n \in N |-> IF Expired(n) THEN {} ELSE counted[n]]
      /\ clock \in Nat /\ faults \in Nat /\ Len(requests) \in Nat
  BY <1>1, Finite DEF CleanupRateLimits, Same, Rest, SubmissionsTyped
<1>3. counted' \in Seq(SUBSET L) /\ Len(counted') = Len(requests)
  <2>1. counted' \in [1 .. Len(requests) -> SUBSET L] BY <1>1, <1>2, Finite DEF N
  <2>2. counted' \in Seq(SUBSET L)
    <3>1. PICK m \in Nat, f \in {counted'} : m = Len(requests) BY <1>2
    <3>2. f = counted' /\ f \in [1 .. m -> SUBSET L] BY <2>1, <3>1
    <3>3. f \in Seq(SUBSET L) BY <3>2, SeqDef
    <3> QED BY <3>2, <3>3
  <2>3. DOMAIN counted' = 1 .. Len(requests) BY <2>1
  <2> QED BY <1>2, <2>2, <2>3, LenProperties
<1>4. SubmissionsTyped' BY <1>1, <1>2, <1>3 DEF SubmissionsTyped, N
<1>5. ASSUME NEW n \in N, NEW w \in counted[n]
      PROVE  w \in counted'[n] \/ requests[n].stamp + Lengths[w] <= clock'
  <2>1. CASE Expired(n)
    <3>1. w \in L /\ L = 1 .. Len(Lengths) BY <1>1, Finite, Windows DEF L
    <3>2. requests[n].stamp + Lengths[w] < clock BY <2>1, <3>1 DEF Expired
    <3>3. requests[n].stamp \in Nat /\ Lengths[w] \in Nat
      BY <1>1, <3>1, Finite, Sizes DEF Requests
    <3> QED BY <1>2, <3>2, <3>3
  <2>2. CASE ~Expired(n) BY <1>2, <2>2
  <2> QED BY <2>1, <2>2
<1>6. clock' >= clock /\ faults' >= faults BY <1>2
<1> QED BY <1>2, <1>4, <1>5, <1>6, TablesAge

(***************************************************************************)
(* The steps of a page.                                                    *)
(***************************************************************************)

\* A page that waited has its answer, or gives up on it for a fault.
Answered(p) == lost' = lost /\ faults' = faults /\ requests[page[p].of].reply # None
GaveUp(p) == lost' = lost \cup {page[p].of} /\ faults' = faults + 1

LEMMA PageTurns ==
  ASSUME SubmissionsInv, NEW p \in Pages, page[p].at = "waiting",
         UNCHANGED <<clock, similar, requests, proposals, counted, sent>>,
         NEW x \in [at : {"form", "again"}, of : Nat], page' = [page EXCEPT ![p] = x],
         x.at = "again" => x.of = page[p].of /\ requests[x.of].first = x.of,
         x.at = "again" => requests[x.of].reply \in {"limited", "failed"} \/ GaveUp(p),
         Answered(p) \/ GaveUp(p)
  PROVE  SubmissionsInv'
<1>1. SubmissionsTyped /\ N' = N BY DEF SubmissionsInv, N
<1>2. PICK m : m = page[p].of OBVIOUS
<1>3. m \in N /\ clock \in Nat /\ faults \in Nat /\ faults' \in Nat /\ faults' >= faults
      /\ page \in [Pages -> [at : {"form", "waiting", "again"}, of : Nat]]
  BY <1>1, <1>2 DEF SubmissionsInv, Watched, SubmissionsTyped, Answered, GaveUp
<1>4. lost' \in {lost, lost \cup {m}} BY <1>2 DEF Answered, GaveUp
<1>5. SubmissionsTyped'
  <2>1. page' \in [Pages -> [at : {"form", "waiting", "again"}, of : Nat]] BY <1>3
  <2> QED BY <1>1, <1>3, <1>4, <2>1 DEF SubmissionsTyped
<1>6. \A q \in N : Excused(q) => Excused(q)' BY <1>4 DEF Excused
<1>7. Watched'
  <2>1. ASSUME NEW q \in Pages
        PROVE  /\ page'[q].at # "form" => page'[q].of \in N
               /\ page'[q].at = "again" =>
                    requests'[page'[q].of].first = page'[q].of /\ Excused(page[q].of)'
    <3>1. CASE q = p
      <4>1. page'[q] = x BY <1>3, <3>1
      <4>2. x.at = "again" => Excused(x.of)' BY <1>2 DEF Excused, GaveUp
      <4>3. PICK o : o = x.of OBVIOUS
      <4>4. x.at = "again" => Excused(o)' BY <1>2 , <4>3 DEF Excused, GaveUp
      <4>5. x.at = "again" => o \in N /\ requests[o].first = o BY <1>2, <1>3, <4>3
      <4>6. page'[q].of = o BY <4>1, <4>3
      <4>7. Excused(page[q].of)' <=> Excused(o)' BY <4>6 DEF Excused
      <4> QED BY <4>1, <4>4, <4>5, <4>6, <4>7
    <3>2. CASE q # p
      <4>1. page'[q] = page[q] BY <1>3, <3>2
      <4>2. PICK o : o = page[q].of OBVIOUS
      <4>3. /\ page[q].at # "form" => o \in N
            /\ page[q].at = "again" => requests[o].first = o /\ Excused(o)
        BY <4>2 DEF SubmissionsInv, Watched
      <4>4. page[q].at = "again" => Excused(o)' BY <1>6, <4>3
      <4>5. Excused(page[q].of)' <=> Excused(o)' BY <4>1, <4>2 DEF Excused
      <4> QED BY <4>1, <4>2, <4>3, <4>4, <4>5
    <3> QED BY <3>1, <3>2
  <2> QED BY <1>1, <2>1 DEF Watched
<1>8. Attended'
  <2>1. ASSUME NEW n \in N, requests[n].at # "done"
        PROVE  n \in lost' \/ \E q \in Pages : page'[q].at = "waiting" /\ page'[q].of = n
    <3>1. n \in lost \/ \E q \in Pages : page[q].at = "waiting" /\ page[q].of = n
      BY <2>1 DEF SubmissionsInv, Attended
    <3>2. CASE n \in lost BY <1>4, <3>2
    <3>3. ASSUME NEW q \in Pages, page[q].at = "waiting", page[q].of = n
          PROVE  n \in lost' \/ \E o \in Pages : page'[o].at = "waiting" /\ page'[o].of = n
      <4>1. CASE q = p
        <5>1. requests[n].reply = None BY <2>1 DEF SubmissionsInv, InOrder, Orderly
        <5>2. GaveUp(p) BY <3>3, <4>1, <5>1 DEF Answered
        <5> QED BY <3>3, <4>1, <5>2 DEF GaveUp
      <4>2. CASE q # p
        <5>1. page'[q] = page[q] BY <1>3, <4>2
        <5> QED BY <3>3, <5>1
      <4> QED BY <4>1, <4>2
    <3> QED BY <3>1, <3>2, <3>3
  <2> QED BY <1>1, <2>1 DEF Attended
<1>9. ASSUME NEW n \in N' PROVE InOrder(n)'
  <2>1. n \in N /\ InOrder(n) BY <1>1 DEF SubmissionsInv
  <2>2. requests[n].first # n => requests[n].first \in N /\ Excused(requests[n].first)'
    <3>1. PICK o : o = requests[n].first OBVIOUS
    <3>2. o # n => o \in N /\ Excused(o)' BY <1>6, <2>1, <3>1 DEF InOrder
    <3>3. Excused(requests[n].first)' <=> Excused(o)' BY <3>1 DEF Excused
    <3> QED BY <3>1, <3>2, <3>3
  <2>3. Orderly(requests[n], proposals[n], counted[n])' BY <2>1 DEF InOrder, Orderly, Seen
  <2> QED BY <1>1, <2>1, <2>2, <2>3 DEF InOrder
<1>10. FaultsPaid'
  <2>1. Broken' = Broken BY <1>1 DEF Broken
  <2>2. lost \cup Broken \in SUBSET N BY <1>1 DEF SubmissionsTyped, Broken
  <2>3. IsFiniteSet(lost \cup Broken) /\ Cardinality(lost \cup Broken) \in Nat
        /\ Cardinality(lost \cup Broken) <= faults
    BY <1>1, <2>2, Finite DEF SubmissionsInv, FaultsPaid
  <2>4. PICK S, a, b : /\ S = lost \cup Broken /\ a = Cardinality(S)
                       /\ b = Cardinality(lost \cup Broken)'
    OBVIOUS
  <2>5. a \in Nat /\ a <= faults /\ IsFiniteSet(S) BY <2>3, <2>4
  <2>6. CASE Answered(p)
    <3>1. lost' \cup Broken' = S BY <2>1, <2>4, <2>6 DEF Answered
    <3>2. b <= faults' BY <1>3, <2>4, <2>5, <2>6, <3>1 DEF Answered
    <3> QED BY <2>4, <3>2 DEF FaultsPaid
  <2>7. CASE GaveUp(p)
    <3>1. lost' \cup Broken' = S \cup {m} BY <1>2, <2>1, <2>4, <2>7 DEF GaveUp
    <3>2. Cardinality(S \cup {m}) \in {a, a + 1} BY <2>4, <2>5, FS_AddElement
    <3>3. b \in {a, a + 1} BY <2>4, <3>1, <3>2
    <3>4. b <= faults' BY <1>3, <2>5, <2>7, <3>3 DEF GaveUp
    <3> QED BY <2>4, <3>4 DEF FaultsPaid
  <2> QED BY <2>6, <2>7
<1>11. ASSUME NEW w \in L
       PROVE  Cardinality(Inside(w))' <= Limits[w] + Cardinality(Pages) - 1 + faults'
  <2>1. Inside(w)' = Inside(w) BY <1>1 DEF Inside, Within
  <2>2. Inside(w) \in SUBSET N BY DEF Inside
  <2>3. Cardinality(Inside(w)) \in Nat BY <1>1, <2>2, Finite
  <2>4. Cardinality(Inside(w)) <= Limits[w] + Cardinality(Pages) - 1 + faults
    BY DEF SubmissionsInv, Bounded
  <2>5. PICK a, b : a = Cardinality(Inside(w)) /\ b = Cardinality(Inside(w))' OBVIOUS
  <2>6. a = b BY <2>1, <2>5
  <2>7. a <= Limits[w] + Cardinality(Pages) - 1 + faults' BY <1>3, <2>3, <2>4, <2>5, Sizes
  <2> QED BY <2>5, <2>6, <2>7
<1>12. Bounded' BY <1>11 DEF Bounded
<1> QED BY <1>5, <1>7, <1>8, <1>9, <1>10, <1>12 DEF SubmissionsInv

LEMMA ReceiveTurns ==
  ASSUME SubmissionsInv, NEW p \in Pages, Receive(p) \/ LoseReply(p) PROVE SubmissionsInv'
<1> DEFINE m == page[p].of
           form == [at |-> "form", of |-> 0]
<1>1. page[p].at = "waiting" /\ UNCHANGED <<clock, similar, requests, proposals, counted, sent>>
  BY DEF Receive, LoseReply, Rest
<1>2. page[p] \in [at : {"form", "waiting", "again"}, of : Nat]
  BY DEF SubmissionsInv, SubmissionsTyped
<1>3. /\ Failed(p) \in [at : {"form", "again"}, of : Nat]
      /\ Failed(p).at = "again" => Failed(p).of = m /\ requests[m].first = m
  BY <1>2 DEF Failed
<1>4. CASE Receive(p)
  <2>1. PICK x : x = IF requests[m].reply \in {"limited", "failed"} THEN Failed(p) ELSE form
    OBVIOUS
  <2>2. page' = [page EXCEPT ![p] = x] BY <1>4, <2>1 DEF Receive
  <2>3. x \in [at : {"form", "again"}, of : Nat] BY <1>3, <2>1
  <2>4. x.at = "again" => /\ x.of = page[p].of /\ requests[x.of].first = x.of
                          /\ requests[x.of].reply \in {"limited", "failed"}
    BY <1>3, <2>1
  <2>5. Answered(p) BY <1>4 DEF Receive, Answered
  <2> QED BY <1>1, <2>2, <2>3, <2>4, <2>5, PageTurns
<1>5. CASE LoseReply(p)
  <2>1. PICK x : x = Failed(p) OBVIOUS
  <2>2. page' = [page EXCEPT ![p] = x] BY <1>5, <2>1 DEF LoseReply
  <2>3. x \in [at : {"form", "again"}, of : Nat] BY <1>3, <2>1
  <2>4. x.at = "again" => x.of = page[p].of /\ requests[x.of].first = x.of BY <1>3, <2>1
  <2>5. GaveUp(p) BY <1>5 DEF LoseReply, Fault, GaveUp
  <2> QED BY <1>1, <2>2, <2>3, <2>4, <2>5, PageTurns
<1> QED BY <1>4, <1>5

\* A new request: nothing of it is in, and nothing is told of it.
LEMMA PostBegins ==
  ASSUME SubmissionsInv, NEW p \in Pages, NEW first \in {0} \cup N, Post(p, first),
         page[p].at # "waiting", first # 0 => Excused(first)
  PROVE  SubmissionsInv'
<1>1. SubmissionsTyped BY DEF SubmissionsInv
<1>2. PICK n : n = Len(requests) + 1 OBVIOUS
<1>3. PICK r, row :
        /\ r = [at |-> "check", window |-> 1, matched |-> FALSE, stamp |-> 0, reply |-> None,
                first |-> IF first = 0 THEN n ELSE first]
        /\ row = [status |-> None, born |-> 0, draft |-> 0]
  OBVIOUS
<1>4. Len(requests) \in Nat /\ n \in Nat BY <1>1, <1>2, Finite
<1>5. r \in Requests /\ row \in Rows
  <2>1. first \in Nat BY <1>4 DEF N
  <2> QED BY <1>3, <1>4, <2>1, Sizes DEF Requests, Rows
<1>6. /\ requests' = Append(requests, r) /\ proposals' = Append(proposals, row)
      /\ counted' = Append(counted, {}) /\ page' = [page EXCEPT ![p] = [at |-> "waiting", of |-> n]]
      /\ UNCHANGED <<clock, faults, similar, sent, lost>>
  BY <1>2, <1>3 DEF Post, Rest
<1>7. /\ requests' \in Seq(Requests) /\ Len(requests') = n /\ requests'[n] = r
      /\ \A q \in N : requests'[q] = requests[q]
  BY <1>1, <1>2, <1>5, <1>6, AppendProperties DEF SubmissionsTyped, N
<1>8. /\ proposals' \in Seq(Rows) /\ Len(proposals') = n /\ proposals'[n] = row
      /\ \A q \in N : proposals'[q] = proposals[q]
  BY <1>1, <1>2, <1>5, <1>6, AppendProperties DEF SubmissionsTyped, N
<1>9. /\ counted' \in Seq(SUBSET L) /\ Len(counted') = n /\ counted'[n] = {}
      /\ \A q \in N : counted'[q] = counted[q]
  BY <1>1, <1>2, <1>6, AppendProperties DEF SubmissionsTyped, N
<1>10. N' = N \cup {n} /\ n \notin N BY <1>2, <1>4, <1>7 DEF N
<1>11. page \in [Pages -> [at : {"form", "waiting", "again"}, of : Nat]]
  BY <1>1 DEF SubmissionsTyped
<1>12. SubmissionsTyped'
  <2>1. page' \in [Pages -> [at : {"form", "waiting", "again"}, of : Nat]]
    BY <1>4, <1>6, <1>11
  <2> QED BY <1>1, <1>6, <1>7, <1>8, <1>9, <1>10, <2>1 DEF SubmissionsTyped
<1>13. \A q \in N : Excused(q) => Excused(q)' BY <1>6, <1>7 DEF Excused
<1>14. Watched'
  <2>1. ASSUME NEW q \in Pages
        PROVE  /\ page'[q].at # "form" => page'[q].of \in N'
               /\ page'[q].at = "again" =>
                    requests'[page'[q].of].first = page'[q].of /\ Excused(page[q].of)'
    <3>1. CASE q = p
      <4>1. page'[q] = [at |-> "waiting", of |-> n] BY <1>6, <1>11, <3>1
      <4> QED BY <1>10, <4>1
    <3>2. CASE q # p
      <4>1. page'[q] = page[q] BY <1>6, <1>11, <3>2
      <4>2. PICK o : o = page[q].of OBVIOUS
      <4>3. /\ page[q].at # "form" => o \in N
            /\ page[q].at = "again" => requests[o].first = o /\ Excused(o)
        BY <4>2 DEF SubmissionsInv, Watched
      <4>4. page[q].at = "again" => Excused(o)' BY <1>13, <4>3
      <4>5. Excused(page[q].of)' <=> Excused(o)' BY <4>1, <4>2 DEF Excused
      <4> QED BY <1>7, <1>10, <4>1, <4>2, <4>3, <4>4, <4>5
    <3> QED BY <3>1, <3>2
  <2> QED BY <2>1 DEF Watched
<1>15. Attended'
  <2>1. ASSUME NEW q \in N', requests'[q].at # "done"
        PROVE  q \in lost' \/ \E o \in Pages : page'[o].at = "waiting" /\ page'[o].of = q
    <3>1. CASE q = n
      <4>1. page'[p] = [at |-> "waiting", of |-> n] BY <1>6, <1>11
      <4> QED BY <3>1, <4>1
    <3>2. CASE q # n
      <4>1. q \in N /\ requests[q].at # "done" BY <1>7, <1>10, <2>1, <3>2
      <4>2. q \in lost \/ \E o \in Pages : page[o].at = "waiting" /\ page[o].of = q
        BY <4>1 DEF SubmissionsInv, Attended
      <4>3. \A o \in Pages : page[o].at = "waiting" => page'[o] = page[o]
        BY <1>6, <1>11
      <4> QED BY <1>6, <4>2, <4>3
    <3> QED BY <3>1, <3>2
  <2> QED BY <2>1 DEF Attended
<1>16. ASSUME NEW q \in N' PROVE InOrder(q)'
  <2>1. CASE q = n
    <3>1. Orderly(r, row, {})' BY <1>3 DEF Orderly, None
    <3>2. Orderly(requests[q], proposals[q], counted[q])'
      BY <1>7, <1>8, <1>9, <2>1, <3>1 DEF Orderly, Seen
    <3>3. n \notin sent' BY <1>1, <1>6, <1>10 DEF SubmissionsTyped
    <3>4. r.first # n => first \in N /\ r.first = first /\ Excused(first)' BY <1>3, <1>13
    <3>5. requests'[q].first # q => requests'[q].first \in N' /\ Excused(requests[q].first)'
      <4>1. PICK o : o = first OBVIOUS
      <4>2. requests'[q].first # q => Excused(o)' /\ requests'[q].first = o /\ o \in N'
        BY <1>7, <1>10, <2>1, <3>4, <4>1
      <4>3. requests'[q].first = o => (Excused(requests[q].first)' <=> Excused(o)')
        BY DEF Excused
      <4> QED BY <4>2, <4>3
    <3> QED BY <2>1, <3>2, <3>3, <3>5 DEF InOrder
  <2>2. CASE q # n
    <3>1. q \in N /\ InOrder(q) BY <1>10, <2>2 DEF SubmissionsInv
    <3>2. requests'[q] = requests[q] /\ proposals'[q] = proposals[q] /\ counted'[q] = counted[q]
      BY <1>7, <1>8, <1>9, <3>1
    <3>3. requests'[q].first # q => requests'[q].first \in N' /\ Excused(requests[q].first)'
      <4>1. PICK o : o = requests[q].first OBVIOUS
      <4>2. o # q => o \in N /\ Excused(o)' BY <1>13, <3>1, <4>1 DEF InOrder
      <4>3. Excused(requests[q].first)' <=> Excused(o)' BY <3>2, <4>1 DEF Excused
      <4> QED BY <1>10, <3>2, <4>1, <4>2, <4>3
    <3>4. Orderly(requests[q], proposals[q], counted[q])'
      BY <1>6, <3>1, <3>2 DEF InOrder, Orderly, Seen
    <3>5. q \in sent' => requests'[q].reply = "processing" BY <1>6, <3>1, <3>2 DEF InOrder
    <3> QED BY <3>3, <3>4, <3>5 DEF InOrder
  <2> QED BY <2>1, <2>2
<1>17. FaultsPaid'
  <2>1. Broken' = Broken BY <1>3, <1>7, <1>10 DEF Broken, None
  <2> QED BY <1>6, <2>1 DEF SubmissionsInv, FaultsPaid
<1>18. ASSUME NEW w \in L PROVE Inside(w)' = Inside(w)
  <2>1. ~Within(r, row, w)' BY <1>3 DEF Within, L
  <2>2. \A q \in N : Within(requests[q], proposals[q], w)' <=> Within(requests[q], proposals[q], w)
    BY <1>6, <1>7, <1>8 DEF Within
  <2>3. n \notin Inside(w)' BY <1>7, <1>8, <2>1 DEF Inside, Within
  <2> QED BY <1>10, <2>2, <2>3 DEF Inside
<1>19. Bounded' BY <1>6, <1>18 DEF SubmissionsInv, Bounded
<1> QED BY <1>12, <1>14, <1>15, <1>16, <1>17, <1>19 DEF SubmissionsInv

LEMMA SubmitBegins ==
  ASSUME SubmissionsInv, NEW p \in Pages, Submit(p) \/ Retry(p) PROVE SubmissionsInv'
<1>1. CASE Submit(p) BY <1>1, PostBegins DEF Submit
<1>2. CASE Retry(p)
  <2>1. PICK first : first = page[p].of OBVIOUS
  <2>2. first \in N /\ Excused(first) /\ page[p].at = "again" /\ Post(p, first)
    BY <1>2, <2>1 DEF Retry, SubmissionsInv, Watched
  <2> QED BY <2>2, PostBegins
<1> QED BY <1>1, <1>2

(***************************************************************************)
(* The steps of the worker routes.                                         *)
(***************************************************************************)

\* The market a call is on keeps its row, or is known to be shared.
Undisturbed(call) ==
  LET m == call.market IN
  \/ m = 0
  \/ markets'[m] = markets[m] /\ (m \in known' <=> m \in known)
  \/ m \in overlapped /\ markets'[m].source = markets[m].source

LEMMA StaysPlaced ==
  ASSUME ReviewsTyped, NEW call \in CallRecords, Placed(call), Undisturbed(call),
         sent \subseteq sent', known \subseteq known', overlapped \subseteq overlapped'
  PROVE  Placed(call)'
<1>1. PICK m : m = call.market OBVIOUS
<1>2. overlapped \subseteq known /\ (m = 0 => m \notin known)
  BY <1>1, Numbers DEF ReviewsTyped
<1>3. CASE m = 0
  <2>1. call.kind \notin {"validation", "published"} BY <1>1, <1>2, <1>3 DEF Placed
  <2>2. call.kind = "draft" => call.at = "insert" BY <1>1, <1>3, Numbers DEF Placed
  <2> QED BY <1>1, <1>3, <2>1, <2>2 DEF Placed
<1>4. CASE markets'[m] = markets[m] /\ (m \in known' <=> m \in known)
  BY <1>1, <1>4 DEF Placed
<1>5. CASE m \in overlapped /\ markets'[m].source = markets[m].source
  <2>1. m \in known /\ m # 0 BY <1>2, <1>5
  <2>2. call.kind # "draft" BY <1>1, <2>1 DEF Placed
  <2> QED BY <1>1, <1>5, <2>1, <2>2 DEF Placed
<1> QED BY <1>1, <1>3, <1>4, <1>5 DEF Undisturbed

LEMMA OneCall ==
  ASSUME ReviewsInv, NEW c \in Calls, NEW x \in CallRecords, calls' = [calls EXCEPT ![c] = x],
         Placed(x)',
         sent \subseteq sent', known \subseteq known', overlapped \subseteq overlapped',
         \A d \in Calls \ {c} : Undisturbed(calls[d]),
         \A d \in Calls \ {c} : calls[d].market = x.market /\ x.market # 0
                                  => x.market \in overlapped'
  PROVE  /\ calls' \in [Calls -> CallRecords] /\ calls'[c] = x
         /\ \A d \in Calls \ {c} : calls'[d] = calls[d]
         /\ (\A d \in Calls : Placed(calls[d]))' /\ Alone'
<1>1. ReviewsTyped /\ Alone BY DEF ReviewsInv
<1>2. /\ calls' \in [Calls -> CallRecords] /\ calls'[c] = x
      /\ \A d \in Calls \ {c} : calls'[d] = calls[d]
  BY <1>1 DEF ReviewsTyped
<1>3. ASSUME NEW d \in Calls PROVE Placed(calls[d])'
  <2>1. PICK y : y = calls'[d] OBVIOUS
  <2>2. CASE d = c BY <1>2, <2>2 DEF Placed
  <2>3. CASE d # c
    <3>1. y = calls[d] /\ y \in CallRecords /\ Placed(y) /\ Undisturbed(y)
      BY <1>1, <1>2, <2>1, <2>3 DEF ReviewsTyped, ReviewsInv
    <3>2. Placed(y)' BY <1>1, <3>1, StaysPlaced
    <3> QED BY <2>1, <3>2 DEF Placed
  <2> QED BY <2>2, <2>3
<1>4. Alone' BY <1>1, <1>2 DEF Alone
<1> QED BY <1>2, <1>3, <1>4

\* What the routes for proposals do is nothing to these.
LEMMA IntakeApart ==
  ASSUME ReviewsInv, faults \in Nat, faults' \in Nat, faults' >= faults,
         UNCHANGED review, sent \subseteq sent',
         \A n \in sent : proposals'[n] = proposals[n]
  PROVE  ReviewsInv'
<1>1. ReviewsTyped' BY DEF ReviewsInv, ReviewsTyped, review
<1>2. Sourced' BY DEF ReviewsInv, Sourced, review
<1>3. ASSUME NEW c \in Calls PROVE Placed(calls[c])'
  BY DEF ReviewsInv, Placed, review
<1>4. Alone' /\ PublishedStays' BY DEF ReviewsInv, Alone, PublishedStays, review
<1>5. ASSUME faults' = 0 PROVE Linking' /\ Agreeing'
  <2>1. faults = 0 BY <1>5
  <2>2. \A c \in Calls : calls[c].at = "link" => calls[c].proposal \in sent
    <3>1. ASSUME NEW c \in Calls, calls[c].at = "link" PROVE calls[c].proposal \in sent
      <4>1. PICK call : call = calls[c] OBVIOUS
      <4>2. call \in CallRecords /\ Placed(call) /\ call.at = "link"
        BY <3>1, <4>1 DEF ReviewsInv, ReviewsTyped
      <4> QED BY <4>1, <4>2 DEF CallRecords, Placed, Idle
    <3> QED BY <3>1
  <2>3. Linking' BY <2>1, <2>2 DEF ReviewsInv, Linking, Sources, review
  <2>4. \A m \in known : markets[m].source \in sent BY DEF ReviewsInv, ReviewsTyped, Sourced
  <2>5. Agreeing' BY <2>1, <2>4 DEF ReviewsInv, Agreeing, Sources, Unsettled, review
  <2> QED BY <2>3, <2>5
<1> QED BY <1>1, <1>2, <1>3, <1>4, <1>5 DEF ReviewsInv

LEMMA CallFacts ==
  ASSUME ReviewsInv, NEW c \in Calls
  PROVE  /\ calls[c] \in CallRecords /\ Placed(calls[c]) /\ ReviewsTyped
         /\ calls[c].at = "idle" <=> calls[c] = Idle
         /\ calls[c].at = "insert" => calls[c].kind = "draft"
         /\ calls[c].at \in {"read", "update", "queue"} => calls[c].kind # "draft"
         /\ 0 \notin known /\ overlapped \subseteq known /\ known \subseteq Markets
<1>1. calls[c] \in CallRecords /\ Placed(calls[c]) /\ ReviewsTyped
  BY DEF ReviewsInv, ReviewsTyped
<1>2. 0 \notin known /\ overlapped \subseteq known /\ known \subseteq Markets
  BY <1>1, Numbers DEF ReviewsTyped
<1> QED BY <1>1, <1>2 DEF CallRecords, Placed, Idle, None

LEMMA CallBegins ==
  ASSUME ReviewsInv, NEW c \in Calls, PostDraft(c) \/ PostValidation(c) \/ PostPublished(c),
         sent \subseteq Nat
  PROVE  ReviewsInv'
<1>1. PICK kind, at, m, n, verdict :
        /\ Call(c, kind, at, m, n, verdict)
        /\ \/ kind = "draft" /\ at = "insert" /\ m = 0 /\ n \in sent /\ verdict = None
           \/ kind = "validation" /\ at = "read" /\ m \in known /\ n = 0 /\ verdict \in Verdicts
           \/ kind = "published" /\ at = "read" /\ m \in known /\ n = 0 /\ verdict = None
  BY DEF PostDraft, PostValidation, PostPublished
<1>2. PICK x : x = [at |-> at, kind |-> kind, market |-> m, proposal |-> n, verdict |-> verdict]
  OBVIOUS
<1>3. /\ ReviewsTyped /\ 0 \notin known /\ overlapped \subseteq known /\ known \subseteq Markets
      /\ calls[c] = Idle
  BY <1>1, CallFacts DEF Call, On
<1>4. /\ calls' = [calls EXCEPT ![c] = x] /\ UNCHANGED <<sent, markets, known, proposals, faults>>
      /\ overlapped' = IF m # 0 /\ Busy(m) THEN overlapped \cup {m} ELSE overlapped
  BY <1>1, <1>2 DEF Call, Others
<1>5. overlapped \subseteq overlapped' /\ overlapped' \subseteq known BY <1>1, <1>3, <1>4
<1>6. x \in CallRecords /\ x.at \in {"insert", "read"} /\ x.market = m
  <2>1. n \in sent \/ n = 0 BY <1>1
  <2>2. 0 \in Nat OBVIOUS
  <2>3. n \in Nat BY <2>1, <2>2, Zenon
  <2> QED BY <1>1, <1>2, <1>3, <2>3 DEF CallRecords
<1>7. Placed(x)' BY <1>1, <1>2, <1>4 DEF Placed, None
<1>8. \A d \in Calls \ {c} : Undisturbed(calls[d]) BY <1>4 DEF Undisturbed
<1>9. \A d \in Calls \ {c} : calls[d].market = x.market /\ x.market # 0
                               => x.market \in overlapped'
  BY <1>4, <1>6 DEF Busy
<1>10. sent \subseteq sent' /\ known \subseteq known' BY <1>4
<1>11. /\ calls' \in [Calls -> CallRecords] /\ calls'[c] = x
       /\ \A d \in Calls \ {c} : calls'[d] = calls[d]
       /\ (\A d \in Calls : Placed(calls[d]))' /\ Alone'
  BY <1>4, <1>5, <1>6, <1>7, <1>8, <1>9, <1>10, OneCall
<1>12. ReviewsTyped' BY <1>3, <1>4, <1>5, <1>11 DEF ReviewsTyped
<1>13. Sourced' /\ PublishedStays'
  BY <1>4, <1>5 DEF ReviewsInv, Sourced, PublishedStays
<1>14. ASSUME faults' = 0 PROVE Linking' /\ Agreeing'
  <2>1. \A d \in Calls : calls'[d].at \in {"link", "proposal"} => calls'[d] = calls[d]
    BY <1>6, <1>11
  <2>2. \A d \in Calls : calls[d].at \in {"link", "proposal"} => calls'[d] = calls[d]
    BY <1>3, <1>11 DEF Idle
  <2>3. Linking' BY <1>4, <1>14, <2>1 DEF ReviewsInv, Linking, Sources
  <2>4. Agreeing' BY <1>4, <1>5, <1>14, <2>2 DEF ReviewsInv, Agreeing, Sources, Unsettled
  <2> QED BY <2>3, <2>4
<1> QED BY <1>11, <1>12, <1>13, <1>14 DEF ReviewsInv

LEMMA SmallestUnused ==
  ASSUME Unused # {}
  PROVE  (CHOOSE x \in Unused : \A y \in Unused : x <= y) \in Unused
<1>1. Unused \in SUBSET Nat BY Numbers DEF Unused
<1>2. \E x \in Unused : \A y \in Unused : <<y, x>> \notin OpToRel(<, Nat)
  BY <1>1, NatLessThanWellFounded, WFMin
<1>3. ASSUME NEW x \in Unused, NEW y \in Unused, <<y, x>> \notin OpToRel(<, Nat) PROVE x <= y
  <2>1. x \in Nat /\ y \in Nat BY <1>1
  <2>2. <<y, x>> \in Nat \X Nat /\ <<y, x>>[1] = y /\ <<y, x>>[2] = x BY <2>1
  <2>3. ~(y < x) BY <1>3, <2>2 DEF OpToRel
  <2> QED BY <2>1, <2>3
<1> QED BY <1>2, <1>3

LEMMA DraftInserted ==
  ASSUME ReviewsInv, NEW c \in Calls, InsertDraft(c) PROVE ReviewsInv'
<1>1. PICK m : m = CHOOSE x \in Unused : \A y \in Unused : x <= y OBVIOUS
<1>2. m \in Markets /\ m # 0 /\ markets[m].status = None
  <2>1. m \in Unused BY <1>1, SmallestUnused DEF InsertDraft
  <2> QED BY <2>1, Numbers DEF Unused
<1>3. /\ markets' = [markets EXCEPT ![m].status = "draft"]
      /\ calls' = [calls EXCEPT ![c].at = "proposal", ![c].market = m]
      /\ UNCHANGED <<sent, known, overlapped, proposals, faults>>
  BY <1>1 DEF InsertDraft, Others
<1>4. /\ ReviewsTyped /\ calls[c] \in CallRecords /\ Placed(calls[c]) /\ calls[c].kind = "draft"
      /\ calls[c].at = "insert" /\ overlapped \subseteq known /\ known \subseteq Markets
  BY CallFacts DEF InsertDraft, On
<1>5. PICK x : x = [calls[c] EXCEPT !.at = "proposal", !.market = m] OBVIOUS
<1>6. /\ x \in CallRecords /\ x.at = "proposal" /\ x.market = m /\ x.kind = "draft"
      /\ x.proposal = calls[c].proposal /\ x.verdict = calls[c].verdict
      /\ calls' = [calls EXCEPT ![c] = x]
  BY <1>2, <1>3, <1>4, <1>5 DEF CallRecords
<1>7. /\ \A q \in Markets : q # m => markets'[q] = markets[q]
      /\ markets'[m] = [markets[m] EXCEPT !.status = "draft"]
      /\ markets'[m].status = "draft" /\ markets'[m].source = markets[m].source
      /\ markets'[m].address = markets[m].address
  BY <1>2, <1>3, <1>4 DEF ReviewsTyped
<1>8. m \notin known /\ markets[m].source = 0 /\ ~markets[m].address
  BY <1>2 DEF ReviewsInv, Sourced
<1>9. Placed(x)' BY <1>2, <1>3, <1>4, <1>6, <1>7, <1>8 DEF Placed, None
<1>10. ASSUME NEW d \in Calls \ {c} PROVE calls[d].market # m /\ Undisturbed(calls[d])
  <2>1. PICK call : call = calls[d] OBVIOUS
  <2>2. call \in CallRecords /\ Placed(call) BY <2>1 DEF ReviewsInv, ReviewsTyped
  <2>3. call.market # m BY <1>2, <1>8, <2>2 DEF Placed, Idle, None, CallRecords
  <2>4. call.market = 0 \/ call.market \in Markets BY <2>2 DEF CallRecords
  <2>5. call.market = 0 \/ markets'[call.market] = markets[call.market] BY <1>7, <2>3, <2>4
  <2> QED BY <1>3, <2>1, <2>3, <2>5 DEF Undisturbed
<1>11. sent \subseteq sent' /\ known \subseteq known' /\ overlapped \subseteq overlapped'
  BY <1>3
<1>12. \A d \in Calls \ {c} : calls[d].market = x.market /\ x.market # 0
                                => x.market \in overlapped'
  BY <1>6, <1>10
<1>13. /\ calls' \in [Calls -> CallRecords] /\ calls'[c] = x
       /\ \A d \in Calls \ {c} : calls'[d] = calls[d]
       /\ (\A d \in Calls : Placed(calls[d]))' /\ Alone'
  BY <1>6, <1>9, <1>10, <1>11, <1>12, OneCall
<1>14. ReviewsTyped'
  <2>1. markets' \in [Markets -> [status : {None, "draft", "pending_review", "active", "canceled"},
                                  address : BOOLEAN, source : Nat]]
    BY <1>3, <1>4 DEF ReviewsTyped
  <2> QED BY <1>3, <1>4, <1>13, <2>1 DEF ReviewsTyped
<1>15. Sourced' BY <1>3, <1>7, <1>8 DEF ReviewsInv, Sourced
<1>16. PublishedStays' BY <1>3, <1>7, <1>8 DEF ReviewsInv, PublishedStays
<1>17. ASSUME faults' = 0 PROVE Linking' /\ Agreeing'
  <2>1. \A q \in Markets : markets'[q].source = markets[q].source BY <1>7
  <2>2. \A n : Sources(n)' = Sources(n) BY <2>1 DEF Sources
  <2>3. Linking' BY <1>3, <1>6, <1>13, <1>17, <2>2 DEF ReviewsInv, Linking
  <2>4. \A q \in known : markets'[q] = markets[q] BY <1>4, <1>7, <1>8
  <2>5. \A q \in known : Unsettled(q) => Unsettled(q)'
    BY <1>4, <1>13, <2>4 DEF Unsettled
  <2>6. Agreeing' BY <1>3, <1>17, <2>2, <2>4, <2>5 DEF ReviewsInv, Agreeing
  <2> QED BY <2>3, <2>6
<1> QED BY <1>13, <1>14, <1>15, <1>16, <1>17 DEF ReviewsInv

LEMMA DraftLinked ==
  ASSUME ReviewsInv, NEW c \in Calls, LinkDraft(c), sent \subseteq Nat, 0 \notin sent
  PROVE  ReviewsInv'
<1>1. PICK m, n : m = calls[c].market /\ n = calls[c].proposal OBVIOUS
<1>2. /\ markets' = [markets EXCEPT ![m].source = n] /\ known' = known \cup {m}
      /\ calls' = [calls EXCEPT ![c] = Idle] /\ UNCHANGED <<sent, overlapped, proposals, faults>>
      /\ calls[c].kind = "draft" /\ calls[c].at = "link"
  BY <1>1 DEF LinkDraft, Others, End, On
<1>3. /\ ReviewsTyped /\ overlapped \subseteq known /\ known \subseteq Markets
      /\ n \in sent /\ m \in Markets /\ m \notin known /\ markets[m].status = "draft" /\ m # 0
  BY <1>1, <1>2, CallFacts, Numbers DEF Placed
<1>4. /\ \A q \in Markets : q # m => markets'[q] = markets[q]
      /\ markets'[m].status = "draft" /\ markets'[m].source = n
      /\ markets'[m].address = markets[m].address
  BY <1>2, <1>3 DEF ReviewsTyped
<1>5. markets[m].source = 0 /\ ~markets[m].address BY <1>3 DEF ReviewsInv, Sourced
<1>6. PICK x : x = Idle OBVIOUS
<1>7. /\ calls' = [calls EXCEPT ![c] = x] /\ x \in CallRecords /\ x.market = 0 /\ Placed(x)'
      /\ x.at = "idle"
  BY <1>2, <1>6 DEF CallRecords, Placed, Idle, None
<1>8. ASSUME NEW d \in Calls \ {c} PROVE Undisturbed(calls[d])
  <2>1. calls[d].market # m BY <1>1, <1>3 DEF ReviewsInv, Alone
  <2>2. calls[d].market = 0 \/ calls[d].market \in Markets BY CallFacts DEF CallRecords
  <2> QED BY <1>2, <1>4, <2>1, <2>2 DEF Undisturbed
<1>9. sent \subseteq sent' /\ known \subseteq known' /\ overlapped \subseteq overlapped'
  BY <1>2
<1>10. /\ calls' \in [Calls -> CallRecords] /\ calls'[c] = x
       /\ \A d \in Calls \ {c} : calls'[d] = calls[d]
       /\ (\A d \in Calls : Placed(calls[d]))' /\ Alone'
  BY <1>7, <1>8, <1>9, OneCall
<1>11. ReviewsTyped'
  <2>1. markets' \in [Markets -> [status : {None, "draft", "pending_review", "active", "canceled"},
                                  address : BOOLEAN, source : Nat]]
    BY <1>2, <1>3 DEF ReviewsTyped
  <2> QED BY <1>2, <1>3, <1>10, <2>1 DEF ReviewsTyped
<1>12. Sourced' BY <1>2, <1>3, <1>4 DEF ReviewsInv, Sourced, None
<1>13. PublishedStays' BY <1>2, <1>4, <1>5 DEF ReviewsInv, PublishedStays
<1>14. ASSUME faults' = 0 PROVE Linking' /\ Agreeing'
  <2>1. faults = 0 /\ Linking /\ Agreeing BY <1>2, <1>14 DEF ReviewsInv
  <2>2. \A s : s # 0 => Sources(s)' = IF s = n THEN Sources(s) \cup {m} ELSE Sources(s)
    BY <1>3, <1>4, <1>5 DEF Sources
  <2>3. Linking'
    <3>1. ASSUME NEW d \in Calls, calls'[d].at = "link", Sources(calls[d].proposal)' = {}
          PROVE  proposals'[calls'[d].proposal].status = "draft_created"
      <4>1. d # c /\ calls'[d] = calls[d] BY <1>7, <1>10, <3>1
      <4>2. PICK s : s = calls[d].proposal OBVIOUS
      <4>3. s \in sent BY <3>1, <4>1, <4>2, CallFacts DEF Placed, Idle, CallRecords
      <4>4. s # 0 /\ Sources(s)' = {} BY <3>1, <4>1, <4>2, <4>3 DEF Sources
      <4>5. Sources(s) = {} BY <2>2, <4>4
      <4> QED BY <1>2, <2>1, <3>1, <4>1, <4>2, <4>5 DEF Linking
    <3> QED BY <3>1 DEF Linking
  <2>4. ASSUME NEW q \in known', q \notin overlapped', Sources(markets[q].source)' = {q},
               ~Unsettled(q)'
        PROVE  proposals'[markets'[q].source].status \in Matching[markets'[q].status]
    <3>1. PICK s : s = markets'[q].source OBVIOUS
    <3>2. q \in Markets /\ Sources(s)' = {q} BY <1>2, <1>3, <2>4, <3>1 DEF Sources
    <3>3. CASE q = m
      <4>1. s = n /\ s # 0 BY <1>3, <1>4, <3>1, <3>3
      <4>2. m \notin Sources(n) BY <1>3, <1>5 DEF Sources
      <4>3. Sources(n) = {} BY <2>2, <3>2, <3>3, <4>1, <4>2
      <4>4. proposals[n].status = "draft_created" BY <1>1, <1>2, <2>1, <4>3 DEF Linking
      <4> QED BY <1>2, <1>4, <3>1, <3>3, <4>1, <4>4 DEF Matching
    <3>4. CASE q # m
      <4>1. q \in known /\ markets'[q] = markets[q] BY <1>2, <1>4, <3>2, <3>4
      <4>2. s \in sent /\ s # 0 BY <3>1, <3>2, <4>1 DEF ReviewsInv, Sourced
      <4>3. s # n /\ Sources(s) = {q} BY <2>2, <3>2, <3>4, <4>2
      <4>4. ~Unsettled(q)
        <5>1. \A d \in Calls : calls'[d].at = "proposal" /\ calls'[d].market = q => FALSE
          BY <2>4 DEF Unsettled
        <5>2. \A d \in Calls : calls'[d].at = "link" /\ calls'[d].proposal = s => FALSE
          BY <2>4, <3>1 DEF Unsettled
        <5>3. \A d \in Calls : d # c => calls'[d] = calls[d] BY <1>10
        <5>4. s = markets[q].source BY <3>1, <4>1
        <5> QED BY <1>1, <1>2, <4>3, <5>1, <5>2, <5>3, <5>4 DEF Unsettled
      <4> QED BY <1>2, <2>1, <2>4, <3>1, <4>1, <4>3, <4>4 DEF Agreeing
    <3> QED BY <3>3, <3>4
  <2>5. Agreeing' BY <2>4 DEF Agreeing
  <2> QED BY <2>3, <2>5
<1> QED BY <1>10, <1>11, <1>12, <1>13, <1>14 DEF ReviewsInv

\* A call goes on, or ends, and writes nothing.
LEMMA CallMoves ==
  ASSUME ReviewsInv, NEW c \in Calls, NEW x \in CallRecords, calls' = [calls EXCEPT ![c] = x],
         Placed(x)', x.market \in {0, calls[c].market}, x.at # "link",
         UNCHANGED <<sent, markets, known, overlapped, proposals>>,
         (faults' = faults /\ calls[c].at \notin {"link", "proposal"}) \/ faults' # 0
  PROVE  ReviewsInv'
<1>1. sent \subseteq sent' /\ known \subseteq known' /\ overlapped \subseteq overlapped'
  OBVIOUS
<1>2. \A d \in Calls \ {c} : Undisturbed(calls[d]) BY DEF Undisturbed
<1>3. \A d \in Calls \ {c} : calls[d].market = x.market /\ x.market # 0
                               => x.market \in overlapped'
  BY DEF ReviewsInv, Alone
<1>4. /\ calls' \in [Calls -> CallRecords] /\ calls'[c] = x
      /\ \A d \in Calls \ {c} : calls'[d] = calls[d]
      /\ (\A d \in Calls : Placed(calls[d]))' /\ Alone'
  BY <1>1, <1>2, <1>3, OneCall
<1>5. ReviewsTyped' BY <1>4 DEF ReviewsInv, ReviewsTyped
<1>6. Sourced' /\ PublishedStays' BY DEF ReviewsInv, Sourced, PublishedStays
<1>7. ASSUME faults' = 0 PROVE Linking' /\ Agreeing'
  <2>1. faults = 0 /\ calls[c].at \notin {"link", "proposal"} /\ Linking /\ Agreeing
    BY <1>7 DEF ReviewsInv
  <2>2. Linking' BY <1>4, <2>1 DEF Linking, Sources
  <2>3. \A m : Unsettled(m) => Unsettled(m)' BY <1>4, <2>1 DEF Unsettled
  <2>4. Agreeing' BY <2>1, <2>3 DEF Agreeing, Sources
  <2> QED BY <2>2, <2>4
<1> QED BY <1>4, <1>5, <1>6, <1>7 DEF ReviewsInv

LEMMA CallGoesOn ==
  ASSUME ReviewsInv, NEW c \in Calls, Read(c) \/ QueueApproval(c) \/ ThrowCall(c),
         faults \in Nat, sent \subseteq Nat
  PROVE  ReviewsInv'
<1> DEFINE call == calls[c]
           m == call.market
<1>1. call \in CallRecords /\ Placed(call) /\ ReviewsTyped BY CallFacts
<1>2. UNCHANGED <<sent, markets, known, overlapped, proposals>>
  BY DEF Read, QueueApproval, ThrowCall, Others
<1>3. PICK idle : idle = Idle OBVIOUS
<1>4. idle \in CallRecords /\ Placed(idle)' /\ idle.market = 0 /\ idle.at # "link"
  BY <1>3 DEF CallRecords, Placed, Idle, None
<1>5. CASE Read(c)
  <2>1. call.at = "read" /\ faults' = faults BY <1>5 DEF Read, On
  <2>2. call.kind # "draft" /\ call.kind # None /\ m \in known
    BY <1>1, <2>1, CallFacts DEF Placed, Idle, CallRecords
  <2>3. CASE MayWrite(c, markets[m].status)
    <3>1. PICK x : x = [call EXCEPT !.at = "update", !.proposal = markets[m].source] OBVIOUS
    <3>2. markets[m].source \in Nat BY <1>1, <2>2 DEF ReviewsTyped
    <3>3. /\ x \in CallRecords /\ x.at = "update" /\ x.market = m /\ x.kind = call.kind
          /\ x.verdict = call.verdict /\ x.proposal = markets[m].source
      BY <1>1, <3>1, <3>2 DEF CallRecords
    <3>4. Placed(x)'
      BY <1>1, <1>2, <2>2, <2>3, <3>3 DEF Placed, MayWrite
    <3>5. calls' = [calls EXCEPT ![c] = x] BY <1>5, <2>3, <3>1 DEF Read
    <3> QED BY <1>2, <2>1, <3>3, <3>4, <3>5, CallMoves
  <2>4. CASE ~MayWrite(c, markets[m].status)
    <3>1. calls' = [calls EXCEPT ![c] = idle] BY <1>3, <1>5, <2>4 DEF Read, End
    <3> QED BY <1>2, <1>4, <2>1, <3>1, CallMoves
  <2> QED BY <2>3, <2>4
<1>6. CASE QueueApproval(c)
  <2>1. /\ call.at = "queue" /\ faults' = faults /\ calls' = [calls EXCEPT ![c] = idle]
    BY <1>3, <1>6 DEF QueueApproval, On, End
  <2> QED BY <1>2, <1>4, <2>1, CallMoves
<1>7. CASE ThrowCall(c)
  <2>1. faults' # 0 /\ calls' = [calls EXCEPT ![c] = idle]
    BY <1>3, <1>7 DEF ThrowCall, Fault, End
  <2> QED BY <1>2, <1>4, <2>1, CallMoves
<1> QED BY <1>5, <1>6, <1>7

LEMMA MarketUpdated ==
  ASSUME ReviewsInv, NEW c \in Calls, UpdateMarket(c) PROVE ReviewsInv'
<1> DEFINE call == calls[c]
<1>1. PICK m : m = call.market OBVIOUS
<1>2. call \in CallRecords /\ Placed(call) /\ ReviewsTyped /\ call.at = "update"
  BY CallFacts DEF UpdateMarket, On
<1>3. /\ call.kind \in {"validation", "published"} /\ m \in known /\ m \in Markets /\ m # 0
      /\ overlapped \subseteq known /\ known \subseteq Markets
  BY <1>1, <1>2, CallFacts, Numbers DEF Placed, Idle, CallRecords, None
<1>4. PICK row : row = IF call.kind = "published"
                       THEN [markets[m] EXCEPT !.status = "active", !.address = TRUE]
                       ELSE [markets[m] EXCEPT !.status = Decided(call.verdict)]
  OBVIOUS
<1>5. /\ markets' = [markets EXCEPT ![m] = row]
      /\ calls' = [calls EXCEPT ![c].at = "proposal"]
      /\ UNCHANGED <<sent, known, overlapped, proposals, faults>>
  BY <1>1, <1>4 DEF UpdateMarket, To, Others, Decided
<1>6. /\ row \in [status : {"pending_review", "active", "canceled"},
                  address : BOOLEAN, source : Nat]
      /\ row.source = markets[m].source
      /\ call.kind = "published" => row.status = "active"
      /\ call.kind = "validation" => row.status = Decided(call.verdict)
                                     /\ row.address = markets[m].address
  BY <1>2, <1>3, <1>4 DEF ReviewsTyped, Decided
<1>7. markets'[m] = row /\ \A q \in Markets : q # m => markets'[q] = markets[q]
  BY <1>2, <1>3, <1>5 DEF ReviewsTyped
<1>8. PICK x : x = [call EXCEPT !.at = "proposal"] OBVIOUS
<1>9. /\ x \in CallRecords /\ x.at = "proposal" /\ x.market = m /\ x.kind = call.kind
      /\ x.verdict = call.verdict /\ x.proposal = call.proposal
      /\ calls' = [calls EXCEPT ![c] = x]
  BY <1>1, <1>2, <1>5, <1>8 DEF CallRecords
<1>10. Placed(x)' BY <1>1, <1>2, <1>3, <1>5, <1>6, <1>7, <1>9 DEF Placed, None
<1>11. \A d \in Calls \ {c} : calls[d].market = m => m \in overlapped
  BY <1>1, <1>3 DEF ReviewsInv, Alone
<1>12. ASSUME NEW d \in Calls \ {c} PROVE Undisturbed(calls[d])
  <2>1. calls[d].market \in Markets \cup {0} BY CallFacts DEF CallRecords
  <2>2. CASE calls[d].market = m BY <1>6, <1>7, <1>11, <2>2 DEF Undisturbed
  <2>3. CASE calls[d].market # m BY <1>5, <1>7, <2>1, <2>3 DEF Undisturbed
  <2> QED BY <2>2, <2>3
<1>13. sent \subseteq sent' /\ known \subseteq known' /\ overlapped \subseteq overlapped'
  BY <1>5
<1>14. \A d \in Calls \ {c} : calls[d].market = x.market /\ x.market # 0
                                => x.market \in overlapped'
  BY <1>5, <1>9, <1>11
<1>15. /\ calls' \in [Calls -> CallRecords] /\ calls'[c] = x
       /\ \A d \in Calls \ {c} : calls'[d] = calls[d]
       /\ (\A d \in Calls : Placed(calls[d]))' /\ Alone'
  BY <1>9, <1>10, <1>12, <1>13, <1>14, OneCall
<1>16. ReviewsTyped'
  <2>1. markets' \in [Markets -> [status : {None, "draft", "pending_review", "active", "canceled"},
                                  address : BOOLEAN, source : Nat]]
    BY <1>2, <1>3, <1>5, <1>6 DEF ReviewsTyped
  <2> QED BY <1>2, <1>5, <1>15, <2>1 DEF ReviewsTyped
<1>17. Sourced' BY <1>3, <1>5, <1>6, <1>7 DEF ReviewsInv, Sourced, None
<1>18. PublishedStays'
  <2>1. ASSUME row.address, row.status # "active" PROVE m \in overlapped
    <3>1. call.kind = "validation" /\ markets[m].address BY <1>3, <1>6, <2>1
    <3>2. m \notin overlapped => markets[m].status = "draft"
      BY <1>1, <1>2, <3>1 DEF Placed
    <3> QED BY <1>3, <3>1, <3>2 DEF ReviewsInv, PublishedStays
  <2> QED BY <1>5, <1>7, <2>1 DEF ReviewsInv, PublishedStays
<1>19. ASSUME faults' = 0 PROVE Linking' /\ Agreeing'
  <2>1. faults = 0 /\ Linking /\ Agreeing BY <1>5, <1>19 DEF ReviewsInv
  <2>2. \A q \in Markets : markets'[q].source = markets[q].source BY <1>6, <1>7
  <2>3. \A n : Sources(n)' = Sources(n) BY <2>2 DEF Sources
  <2>4. Linking' BY <1>5, <1>9, <1>15, <2>1, <2>3 DEF Linking
  <2>5. \A q \in known : Unsettled(q) => Unsettled(q)'
    BY <1>2, <1>3, <1>15, <2>2 DEF Unsettled
  <2>6. Unsettled(m)' BY <1>9, <1>15 DEF Unsettled
  <2>7. Agreeing' BY <1>3, <1>5, <1>7, <2>1, <2>3, <2>5, <2>6 DEF Agreeing
  <2> QED BY <2>4, <2>7
<1> QED BY <1>15, <1>16, <1>17, <1>18, <1>19 DEF ReviewsInv

LEMMA ProposalUpdated ==
  ASSUME ReviewsInv, NEW c \in Calls, UpdateProposal(c), sent \subseteq DOMAIN proposals,
         proposals \in Seq(Rows)
  PROVE  ReviewsInv'
<1> DEFINE call == calls[c]
<1>1. PICK m, n : m = call.market /\ n = call.proposal OBVIOUS
<1>2. call \in CallRecords /\ Placed(call) /\ ReviewsTyped /\ call.at = "proposal"
  BY CallFacts DEF UpdateProposal, On
<1>3. /\ call.kind \in {"draft", "validation", "published"} /\ m \in Markets /\ m # 0
      /\ overlapped \subseteq known /\ known \subseteq Markets
      /\ call.kind = "draft" => n \in sent /\ m \notin known /\ call.verdict = None
      /\ call.kind # "draft" => m \in known /\ n = markets[m].source /\ n \in sent
  BY <1>1, <1>2, CallFacts, Numbers
  DEF Placed, Idle, CallRecords, None, ReviewsInv, Sourced
<1>4. /\ UNCHANGED <<sent, markets, known, overlapped, faults>>
      /\ \A q \in sent : q # n => proposals'[q] = proposals[q]
      /\ proposals'[n] = Told(call, proposals[n]) /\ n \in sent
      /\ proposals[n] \in Rows
  BY <1>1, <1>3, ElementOfSeq, LenProperties DEF UpdateProposal, Others
<1>5. /\ call.kind = "draft" => proposals'[n].status = "draft_created"
      /\ call.kind = "validation" => proposals'[n].status = call.verdict
      /\ call.kind = "published" => proposals'[n].status = "published"
  BY <1>3, <1>4 DEF Told, Rows
<1>6. PICK x : /\ calls' = [calls EXCEPT ![c] = x]
               /\ x = IF call.kind = "draft" THEN [call EXCEPT !.at = "link"]
                      ELSE IF call.verdict = "approved" /\ QueueConfigured
                           THEN [call EXCEPT !.at = "queue"] ELSE Idle
  BY DEF UpdateProposal, To, End
<1>7. /\ x \in CallRecords /\ x.at \in {"link", "queue", "idle"} /\ x.market \in {0, m}
      /\ x.at = "link" <=> call.kind = "draft"
      /\ x.at = "link" => x.proposal = n /\ x.kind = "draft" /\ x.market = m
                          /\ x.verdict = call.verdict
      /\ x.at = "queue" => x.proposal = n /\ x.kind = call.kind /\ x.market = m
                           /\ x.verdict = call.verdict /\ x.kind # "draft"
      /\ x.at = "idle" => x = Idle
  BY <1>1, <1>2, <1>6 DEF CallRecords, Idle
<1>8. Placed(x)'
  <2>1. CASE x.at = "link" BY <1>1, <1>2, <1>3, <1>4, <1>7, <2>1 DEF Placed, None
  <2>2. CASE x.at = "queue" BY <1>1, <1>2, <1>3, <1>4, <1>7, <2>2 DEF Placed, None
  <2>3. CASE x.at = "idle" BY <1>7, <2>3 DEF Placed, Idle, None
  <2> QED BY <1>7, <2>1, <2>2, <2>3
<1>9. sent \subseteq sent' /\ known \subseteq known' /\ overlapped \subseteq overlapped'
  BY <1>4
<1>10. \A d \in Calls \ {c} : Undisturbed(calls[d]) BY <1>4 DEF Undisturbed
<1>11. \A d \in Calls \ {c} : calls[d].market = x.market /\ x.market # 0
                                => x.market \in overlapped'
  BY <1>1, <1>4, <1>7 DEF ReviewsInv, Alone
<1>12. /\ calls' \in [Calls -> CallRecords] /\ calls'[c] = x
       /\ \A d \in Calls \ {c} : calls'[d] = calls[d]
       /\ (\A d \in Calls : Placed(calls[d]))' /\ Alone'
  BY <1>6, <1>7, <1>8, <1>9, <1>10, <1>11, OneCall
<1>13. ReviewsTyped' BY <1>2, <1>4, <1>12 DEF ReviewsTyped
<1>14. Sourced' /\ PublishedStays' BY <1>4 DEF ReviewsInv, Sourced, PublishedStays
<1>15. ASSUME faults' = 0 PROVE Linking' /\ Agreeing'
  <2>1. Linking /\ Agreeing BY <1>4, <1>15 DEF ReviewsInv
  <2>2. \A s : Sources(s)' = Sources(s) BY <1>4 DEF Sources
  <2>3. call.kind # "draft" => m \in Sources(n) BY <1>3 DEF Sources
  <2>4. ASSUME NEW d \in Calls, calls'[d].at = "link", Sources(calls'[d].proposal) = {}
        PROVE  proposals'[calls'[d].proposal].status = "draft_created"
    <3>1. CASE calls'[d].proposal = n BY <1>3, <1>5, <2>3, <2>4, <3>1
    <3>2. CASE calls'[d].proposal # n
      <4>1. d # c /\ calls'[d] = calls[d] BY <1>7, <1>12, <2>4, <3>2
      <4>2. calls[d].proposal \in sent
        BY <2>4, <4>1, CallFacts DEF Placed, Idle, CallRecords
      <4>3. proposals[calls[d].proposal].status = "draft_created"
        BY <2>1, <2>4, <4>1 DEF Linking
      <4> QED BY <1>4, <3>2, <4>1, <4>2, <4>3
    <3> QED BY <3>1, <3>2
  <2>5. Linking' BY <2>2, <2>4 DEF Linking
  <2>6. ASSUME NEW q \in known, q \notin overlapped, Sources(markets[q].source) = {q},
               ~Unsettled(q)'
        PROVE  proposals'[markets[q].source].status \in Matching[markets[q].status]
    <3>1. PICK s : s = markets[q].source OBVIOUS
    <3>2. s \in sent BY <3>1 DEF ReviewsInv, Sourced, ReviewsTyped
    <3>3. CASE s = n
      <4>1. call.kind # "draft"
        <5>1. call.kind = "draft" => calls'[c].at = "link" /\ calls'[c].proposal = s
          BY <1>7, <1>12, <3>3
        <5> QED BY <1>4, <2>6, <3>1, <5>1 DEF Unsettled
      <4>2. q = m BY <2>3, <2>6, <3>1, <3>3, <4>1
      <4>3. CASE call.kind = "validation"
        <5>1. markets[m].status = Decided(call.verdict) /\ call.verdict \in Verdicts
          BY <1>1, <1>2, <2>6, <4>2, <4>3 DEF Placed
        <5> QED BY <1>5, <3>1, <3>3, <4>2, <4>3, <5>1 DEF Matching, Decided, Verdicts
      <4>4. CASE call.kind = "published"
        <5>1. markets[m].status = "active" BY <1>1, <1>2, <2>6, <4>2, <4>4 DEF Placed
        <5> QED BY <1>5, <3>1, <3>3, <4>2, <4>4, <5>1 DEF Matching
      <4> QED BY <1>3, <4>1, <4>3, <4>4
    <3>4. CASE s # n
      <4>1. ~Unsettled(q)
        <5>1. \A d \in Calls : ~(calls'[d].at = "proposal" /\ calls'[d].market = q)
          BY <2>6 DEF Unsettled
        <5>2. \A d \in Calls : ~(calls'[d].at = "link" /\ calls'[d].proposal = s)
          BY <1>4, <2>6, <3>1 DEF Unsettled
        <5>3. q # m BY <1>3, <3>1, <3>4
        <5> QED BY <1>1, <1>2, <1>12, <3>1, <5>1, <5>2, <5>3 DEF Unsettled
      <4>2. proposals[s].status \in Matching[markets[q].status]
        BY <2>1, <2>6, <3>1, <4>1 DEF Agreeing
      <4> QED BY <1>4, <3>1, <3>2, <3>4, <4>2
    <3> QED BY <3>3, <3>4
  <2>7. Agreeing' BY <1>4, <2>2, <2>6 DEF Agreeing
  <2> QED BY <2>5, <2>7
<1> QED BY <1>12, <1>13, <1>14, <1>15 DEF ReviewsInv

(***************************************************************************)
(* Together.                                                               *)
(***************************************************************************)

WorkStep(c) ==
  PostDraft(c) \/ PostValidation(c) \/ PostPublished(c) \/ Work(c) \/ ThrowCall(c)

\* The worker routes tell a proposal of its draft; no more of it changes.
LEMMA WorkAges ==
  ASSUME SubmissionsInv, ReviewsInv, NEW c \in Calls, WorkStep(c) PROVE SubmissionsInv'
<1>1. SubmissionsTyped BY DEF SubmissionsInv
<1>2. /\ clock \in Nat /\ faults \in Nat /\ sent \subseteq N
      /\ proposals \in Seq(Rows) /\ N = DOMAIN proposals /\ Len(proposals) = Len(requests)
  BY <1>1, LenProperties DEF SubmissionsTyped, N
<1>3. UNCHANGED <<clock, similar, page, requests, counted, sent, lost>>
  BY DEF WorkStep, Work, PostDraft, PostValidation, PostPublished, Call, InsertDraft, LinkDraft,
         Read, UpdateMarket, UpdateProposal, QueueApproval, ThrowCall, Others
<1>4. faults' \in {faults, faults + 1}
  BY DEF WorkStep, Work, PostDraft, PostValidation, PostPublished, Call, InsertDraft, LinkDraft,
         Read, UpdateMarket, UpdateProposal, QueueApproval, ThrowCall, Fault
<1>5. proposals' = proposals \/ UpdateProposal(c)
  BY DEF WorkStep, Work, PostDraft, PostValidation, PostPublished, Call, InsertDraft, LinkDraft,
         Read, UpdateMarket, QueueApproval, ThrowCall
<1>6. /\ proposals' \in Seq(Rows) /\ Len(proposals') = Len(proposals)
      /\ \A n \in N : /\ proposals'[n].born = proposals[n].born
                      /\ proposals'[n].status # None <=> proposals[n].status # None
  <2>1. CASE proposals' = proposals BY <1>2, <2>1
  <2>2. CASE UpdateProposal(c)
    <3>1. PICK call : call = calls[c] OBVIOUS
    <3>2. PICK n, row : n = call.proposal /\ row = Told(call, proposals[n]) OBVIOUS
    <3>3. proposals' = [proposals EXCEPT ![n] = row] BY <2>2, <3>1, <3>2 DEF UpdateProposal
    <3>4. call \in CallRecords /\ Placed(call) /\ call.at = "proposal"
      BY <2>2, <3>1, CallFacts DEF UpdateProposal, On
    <3>5. /\ n \in sent /\ call.kind \in {"draft", "validation", "published"}
          /\ call.kind = "validation" => call.verdict \in Verdicts
          /\ call.market \in Markets \cup {0}
      BY <3>2, <3>4 DEF Placed, Idle, CallRecords, None, ReviewsInv, ReviewsTyped, Sourced
    <3>6. proposals[n] \in Rows /\ proposals[n].status # None
      BY <1>1, <1>2, <3>5, Finite DEF SubmissionsInv, InOrder, Orderly
    <3>7. row \in Rows /\ row.born = proposals[n].born /\ row.status # None
      BY <3>2, <3>5, <3>6 DEF Told, Rows, Verdicts, None
    <3>8. /\ proposals' \in Seq(Rows) /\ Len(proposals') = Len(proposals)
          /\ \A q \in 1 .. Len(proposals) : proposals'[q] = IF q = n THEN row ELSE proposals[q]
      BY <1>2, <3>3, <3>5, <3>7, ExceptSeq DEF N
    <3> QED BY <1>2, <3>6, <3>7, <3>8 DEF N
  <2> QED BY <1>5, <2>1, <2>2
<1>7. SubmissionsTyped' BY <1>1, <1>2, <1>3, <1>4, <1>6 DEF SubmissionsTyped, N
<1>8. clock' >= clock /\ faults' >= faults BY <1>2, <1>3, <1>4
<1>9. \A n \in N : /\ proposals'[n].born = proposals[n].born
                   /\ proposals'[n].status # None <=> proposals[n].status # None
                   /\ \A w \in counted[n] :
                        w \in counted'[n] \/ requests[n].stamp + Lengths[w] <= clock'
  BY <1>3, <1>6
<1> QED BY <1>3, <1>7, <1>8, <1>9, TablesAge

LEMMA WorkKeeps ==
  ASSUME SubmissionsInv, ReviewsInv, NEW c \in Calls, WorkStep(c) PROVE ReviewsInv'
<1>1. /\ faults \in Nat /\ sent \subseteq N /\ Len(requests) \in Nat
      /\ proposals \in Seq(Rows) /\ N = DOMAIN proposals
  BY Finite, LenProperties DEF SubmissionsInv, SubmissionsTyped, N
<1>2. sent \subseteq Nat /\ 0 \notin sent BY <1>1 DEF N
<1>3. CASE PostDraft(c) \/ PostValidation(c) \/ PostPublished(c) BY <1>2, <1>3, CallBegins
<1>4. CASE InsertDraft(c) BY <1>4, DraftInserted
<1>5. CASE LinkDraft(c) BY <1>2, <1>5, DraftLinked
<1>6. CASE UpdateMarket(c) BY <1>6, MarketUpdated
<1>7. CASE UpdateProposal(c) BY <1>1, <1>7, ProposalUpdated
<1>8. CASE Read(c) \/ QueueApproval(c) \/ ThrowCall(c) BY <1>1, <1>2, <1>8, CallGoesOn
<1> QED BY <1>3, <1>4, <1>5, <1>6, <1>7, <1>8 DEF WorkStep, Work

\* A submission leaves the worker routes and what they look at alone.
LEMMA SubmissionsApart ==
  ASSUME SubmissionsInv, SubmissionsInv', ReviewsInv,
         \/ \E p \in Pages : Submit(p) \/ Retry(p) \/ Receive(p) \/ LoseReply(p)
         \/ \E n \in N : Propose(n) \/ Throw(n)
         \/ Tick \/ SimilarChanges \/ CleanupRateLimits
  PROVE  ReviewsInv'
<1>1. /\ faults \in Nat /\ faults' \in Nat /\ sent \subseteq N /\ Len(requests) \in Nat
      /\ proposals \in Seq(Rows) /\ N = 1 .. Len(proposals)
  BY Finite DEF SubmissionsInv, SubmissionsTyped, N
<1> USE DEF Same, Rest, Fault
<1>2. CASE \E p \in Pages : Submit(p) \/ Retry(p)
  <2>1. PICK first, row : /\ proposals' = Append(proposals, row) /\ row \in Rows
                          /\ UNCHANGED <<review, faults, sent>>
    BY <1>2 DEF Submit, Retry, Post, Rows
  <2>2. \A n \in sent : proposals'[n] = proposals[n] BY <1>1, <2>1, AppendProperties
  <2>3. sent \subseteq sent' /\ faults' >= faults BY <1>1, <2>1
  <2> QED BY <1>1, <2>1, <2>2, <2>3, IntakeApart
<1>3. CASE \E p \in Pages : Receive(p) \/ LoseReply(p)
  <2>1. UNCHANGED <<review, proposals, sent>> /\ faults' \in {faults, faults + 1}
    BY <1>3 DEF Receive, LoseReply
  <2>2. sent \subseteq sent' /\ faults' >= faults BY <1>1, <2>1
  <2> QED BY <1>1, <2>1, <2>2, IntakeApart
<1>4. CASE Tick \/ SimilarChanges \/ CleanupRateLimits
  <2>1. UNCHANGED <<review, proposals, sent, faults>>
    BY <1>4 DEF Tick, SimilarChanges, CleanupRateLimits, intake
  <2>2. sent \subseteq sent' /\ faults' >= faults BY <1>1, <2>1
  <2> QED BY <1>1, <2>1, <2>2, IntakeApart
<1>5. ASSUME NEW n \in N, Propose(n) \/ Throw(n) PROVE ReviewsInv'
  <2>1. UNCHANGED review /\ sent \subseteq sent' /\ faults' \in {faults, faults + 1}
    BY <1>5 DEF Propose, CheckRateLimit, FindSimilarMarkets, InsertProposal, IncrementRateLimit,
                InsertCandidate, MarkProcessing, PublishCandidate, Throw
  <2>2. faults' >= faults BY <1>1, <2>1
  <2>3. CASE proposals' = proposals BY <1>1, <2>1, <2>2, <2>3, IntakeApart
  <2>4. CASE InsertProposal(n) \/ MarkProcessing(n)
    <3>1. requests[n].at # "done" BY <2>4 DEF InsertProposal, MarkProcessing, At
    <3>2. n \notin sent BY <3>1 DEF SubmissionsInv, InOrder, Orderly, None
    <3>3. \A q \in N : q # n => proposals'[q] = proposals[q]
      BY <1>1, <2>4, LenProperties DEF InsertProposal, MarkProcessing
    <3>4. \A q \in sent : proposals'[q] = proposals[q] BY <1>1, <3>2, <3>3
    <3> QED BY <1>1, <2>1, <2>2, <3>4, IntakeApart
  <2> QED BY <1>5, <2>3, <2>4
          DEF Propose, CheckRateLimit, FindSimilarMarkets, InsertProposal, IncrementRateLimit,
              InsertCandidate, MarkProcessing, PublishCandidate, Throw
<1> QED BY <1>2, <1>3, <1>4, <1>5

LEMMA StartsInOrder == ASSUME Init PROVE ProposalsInv
<1>1. /\ requests = <<>> /\ proposals = <<>> /\ counted = <<>> /\ sent = {} /\ lost = {}
      /\ clock = 0 /\ faults = 0 /\ similar = FALSE
      /\ page = [p \in Pages |-> [at |-> "form", of |-> 0]]
  BY DEF Init
<1>2. Len(requests) = 0 /\ Len(proposals) = 0 /\ Len(counted) = 0 /\ N = {}
  BY <1>1, EmptySeq DEF N
<1>3. SubmissionsTyped
  BY <1>1, <1>2, EmptySeq DEF SubmissionsTyped
<1>4. Watched /\ Attended /\ \A n \in N : InOrder(n) BY <1>1, <1>2 DEF Watched, Attended
<1>5. FaultsPaid
  <2>1. lost \cup Broken = {} BY <1>1, <1>2 DEF Broken
  <2> QED BY <1>1, <2>1, FS_EmptySet DEF FaultsPaid
<1>6. Bounded
  <2>1. \A w \in L : Inside(w) = {} BY <1>2 DEF Inside
  <2>2. Cardinality(Pages) \in Nat /\ Cardinality(Pages) # 0
    BY Numbers, FS_CardinalityType, FS_EmptySet
  <2>3. ASSUME NEW w \in L
        PROVE  Cardinality(Inside(w)) <= Limits[w] + Cardinality(Pages) - 1 + faults
    <3>1. PICK a, pages : a = Cardinality(Inside(w)) /\ pages = Cardinality(Pages) OBVIOUS
    <3>2. a = 0 BY <2>1, <3>1, FS_EmptySet
    <3>3. pages \in Nat /\ pages # 0 /\ Limits[w] \in Nat BY <2>2, <3>1, Sizes
    <3>4. a <= Limits[w] + pages - 1 + faults BY <1>1, <3>2, <3>3
    <3> QED BY <3>1, <3>4
  <2> QED BY <2>3 DEF Bounded
<1>7. ReviewsTyped
  BY DEF Init, ReviewsTyped, CallRecords, Idle, None
<1>8. Sourced /\ Alone /\ PublishedStays /\ Linking /\ Agreeing
  BY DEF Init, Sourced, Alone, PublishedStays, Linking, Agreeing, Idle
<1>9. ASSUME NEW c \in Calls PROVE Placed(calls[c])
  BY DEF Init, Placed, Idle, None
<1> QED BY <1>3, <1>4, <1>5, <1>6, <1>7, <1>8, <1>9 DEF ProposalsInv, SubmissionsInv, ReviewsInv

LEMMA StaysInOrder == ASSUME ProposalsInv, [Next]_vars PROVE ProposalsInv'
<1> USE DEF ProposalsInv
<1>1. CASE UNCHANGED vars
  <2>1. UNCHANGED <<clock, faults, similar, page, requests, proposals, counted, sent, lost, review>>
    BY <1>1 DEF vars, intake
  <2>2. SubmissionsInv' BY <2>1, StutterAges
  <2>3. faults \in Nat /\ faults' \in Nat /\ faults' >= faults
    BY <2>1 DEF SubmissionsInv, SubmissionsTyped
  <2>4. ReviewsInv' BY <2>1, <2>3, IntakeApart
  <2> QED BY <2>2, <2>4
<1>2. CASE \/ \E p \in Pages : Submit(p) \/ Retry(p) \/ Receive(p) \/ LoseReply(p)
           \/ \E n \in N : Propose(n) \/ Throw(n)
           \/ Tick \/ SimilarChanges \/ CleanupRateLimits
  <2>1. SubmissionsInv'
    BY <1>2, SubmitBegins, ReceiveTurns, HandlerKeeps, TickAges, SimilarAges, CleanupAges
  <2> QED BY <1>2, <2>1, SubmissionsApart
<1>3. CASE \E c \in Calls : WorkStep(c) BY <1>3, WorkAges, WorkKeeps
<1> QED BY <1>1, <1>2, <1>3 DEF Next, WorkStep, N

LEMMA AlwaysInOrder == Spec => []ProposalsInv
<1> QED BY StartsInOrder, StaysInOrder, PTL DEF Spec

(***************************************************************************)
(* The theorems.                                                           *)
(***************************************************************************)

\* However the tries of the pages, the checks and the counts of POST /propose
\* interleave, a window never takes more proposals than its limit, one for each
\* further page, and one for each fault.
THEOREM LimitHeld == Spec => []RateHeld
<1>1. ASSUME ProposalsInv PROVE RateHeld
  BY <1>1, InsideCounts DEF RateHeld, L, ProposalsInv
<1> QED BY <1>1, AlwaysInOrder, PTL

\* The second try of useSubmitProposal makes a second candidate only where the
\* page never heard of the first: no error a handler answers follows a message.
THEOREM RetriesAreSafe == Spec => []RetryIsSafe
<1>1. ASSUME ProposalsInv PROVE RetryIsSafe
  <2>1. ASSUME NEW n \in sent, requests[n].first # n, requests[n].first \in sent
        PROVE  requests[n].first \in lost
    <3>1. PICK o : o = requests[n].first OBVIOUS
    <3>2. n \in N /\ sent \subseteq N BY <1>1 DEF ProposalsInv, SubmissionsInv, SubmissionsTyped
    <3>3. Excused(o) BY <1>1, <2>1, <3>1, <3>2 DEF ProposalsInv, SubmissionsInv, InOrder
    <3>4. requests[o].reply = "processing"
      BY <1>1, <2>1, <3>1, <3>2 DEF ProposalsInv, SubmissionsInv, InOrder
    <3> QED BY <3>1, <3>3, <3>4 DEF Excused
  <2> QED BY <2>1 DEF RetryIsSafe
<1> QED BY <1>1, AlwaysInOrder, PTL

\* POST /worker/validations writes over what was published only if its handler and
\* that of the publication were on the market at the same time.
THEOREM ActiveMarketsStay == Spec => []PublishedStays
<1>1. ASSUME ProposalsInv PROVE PublishedStays BY <1>1 DEF ProposalsInv, ReviewsInv
<1> QED BY <1>1, AlwaysInOrder, PTL

\* Where the worker routes meet neither each other nor a failure, the two rows
\* each of them writes one after the other tell the same when it is done.
THEOREM RowsFollow == Spec => []RecordsFollow
<1>1. ASSUME ProposalsInv PROVE RecordsFollow
  <2>1. ASSUME NEW m \in known, faults = 0, ~Busy(m), m \notin overlapped,
               Sources(markets[m].source) = {m},
               \A c \in Calls : calls[c].proposal # markets[m].source
        PROVE  proposals[markets[m].source].status \in Matching[markets[m].status]
    <3>1. ~Unsettled(m) BY <2>1 DEF Unsettled, Busy
    <3> QED BY <1>1, <2>1, <3>1 DEF ProposalsInv, ReviewsInv, Agreeing
  <2> QED BY <2>1 DEF RecordsFollow
<1> QED BY <1>1, AlwaysInOrder, PTL
=============================================================================
