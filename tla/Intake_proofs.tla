--------------------------- MODULE Intake_proofs ---------------------------
(***************************************************************************)
(* Theorems about Intake, for any stories, crawlers, extractors and number *)
(* of retries.  The second counts, story by story, what may still make a   *)
(* candidate of it, and shows that only a fault adds to that.              *)
(***************************************************************************)
EXTENDS Intake, Integers, FiniteSetTheorems, TLAPS

(***************************************************************************)
(* The inductive invariant: what is under way is of stories on file, what  *)
(* is marked was dealt with, and whatever may still make a candidate of a  *)
(* story, with those made, is one or was paid for by a fault.              *)
(***************************************************************************)

HandRecords == [at : {"idle", "polling", "checked", "saved"}, todo : SUBSET Stories,
                story : Stories \cup {None}]
WorkRecords == {Idle} \cup [at : {"read", "save", "publish", "mark", "ack"}, msg : Messages]

Typed ==
  /\ faults \in Nat /\ linked \in [Workers -> BOOLEAN]
  /\ news \in [Stories -> {None, "ingested", "processed"}]
  /\ candidates \in [Stories -> Nat] /\ sent \in [Stories -> Nat]
  /\ hand \in [Savers -> HandRecords] /\ raw \subseteq Messages
  /\ timers \in [Extractors -> SUBSET Messages] /\ work \in [Extractors -> WorkRecords]

\* Who saves has a story, and the route has no message to send.
Occupied ==
  /\ \A c \in Savers : hand[c].at \in {"checked", "saved"} => hand[c].story \in Stories
  /\ hand[Api].at # "saved"

\* Nothing is queued, retried, handled or made of a story before its row is there.
Filed ==
  /\ \A c \in Crawlers : hand[c].at = "saved" => news[hand[c].story] # None
  /\ \A m \in raw : news[m.story] # None
  /\ \A x \in Extractors : \A m \in timers[x] : news[m.story] # None
  /\ \A x \in Extractors : work[x].at # "idle" => news[work[x].msg.story] # None
  /\ \A s \in Stories : candidates[s] > 0 => news[s] # None

Marked ==
  \A x \in Extractors : LET s == work[x].msg.story IN
    /\ work[x].at = "ack" => news[s] = "processed"
    /\ work[x].at \in {"mark", "ack"} => s \in passed \/ sent[s] > 0

\* What may still make a candidate of s: a poll about to queue it, a message that
\* waits to be delivered, a retry, an extractor that has not saved its candidate.
Tries == 0 .. Retries
Message(s, t) == [story |-> s, tries |-> t]
Saving(s) == {c \in Crawlers : hand[c].at = "saved" /\ hand[c].story = s}
Queued(s) == {t \in Tries : Message(s, t) \in raw \ Out}
Delayed(s) == {p \in Extractors \X Tries : Message(s, p[2]) \in timers[p[1]]}
Handled(s) == {x \in Extractors : work[x].at \in {"read", "save"} /\ work[x].msg.story = s}

Paid ==
  \A s \in Stories :
    Cardinality(Saving(s)) + Cardinality(Queued(s)) + Cardinality(Delayed(s))
      + Cardinality(Handled(s)) + candidates[s] <= 1 + faults

IntakeInv == Typed /\ Occupied /\ Filed /\ Marked /\ StoriesAccounted /\ Paid

(***************************************************************************)
(* Counting what is under way.                                             *)
(***************************************************************************)

\* T has at most k elements more than S.
Moves(S, T, k) ==
  \/ k = 0 /\ T \subseteq S
  \/ k = 1 /\ \E e : T \subseteq S \cup {e}
  \/ k = -1 /\ \E e \in S : T \subseteq S \ {e}

LEMMA MovesCount ==
  ASSUME NEW S, IsFiniteSet(S), NEW T, NEW k, Moves(S, T, k)
  PROVE  /\ k \in {-1, 0, 1} /\ IsFiniteSet(T) /\ Cardinality(S) \in Nat
         /\ Cardinality(T) \in Nat /\ Cardinality(T) <= Cardinality(S) + k
<1>1. Cardinality(S) \in Nat BY FS_CardinalityType
<1>2. CASE k = 0 /\ T \subseteq S
  <2>1. IsFiniteSet(T) /\ Cardinality(T) <= Cardinality(S) BY <1>2, FS_Subset
  <2>2. Cardinality(T) \in Nat BY <2>1, FS_CardinalityType
  <2> QED BY <1>1, <1>2, <2>1, <2>2
<1>3. ASSUME k = 1, NEW e, T \subseteq S \cup {e}
      PROVE  IsFiniteSet(T) /\ Cardinality(T) \in Nat /\ Cardinality(T) <= Cardinality(S) + 1
  <2>1. /\ IsFiniteSet(S \cup {e})
        /\ Cardinality(S \cup {e}) \in {Cardinality(S), Cardinality(S) + 1}
    BY FS_AddElement
  <2>2. IsFiniteSet(T) /\ Cardinality(T) <= Cardinality(S \cup {e})
    BY <1>3, <2>1, FS_Subset
  <2>3. Cardinality(T) \in Nat BY <2>2, FS_CardinalityType
  <2> QED BY <1>1, <2>1, <2>2, <2>3
<1>4. ASSUME k = -1, NEW e \in S, T \subseteq S \ {e}
      PROVE  IsFiniteSet(T) /\ Cardinality(T) \in Nat /\ Cardinality(T) <= Cardinality(S) - 1
  <2>1. IsFiniteSet(S \ {e}) /\ Cardinality(S \ {e}) = Cardinality(S) - 1
    BY FS_RemoveElement
  <2>2. IsFiniteSet(T) /\ Cardinality(T) <= Cardinality(S \ {e})
    BY <1>4, <2>1, FS_Subset
  <2>3. Cardinality(T) \in Nat BY <2>2, FS_CardinalityType
  <2> QED BY <1>1, <2>1, <2>2, <2>3
<1> QED BY <1>1, <1>2, <1>3, <1>4 DEF Moves

LEMMA TokensFinite ==
  ASSUME NEW s
  PROVE  /\ IsFiniteSet(Saving(s)) /\ IsFiniteSet(Queued(s))
         /\ IsFiniteSet(Delayed(s)) /\ IsFiniteSet(Handled(s))
<1>1. IsFiniteSet(Tries)
  <2>1. 0 \in Int /\ Retries \in Int BY Instances
  <2> QED BY <2>1, FS_Interval DEF Tries
<1>2. IsFiniteSet(Extractors \X Tries) BY <1>1, Instances, FS_Product
<1>3. /\ Saving(s) \subseteq Crawlers /\ Queued(s) \subseteq Tries
      /\ Delayed(s) \subseteq Extractors \X Tries /\ Handled(s) \subseteq Extractors
  BY DEF Saving, Queued, Delayed, Handled
<1> QED BY <1>1, <1>2, <1>3, Instances, FS_Subset

\* A step that adds no more than it takes away, or than its fault pays for.
LEMMA Balance ==
  ASSUME Typed, Typed', Paid, NEW s \in Stories, NEW i, NEW j, NEW k, NEW l,
         Moves(Saving(s), Saving(s)', i), Moves(Queued(s), Queued(s)', j),
         Moves(Delayed(s), Delayed(s)', k), Moves(Handled(s), Handled(s)', l),
         candidates'[s] + i + j + k + l + faults <= candidates[s] + faults'
  PROVE  (Cardinality(Saving(s)) + Cardinality(Queued(s)) + Cardinality(Delayed(s))
            + Cardinality(Handled(s)) + candidates[s] <= 1 + faults)'
<1>1. PICK A, B, C, D, A1, B1, C1, D1 :
        /\ A = Saving(s) /\ A1 = Saving(s)' /\ B = Queued(s) /\ B1 = Queued(s)'
        /\ C = Delayed(s) /\ C1 = Delayed(s)' /\ D = Handled(s) /\ D1 = Handled(s)'
  OBVIOUS
<1>2. PICK a, b, c, d, a1, b1, c1, d1 :
        /\ a = Cardinality(A) /\ a1 = Cardinality(A1) /\ b = Cardinality(B) /\ b1 = Cardinality(B1)
        /\ c = Cardinality(C) /\ c1 = Cardinality(C1) /\ d = Cardinality(D) /\ d1 = Cardinality(D1)
  OBVIOUS
<1>3. IsFiniteSet(A) /\ IsFiniteSet(B) /\ IsFiniteSet(C) /\ IsFiniteSet(D)
  BY <1>1, TokensFinite
<1>4. i \in {-1, 0, 1} /\ a \in Nat /\ a1 \in Nat /\ a1 <= a + i
  <2>1. Moves(A, A1, i) BY <1>1
  <2> QED BY <1>2, <1>3, <2>1, MovesCount
<1>5. j \in {-1, 0, 1} /\ b \in Nat /\ b1 \in Nat /\ b1 <= b + j
  <2>1. Moves(B, B1, j) BY <1>1
  <2> QED BY <1>2, <1>3, <2>1, MovesCount
<1>6. k \in {-1, 0, 1} /\ c \in Nat /\ c1 \in Nat /\ c1 <= c + k
  <2>1. Moves(C, C1, k) BY <1>1
  <2> QED BY <1>2, <1>3, <2>1, MovesCount
<1>7. l \in {-1, 0, 1} /\ d \in Nat /\ d1 \in Nat /\ d1 <= d + l
  <2>1. Moves(D, D1, l) BY <1>1
  <2> QED BY <1>2, <1>3, <2>1, MovesCount
<1>8. PICK m, m1 : m = candidates[s] /\ m1 = candidates'[s] OBVIOUS
<1>9. m \in Nat /\ m1 \in Nat /\ faults \in Nat /\ faults' \in Nat BY <1>8 DEF Typed
<1>10. a + b + c + d + m <= 1 + faults BY <1>1, <1>2, <1>8 DEF Paid
<1>11. m1 + i + j + k + l + faults <= m + faults' BY <1>8
<1>12. /\ {i, j, k, l} \subseteq Int /\ {a, a1, b, b1, c, c1, d, d1} \subseteq Int
       /\ a1 <= a + i /\ b1 <= b + j /\ c1 <= c + k /\ d1 <= d + l
  BY <1>4, <1>5, <1>6, <1>7
<1>13. a1 + b1 + c1 + d1 + m1 <= 1 + faults'
  <2>1. a1 + b1 + c1 + d1 <= a + b + c + d + i + j + k + l BY <1>12
  <2> QED BY <1>9, <1>10, <1>11, <1>12, <2>1
<1> QED BY <1>1, <1>2, <1>8, <1>13

(***************************************************************************)
(* Facts every step uses.                                                  *)
(***************************************************************************)

LEMMA MessageFacts ==
  /\ \A m \in Messages : m.story \in Stories /\ m.tries \in Tries
                         /\ m = Message(m.story, m.tries)
  /\ \A s \in Stories, t \in Tries : /\ Message(s, t) \in Messages /\ Message(s, t).story = s
                                     /\ Message(s, t).tries = t
  BY DEF Messages, Message, Tries

LEMMA OutFacts ==
  \A m : m \in Out <=> \E y \in Extractors : linked[y] /\ work[y].at # "idle" /\ work[y].msg = m
  BY DEF Out

LEMMA WorkFacts ==
  ASSUME Typed, NEW x \in Extractors
  PROVE  /\ work[x] \in WorkRecords
         /\ work[x].at # "idle" => work[x].msg \in Messages /\ work[x].msg.story \in Stories
  BY MessageFacts DEF Typed, WorkRecords, Idle

LEMMA TokensKept ==
  ASSUME NEW s
  PROVE  /\ hand' = hand => Moves(Saving(s), Saving(s)', 0)
         /\ timers' = timers => Moves(Delayed(s), Delayed(s)', 0)
         /\ work' = work => Moves(Handled(s), Handled(s)', 0)
         /\ raw' \subseteq raw /\ Out \subseteq Out' => Moves(Queued(s), Queued(s)', 0)
<1>1. hand' = hand => Saving(s)' \subseteq Saving(s) BY DEF Saving
<1>2. timers' = timers => Delayed(s)' \subseteq Delayed(s) BY DEF Delayed
<1>3. work' = work => Handled(s)' \subseteq Handled(s) BY DEF Handled
<1>4. raw' \subseteq raw /\ Out \subseteq Out' => Queued(s)' \subseteq Queued(s) BY DEF Queued
<1> QED BY <1>1, <1>2, <1>3, <1>4 DEF Moves

\* Stories stay accounted for when what carried one does, or is recorded as lost.
Recorded == byHand \cup abandoned \cup forgotten

LEMMA StayAccounted ==
  ASSUME StoriesAccounted, news' = news, Recorded \subseteq Recorded', passed \subseteq passed',
         \A s \in Stories : sent[s] > 0 => sent'[s] > 0,
         \A s \in Stories : Buried(s) => Buried(s)',
         \A s \in Stories : news[s] = "ingested" /\ Carried(s)
                              => Carried(s)' \/ Buried(s)' \/ s \in Recorded'
  PROVE  StoriesAccounted'
  BY DEF StoriesAccounted, Recorded

(***************************************************************************)
(* The steps of those who save.                                            *)
(***************************************************************************)

\* A poll or the route goes on or stops, and queues nothing.
LEMMA HandMoves ==
  ASSUME IntakeInv, NEW c \in Savers, NEW h \in HandRecords, hand' = [hand EXCEPT ![c] = h],
         h.at # "saved", h.at = "checked" => h.story \in Stories,
         linked' \in [Workers -> BOOLEAN], \A x \in Extractors : linked'[x] = linked[x],
         faults' \in {faults, faults + 1}, abandoned \subseteq abandoned',
         hand[c].at = "saved" => hand[c].story \in abandoned',
         UNCHANGED <<queues, tables, work, byHand, forgotten, passed>>
  PROVE  IntakeInv'
<1> USE DEF IntakeInv, queues, tables
<1>1. hand'[c] = h /\ \A d \in Savers : d # c => hand'[d] = hand[d] BY DEF Typed
<1>2. Typed' BY DEF Typed
<1>3. Occupied' BY <1>1 DEF Occupied, Savers
<1>4. Filed' BY <1>1 DEF Filed, Savers
<1>5. Marked' BY DEF Marked
<1>6. StoriesAccounted'
  <2>1. ASSUME NEW s \in Stories, Carried(s) PROVE Carried(s)' \/ s \in Recorded'
    BY <1>1, <2>1 DEF Carried, Recorded, Savers
  <2>2. \A s \in Stories : Buried(s) => Buried(s)' BY DEF Buried
  <2>3. Recorded \subseteq Recorded' BY DEF Recorded
  <2> QED BY <2>1, <2>2, <2>3, StayAccounted
<1>7. Paid'
  <2>1. Out \subseteq Out' BY OutFacts DEF Out
  <2>2. ASSUME NEW s \in Stories PROVE Moves(Saving(s), Saving(s)', 0)
    BY <1>1 DEF Saving, Moves, Savers
  <2>3. \A s \in Stories : candidates'[s] + 0 + 0 + 0 + 0 + faults <= candidates[s] + faults'
    BY DEF Typed
  <2> QED BY <1>2, <2>1, <2>2, <2>3, TokensKept, Balance DEF Paid
<1> QED BY <1>2, <1>3, <1>4, <1>5, <1>6, <1>7

LEMMA AfterFacts ==
  ASSUME NEW h \in HandRecords
  PROVE  After(h) \in HandRecords /\ After(h).at \in {"idle", "polling"}
  BY DEF HandRecords, After, Empty

LEMMA PollMoves == ASSUME IntakeInv, NEW c \in Crawlers, Poll(c) PROVE IntakeInv'
<1>1. PICK h : h \in HandRecords /\ h.at = "polling" /\ hand' = [hand EXCEPT ![c] = h]
  BY DEF Poll, HandRecords, Empty
<1>2. /\ hand[c].at # "saved" /\ UNCHANGED <<queues, tables, work, byHand, forgotten, passed>>
      /\ UNCHANGED <<linked, faults, abandoned>>
  BY DEF Poll, Empty, control, history
<1>3. linked' \in [Workers -> BOOLEAN] /\ faults' \in {faults, faults + 1}
  BY <1>2 DEF IntakeInv, Typed
<1> QED BY <1>1, <1>2, <1>3, HandMoves DEF Savers

LEMMA IngestMoves == ASSUME IntakeInv, Ingest PROVE IntakeInv'
<1>1. PICK h : h \in HandRecords /\ h.at = "polling" /\ hand' = [hand EXCEPT ![Api] = h]
  BY DEF Ingest, HandRecords, Empty
<1>2. /\ hand[Api].at # "saved" /\ UNCHANGED <<queues, tables, work, byHand, forgotten, passed>>
      /\ UNCHANGED <<linked, faults, abandoned>>
  BY DEF Ingest, Empty, control, history
<1>3. linked' \in [Workers -> BOOLEAN] /\ faults' \in {faults, faults + 1}
  BY <1>2 DEF IntakeInv, Typed
<1> QED BY <1>1, <1>2, <1>3, HandMoves DEF Savers

LEMMA CheckMoves == ASSUME IntakeInv, NEW c \in Savers, Check(c) PROVE IntakeInv'
<1>1. hand[c] \in HandRecords BY DEF IntakeInv, Typed
<1>2. PICK h : /\ h \in HandRecords /\ hand' = [hand EXCEPT ![c] = h] /\ h.at # "saved"
               /\ h.at = "checked" => h.story \in Stories
  <2>0. PICK s \in hand[c].todo :
          LET left == [hand[c] EXCEPT !.todo = @ \ {s}]
          IN  hand' = [hand EXCEPT ![c] =
                         IF news[s] = None THEN [left EXCEPT !.at = "checked", !.story = s]
                         ELSE After(left)]
    BY DEF Check
  <2>1. PICK left :
          /\ left = [hand[c] EXCEPT !.todo = @ \ {s}]
          /\ hand' = [hand EXCEPT ![c] =
                        IF news[s] = None THEN [left EXCEPT !.at = "checked", !.story = s]
                        ELSE After(left)]
    BY <2>0
  <2>2. s \in Stories /\ left \in HandRecords BY <1>1, <2>1 DEF HandRecords
  <2>3. PICK h : h = IF news[s] = None THEN [left EXCEPT !.at = "checked", !.story = s]
                     ELSE After(left)
    OBVIOUS
  <2>4. h \in HandRecords /\ h.at # "saved" /\ (h.at = "checked" => h.story \in Stories)
    <3>1. CASE news[s] = None BY <2>2, <2>3, <3>1 DEF HandRecords
    <3>2. CASE news[s] # None BY <2>2, <2>3, <3>2, AfterFacts
    <3> QED BY <3>1, <3>2
  <2> QED BY <2>1, <2>3, <2>4
<1>3. /\ hand[c].at # "saved" /\ UNCHANGED <<queues, tables, work, byHand, forgotten, passed>>
      /\ UNCHANGED <<linked, faults, abandoned>>
  BY DEF Check, control, history
<1>4. linked' \in [Workers -> BOOLEAN] /\ faults' \in {faults, faults + 1}
  BY <1>3 DEF IntakeInv, Typed
<1> QED BY <1>2, <1>3, <1>4, HandMoves

\* A crawler that dies leaves its story without a message.
LEMMA CrawlerCrashes == ASSUME IntakeInv, NEW c \in Crawlers, CrashCrawler(c) PROVE IntakeInv'
<1>1. PICK h : h = Empty OBVIOUS
<1>2. /\ h \in HandRecords /\ h.at = "idle" /\ hand' = [hand EXCEPT ![c] = h] /\ c \in Savers
  BY <1>1 DEF CrashCrawler, Empty, HandRecords, Savers
<1>3. /\ UNCHANGED <<queues, tables, work, byHand, forgotten, passed>>
      /\ linked' = [linked EXCEPT ![c] = TRUE] /\ faults' = faults + 1
      /\ abandoned' = IF hand[c].at = "saved" THEN abandoned \cup {hand[c].story} ELSE abandoned
  BY DEF CrashCrawler, Reborn, queues, tables
<1>4. linked' \in [Workers -> BOOLEAN] /\ \A x \in Extractors : linked'[x] = linked[x]
  BY <1>3, Apart DEF IntakeInv, Typed, Workers
<1>5. /\ faults' \in {faults, faults + 1} /\ abandoned \subseteq abandoned'
      /\ hand[c].at = "saved" => hand[c].story \in abandoned'
  BY <1>3
<1> QED BY <1>2, <1>3, <1>4, <1>5, HandMoves

\* The row of a story comes first: nothing can be made of it before.
LEMMA SaveKeeps == ASSUME IntakeInv, NEW c \in Savers, Save(c) PROVE IntakeInv'
<1> USE DEF IntakeInv
<1> DEFINE s == hand[c].story
<1>1. /\ hand[c].at = "checked" /\ hand[c] \in HandRecords /\ s \in Stories
      /\ UNCHANGED <<linked, faults, queues, candidates, sent, work, abandoned, forgotten, passed>>
  BY DEF Save, control, Typed, Occupied
<1>2. CASE ~Inserted(s)
  <2>1. PICK h : h = After(hand[c]) OBVIOUS
  <2>2. h \in HandRecords /\ h.at \in {"idle", "polling"} BY <1>1, <2>1, AfterFacts
  <2>3. hand' = [hand EXCEPT ![c] = h] /\ news' = news /\ byHand' = byHand
    BY <1>2, <2>1 DEF Save
  <2>4. /\ linked' \in [Workers -> BOOLEAN] /\ faults' \in {faults, faults + 1}
        /\ \A x \in Extractors : linked'[x] = linked[x]
    BY <1>1 DEF Typed
  <2>5. UNCHANGED <<queues, tables, work, byHand, forgotten, passed>> BY <1>1, <2>3 DEF tables
  <2> QED BY <1>1, <2>2, <2>3, <2>4, <2>5, HandMoves
<1>3. CASE Inserted(s)
  <2>1. PICK h : h = IF c = Api THEN Empty ELSE [hand[c] EXCEPT !.at = "saved"] OBVIOUS
  <2>2. /\ h \in HandRecords /\ h.at \in {"idle", "saved"}
        /\ h.at = "saved" <=> c # Api
        /\ h.at = "saved" => h.story = s
    BY <1>1, <2>1 DEF HandRecords, Empty
  <2>3. /\ hand' = [hand EXCEPT ![c] = h] /\ news' = [news EXCEPT ![s] = "ingested"]
        /\ byHand' = IF c = Api THEN byHand \cup {s} ELSE byHand
        /\ news[s] = None
    BY <1>3, <2>1 DEF Save, Inserted
  <2>4. /\ hand'[c] = h /\ \A d \in Savers : d # c => hand'[d] = hand[d]
        /\ news'[s] = "ingested" /\ \A t \in Stories : t # s => news'[t] = news[t]
    BY <1>1, <2>3 DEF Typed
  <2>5. Typed' BY <1>1, <2>2, <2>3 DEF Typed, queues
  <2>6. Occupied' BY <1>1, <2>2, <2>4 DEF Occupied, Savers
  <2>7. \A t \in Stories : news[t] # None => news'[t] = news[t] /\ t # s BY <2>3, <2>4
  <2>8. Filed'
    <3>1. \A d \in Crawlers : hand'[d].at = "saved" => news'[hand'[d].story] # None
      <4>1. ASSUME NEW d \in Crawlers, hand'[d].at = "saved" PROVE news'[hand'[d].story] # None
        <5>1. CASE d = c BY <2>2, <2>4, <4>1, <5>1 DEF None
        <5>2. CASE d # c
          <6>1. hand'[d] = hand[d] /\ hand[d].story \in Stories /\ news[hand[d].story] # None
            BY <2>4, <4>1, <5>2 DEF Savers, Occupied, Filed
          <6> QED BY <2>7, <6>1
        <5> QED BY <5>1, <5>2
      <4> QED BY <4>1
    <3>2. \A m \in raw' : news'[m.story] # None
      BY <1>1, <2>7, MessageFacts DEF Filed, Typed, queues
    <3>3. \A x \in Extractors : \A m \in timers'[x] : news'[m.story] # None
      BY <1>1, <2>7, MessageFacts DEF Filed, Typed, queues
    <3>4. \A x \in Extractors : work'[x].at # "idle" => news'[work'[x].msg.story] # None
      BY <1>1, <2>7, WorkFacts DEF Filed
    <3>5. \A t \in Stories : candidates'[t] > 0 => news'[t] # None
      BY <1>1, <2>7 DEF Filed
    <3> QED BY <3>1, <3>2, <3>3, <3>4, <3>5 DEF Filed
  <2>9. Marked'
    <3>1. ASSUME NEW x \in Extractors, work[x].at = "ack"
          PROVE  news'[work[x].msg.story] = "processed"
      BY <2>7, <3>1, WorkFacts DEF Marked, None
    <3> QED BY <1>1, <3>1 DEF Marked
  <2>10. StoriesAccounted'
    <3>1. ASSUME NEW t \in Stories, news'[t] = "ingested"
          PROVE  (Carried(t) \/ Buried(t) \/ t \in byHand \cup abandoned \cup forgotten)'
      <4>1. CASE t = s /\ c = Api BY <2>3, <4>1
      <4>2. CASE t = s /\ c # Api
        <5>1. c \in Crawlers BY <4>2 DEF Savers
        <5> QED BY <2>2, <2>4, <4>2, <5>1 DEF Carried
      <4>3. CASE t # s
        <5>1. news[t] = "ingested" BY <2>4, <3>1, <4>3
        <5>2. Carried(t) => Carried(t)'
          <6>1. \A d \in Crawlers : hand[d].at = "saved" => hand'[d] = hand[d]
            BY <1>1, <2>4 DEF Savers
          <6> QED BY <1>1, <6>1 DEF Carried, queues
        <5>3. Buried(t) => Buried(t)' BY <1>1 DEF Buried, queues
        <5>4. byHand \subseteq byHand' BY <2>3
        <5> QED BY <1>1, <5>1, <5>2, <5>3, <5>4 DEF StoriesAccounted
      <4> QED BY <4>1, <4>2, <4>3
    <3>2. ASSUME NEW t \in Stories, news'[t] = "processed" PROVE t \in passed' \/ sent'[t] > 0
      <4>1. news[t] = "processed" BY <2>4, <3>2
      <4> QED BY <1>1, <4>1 DEF StoriesAccounted
    <3> QED BY <3>1, <3>2 DEF StoriesAccounted
  <2>11. ASSUME NEW t \in Stories
         PROVE  (Cardinality(Saving(t)) + Cardinality(Queued(t)) + Cardinality(Delayed(t))
                   + Cardinality(Handled(t)) + candidates[t] <= 1 + faults)'
    <3>1. /\ Moves(Queued(t), Queued(t)', 0) /\ Moves(Delayed(t), Delayed(t)', 0)
          /\ Moves(Handled(t), Handled(t)', 0)
      <4>1. Out \subseteq Out' BY <1>1 DEF Out
      <4> QED BY <1>1, <4>1, TokensKept DEF queues
    <3>2. CASE t # s
      <4>1. Moves(Saving(t), Saving(t)', 0)
        <5>1. Saving(t)' \subseteq Saving(t) BY <2>2, <2>4, <3>2 DEF Saving, Savers
        <5> QED BY <5>1 DEF Moves
      <4>2. candidates'[t] + 0 + 0 + 0 + 0 + faults <= candidates[t] + faults'
        BY <1>1 DEF Typed
      <4> QED BY <2>5, <3>1, <4>1, <4>2, Balance
    <3>3. CASE t = s
      <4>1. Saving(s) = {} /\ Queued(s) = {} /\ Delayed(s) = {} /\ Handled(s) = {}
        <5>1. Saving(s) = {} BY <2>3 DEF Saving, Filed, Savers
        <5>2. Queued(s) = {} BY <1>1, <2>3, MessageFacts DEF Queued, Filed
        <5>3. Delayed(s) = {}
          <6>1. \A x \in Extractors, r \in Tries : Message(s, r) \notin timers[x]
            BY <1>1, <2>3, MessageFacts DEF Filed
          <6> QED BY <6>1 DEF Delayed
        <5>4. Handled(s) = {} BY <2>3 DEF Handled, Filed
        <5> QED BY <5>1, <5>2, <5>3, <5>4
      <4>2. candidates[s] = 0 BY <1>1, <2>3 DEF Filed, Typed
      <4>3. Saving(t)' \subseteq Saving(t) \cup {c} BY <2>4 DEF Saving, Savers
      <4>4. PICK A, B, C, D : /\ A = Saving(t)' /\ B = Queued(t)' /\ C = Delayed(t)'
                              /\ D = Handled(t)'
        OBVIOUS
      <4>5. A \subseteq {c} /\ B = {} /\ C = {} /\ D = {}
        BY <3>1, <3>3, <4>1, <4>3, <4>4 DEF Moves
      <4>6. Cardinality(A) \in {0, 1}
        <5>1. A = {} \/ A = {c} BY <4>5
        <5> QED BY <5>1, FS_EmptySet, FS_Singleton
      <4>7. Cardinality(B) = 0 /\ Cardinality(C) = 0 /\ Cardinality(D) = 0
        BY <4>5, FS_EmptySet
      <4>8. PICK a, b, e, d, q, f :
              /\ a = Cardinality(A) /\ b = Cardinality(B) /\ e = Cardinality(C)
              /\ d = Cardinality(D) /\ q = candidates'[t] /\ f = faults'
        OBVIOUS
      <4>9. a \in Nat /\ a <= 1 /\ b = 0 /\ e = 0 /\ d = 0 /\ q = 0 /\ f \in Nat
        BY <1>1, <2>5, <3>3, <4>2, <4>6, <4>7, <4>8 DEF Typed
      <4>10. a + b + e + d + q <= 1 + f BY <4>9
      <4> QED BY <4>4, <4>8, <4>10
    <3> QED BY <3>2, <3>3
  <2>12. Paid' BY <2>11 DEF Paid
  <2> QED BY <2>5, <2>6, <2>8, <2>9, <2>10, <2>12
<1> QED BY <1>2, <1>3

LEMMA PublishNewsKeeps == ASSUME IntakeInv, NEW c \in Savers, PublishNews(c) PROVE IntakeInv'
<1> USE DEF IntakeInv
<1> DEFINE s == hand[c].story
<1>1. /\ hand[c].at = "saved" /\ hand[c] \in HandRecords /\ s \in Stories
      /\ c \in Crawlers /\ news[s] # None
      /\ UNCHANGED <<linked, faults, timers, dead, tables, work, byHand, forgotten, passed>>
  BY DEF PublishNews, control, Typed, Occupied, Savers, Filed
<1>2. PICK h : h = After(hand[c]) OBVIOUS
<1>3. /\ h \in HandRecords /\ h.at \in {"idle", "polling"} /\ hand' = [hand EXCEPT ![c] = h]
  BY <1>1, <1>2, AfterFacts DEF PublishNews
<1>4. CASE ~linked[c]
  <2>1. raw' = raw /\ abandoned' = abandoned \cup {s} BY <1>4 DEF PublishNews
  <2>2. /\ linked' \in [Workers -> BOOLEAN] /\ faults' \in {faults, faults + 1}
        /\ \A x \in Extractors : linked'[x] = linked[x]
    BY <1>1 DEF Typed
  <2>3. UNCHANGED <<queues, tables, work, byHand, forgotten, passed>> BY <1>1, <2>1 DEF queues
  <2>4. abandoned \subseteq abandoned' /\ s \in abandoned' BY <2>1
  <2> QED BY <1>1, <1>3, <2>2, <2>3, <2>4, HandMoves
<1>5. CASE linked[c]
  <2>1. PICK m : m = Message(s, 0) OBVIOUS
  <2>2. m \in Messages /\ m.story = s /\ m.tries = 0 /\ 0 \in Tries
    <3>1. 0 \in Tries BY Instances DEF Tries
    <3> QED BY <1>1, <2>1, <3>1, MessageFacts
  <2>3. raw' = raw \cup {m} /\ abandoned' = abandoned
    BY <1>5, <2>1 DEF PublishNews, Message
  <2>4. hand'[c] = h /\ \A d \in Savers : d # c => hand'[d] = hand[d] BY <1>3 DEF Typed
  <2>5. Typed' BY <1>1, <1>3, <2>2, <2>3 DEF Typed, tables
  <2>6. Occupied' BY <1>3, <2>4 DEF Occupied, Savers
  <2>7. Filed' BY <1>1, <1>3, <2>2, <2>3, <2>4 DEF Filed, tables, Savers
  <2>8. Marked' BY <1>1 DEF Marked, tables
  <2>9. StoriesAccounted'
    <3>1. ASSUME NEW t \in Stories, Carried(t) PROVE Carried(t)'
      <4>1. CASE t = s BY <2>2, <2>3, <4>1 DEF Carried
      <4>2. CASE t # s BY <1>1, <2>3, <2>4, <3>1, <4>2 DEF Carried, Savers
      <4> QED BY <4>1, <4>2
    <3>2. \A t \in Stories : Buried(t) => Buried(t)' BY <1>1 DEF Buried
    <3>3. Recorded \subseteq Recorded' /\ news' = news /\ sent' = sent /\ passed' = passed
      BY <1>1, <2>3 DEF Recorded, tables
    <3> QED BY <3>1, <3>2, <3>3, StayAccounted
  <2>10. ASSUME NEW t \in Stories
         PROVE  (Cardinality(Saving(t)) + Cardinality(Queued(t)) + Cardinality(Delayed(t))
                   + Cardinality(Handled(t)) + candidates[t] <= 1 + faults)'
    <3>1. Moves(Delayed(t), Delayed(t)', 0) /\ Moves(Handled(t), Handled(t)', 0)
      BY <1>1, TokensKept
    <3>2. Out' = Out BY <1>1 DEF Out
    <3>3. CASE t # s
      <4>1. Saving(t)' \subseteq Saving(t) BY <1>3, <2>4 DEF Saving, Savers
      <4>2. Queued(t)' \subseteq Queued(t)
        BY <2>2, <2>3, <3>2, <3>3, MessageFacts DEF Queued
      <4>3. candidates'[t] + 0 + 0 + 0 + 0 + faults <= candidates[t] + faults'
        BY <1>1 DEF Typed, tables
      <4>4. Moves(Saving(t), Saving(t)', 0) /\ Moves(Queued(t), Queued(t)', 0)
        BY <4>1, <4>2 DEF Moves
      <4> QED BY <2>5, <3>1, <4>3, <4>4, Balance
    <3>4. CASE t = s
      <4>1. c \in Saving(t) /\ Saving(t)' \subseteq Saving(t) \ {c}
        BY <1>1, <1>3, <2>4, <3>4 DEF Saving, Savers
      <4>2. Queued(t)' \subseteq Queued(t) \cup {0}
        <5>1. ASSUME NEW r \in Queued(t)' PROVE r \in Queued(t) \cup {0}
          <6>1. r \in Tries /\ Message(t, r) \in raw' /\ Message(t, r) \notin Out
            BY <3>2 DEF Queued
          <6>2. CASE Message(t, r) = m
            <7>1. Message(t, r).tries = r BY <6>1, MessageFacts
            <7> QED BY <2>2, <6>2, <7>1
          <6>3. CASE Message(t, r) # m BY <2>3, <6>1, <6>3 DEF Queued
          <6> QED BY <6>2, <6>3
        <5> QED BY <5>1
      <4>3. candidates'[t] + -1 + 1 + 0 + 0 + faults <= candidates[t] + faults'
        BY <1>1 DEF Typed, tables
      <4>4. Moves(Saving(t), Saving(t)', -1) /\ Moves(Queued(t), Queued(t)', 1)
        BY <4>1, <4>2 DEF Moves
      <4> QED BY <2>5, <3>1, <4>3, <4>4, Balance
    <3> QED BY <3>3, <3>4
  <2>11. Paid' BY <2>10 DEF Paid
  <2> QED BY <2>5, <2>6, <2>7, <2>8, <2>9, <2>11
<1> QED BY <1>4, <1>5

(***************************************************************************)
(* The steps of the extractors.                                            *)
(***************************************************************************)

LEMMA WorkTurns ==
  ASSUME Typed, NEW x \in Extractors, NEW v \in WorkRecords, work' = [work EXCEPT ![x] = v]
  PROVE  /\ work' \in [Extractors -> WorkRecords] /\ work'[x] = v
         /\ \A y \in Extractors : y # x => work'[y] = work[y]
         /\ \A s : v.at \notin {"read", "save"} => Moves(Handled(s), Handled(s)', 0)
         /\ \A s : v.at # "idle" /\ v.msg.story # s => Moves(Handled(s), Handled(s)', 0)
         /\ \A s : Moves(Handled(s), Handled(s)', 1)
<1>1. /\ work' \in [Extractors -> WorkRecords] /\ work'[x] = v
      /\ \A y \in Extractors : y # x => work'[y] = work[y]
  BY DEF Typed
<1>2. ASSUME NEW s PROVE Handled(s)' \subseteq Handled(s) \cup {x} BY <1>1 DEF Handled
<1>3. ASSUME NEW s, v.at \notin {"read", "save"} \/ v.msg.story # s
      PROVE  Handled(s)' \subseteq Handled(s)
  BY <1>1, <1>3 DEF Handled
<1> QED BY <1>1, <1>2, <1>3 DEF Moves

LEMMA BeginKeeps == ASSUME IntakeInv, NEW x \in Extractors, Begin(x) PROVE IntakeInv'
<1> USE DEF IntakeInv
<1>1. PICK m \in raw \ Out : work' = [work EXCEPT ![x] = [at |-> "read", msg |-> m]]
  BY DEF Begin
<1>2. /\ linked[x] /\ work[x].at = "idle"
      /\ UNCHANGED <<linked, faults, queues, tables, hand, history>>
  BY DEF Begin, Free, control
<1>3. PICK v : v = [at |-> "read", msg |-> m] OBVIOUS
<1>4. /\ v \in WorkRecords /\ v.at = "read" /\ v.msg = m /\ m \in Messages
      /\ m.story \in Stories /\ m.tries \in Tries /\ m = Message(m.story, m.tries)
  <2>1. m \in Messages BY <1>1 DEF Typed
  <2> QED BY <1>3, <2>1, MessageFacts DEF WorkRecords
<1>5. /\ work' \in [Extractors -> WorkRecords] /\ work'[x] = v
      /\ \A y \in Extractors : y # x => work'[y] = work[y]
      /\ \A s : v.at # "idle" /\ v.msg.story # s => Moves(Handled(s), Handled(s)', 0)
      /\ \A s : Moves(Handled(s), Handled(s)', 1)
  BY <1>1, <1>3, <1>4, WorkTurns
<1>6. Typed' BY <1>2, <1>5 DEF Typed, queues, tables
<1>7. Occupied' BY <1>2 DEF Occupied
<1>8. Filed' BY <1>1, <1>2, <1>4, <1>5 DEF Filed, queues, tables
<1>9. Marked' BY <1>2, <1>4, <1>5 DEF Marked, tables, history
<1>10. StoriesAccounted'
  BY <1>2 DEF StoriesAccounted, Carried, Buried, queues, tables, history
<1>11. Out \cup {m} \subseteq Out'
  <2>1. \A y \in Extractors : linked[y] /\ work[y].at # "idle" => work'[y] = work[y]
    BY <1>2, <1>5
  <2>2. \A n \in Out : n \in Out' BY <1>2, <2>1 DEF Out
  <2>3. m \in Out' BY <1>2, <1>4, <1>5 DEF Out
  <2> QED BY <2>2, <2>3
<1>12. ASSUME NEW t \in Stories
       PROVE  (Cardinality(Saving(t)) + Cardinality(Queued(t)) + Cardinality(Delayed(t))
                 + Cardinality(Handled(t)) + candidates[t] <= 1 + faults)'
  <2>1. Moves(Saving(t), Saving(t)', 0) /\ Moves(Delayed(t), Delayed(t)', 0)
    BY <1>2, TokensKept DEF queues
  <2>2. CASE t # m.story
    <3>1. Moves(Queued(t), Queued(t)', 0) BY <1>2, <1>11, TokensKept DEF queues
    <3>2. Moves(Handled(t), Handled(t)', 0) BY <1>4, <1>5, <2>2
    <3>3. candidates'[t] + 0 + 0 + 0 + 0 + faults <= candidates[t] + faults'
      BY <1>2 DEF Typed, tables
    <3> QED BY <1>6, <2>1, <3>1, <3>2, <3>3, Balance
  <2>3. CASE t = m.story
    <3>1. m.tries \in Queued(t) /\ Queued(t)' \subseteq Queued(t) \ {m.tries}
      BY <1>1, <1>2, <1>4, <1>11, <2>3 DEF Queued, queues
    <3>2. Moves(Queued(t), Queued(t)', -1) BY <3>1 DEF Moves
    <3>3. candidates'[t] + 0 + -1 + 0 + 1 + faults <= candidates[t] + faults'
      BY <1>2 DEF Typed, tables
    <3> QED BY <1>5, <1>6, <2>1, <3>2, <3>3, Balance
  <2> QED BY <2>2, <2>3
<1>13. Paid' BY <1>12 DEF Paid
<1> QED BY <1>6, <1>7, <1>8, <1>9, <1>10, <1>13

\* An extractor goes on with its message: what it did is behind it.
Did(x, to, s) ==
  /\ to = "save" => work[x].at = "read"
  /\ IF to = "publish" THEN work[x].at = "save" /\ candidates' = [candidates EXCEPT ![s] = @ + 1]
     ELSE candidates' = candidates
  /\ IF to = "ack" THEN news' = [news EXCEPT ![s] = "processed"] ELSE news' = news
  /\ to \in {"mark", "ack"} => s \in passed' \/ sent'[s] > 0

LEMMA GoesOn ==
  ASSUME IntakeInv, NEW x \in Extractors, NEW to \in {"save", "publish", "mark", "ack"},
         work[x].at # "idle", work' = [work EXCEPT ![x].at = to],
         NEW s, s = work[x].msg.story, Did(x, to, s),
         sent' = sent \/ sent' = [sent EXCEPT ![s] = @ + 1], passed \subseteq passed',
         UNCHANGED <<linked, faults, queues, hand, byHand, abandoned, forgotten>>
  PROVE  IntakeInv'
<1> USE DEF IntakeInv
<1>1. work[x] \in WorkRecords /\ work[x].msg \in Messages /\ s \in Stories BY WorkFacts
<1>2. PICK v : v = [work[x] EXCEPT !.at = to] OBVIOUS
<1>3. /\ v \in WorkRecords /\ v.at = to /\ v.msg = work[x].msg
      /\ work' = [work EXCEPT ![x] = v]
  BY <1>1, <1>2 DEF WorkRecords, Idle
<1>4. /\ work' \in [Extractors -> WorkRecords] /\ work'[x] = v
      /\ \A y \in Extractors : y # x => work'[y] = work[y]
      /\ \A t : v.at \notin {"read", "save"} => Moves(Handled(t), Handled(t)', 0)
      /\ \A t : v.at # "idle" /\ v.msg.story # t => Moves(Handled(t), Handled(t)', 0)
  BY <1>3, WorkTurns
<1>5. news[s] # None BY DEF Filed
<1>6. /\ \A t \in Stories : t # s => news'[t] = news[t] /\ sent'[t] = sent[t]
                                     /\ candidates'[t] = candidates[t]
      /\ news'[s] = IF to = "ack" THEN "processed" ELSE news[s]
      /\ candidates'[s] = IF to = "publish" THEN candidates[s] + 1 ELSE candidates[s]
      /\ sent'[s] \in {sent[s], sent[s] + 1}
  BY <1>1 DEF Did, Typed
<1>7. Typed' BY <1>1, <1>4 DEF Typed, Did, queues
<1>8. Occupied' BY DEF Occupied
<1>9. Filed'
  <2>1. \A t \in Stories : news[t] # None => news'[t] # None BY <1>6 DEF None
  <2>2. \A c \in Crawlers : hand'[c].at = "saved" => news'[hand'[c].story] # None
    BY <2>1 DEF Filed, Occupied, Savers
  <2>3. \A m \in raw' : news'[m.story] # None
    BY <2>1, MessageFacts DEF Filed, Typed, queues
  <2>4. \A y \in Extractors : \A m \in timers'[y] : news'[m.story] # None
    BY <2>1, MessageFacts DEF Filed, Typed, queues
  <2>5. ASSUME NEW y \in Extractors, work'[y].at # "idle" PROVE news'[work'[y].msg.story] # None
    <3>1. work[y].at # "idle" /\ work'[y].msg = work[y].msg BY <1>3, <1>4, <2>5
    <3>2. work[y].msg.story \in Stories /\ news[work[y].msg.story] # None
      BY <3>1, WorkFacts DEF Filed
    <3> QED BY <2>1, <3>1, <3>2
  <2>6. \A t \in Stories : candidates'[t] > 0 => news'[t] # None
    BY <1>5, <1>6, <2>1, <1>1 DEF Filed
  <2> QED BY <2>2, <2>3, <2>4, <2>5, <2>6 DEF Filed
<1>10. \A t \in Stories : t \in passed \/ sent[t] > 0 => t \in passed' \/ sent'[t] > 0
  BY <1>6 DEF Typed
<1>11. Marked'
  <2>1. ASSUME NEW y \in Extractors
        PROVE  /\ work'[y].at = "ack" => news'[work'[y].msg.story] = "processed"
               /\ work'[y].at \in {"mark", "ack"} =>
                    work'[y].msg.story \in passed' \/ sent'[work'[y].msg.story] > 0
    <3>1. CASE y = x BY <1>3, <1>4, <1>6, <3>1 DEF Did
    <3>2. CASE y # x
      <4>1. work'[y] = work[y] BY <1>4, <3>2
      <4>2. \A t \in Stories : news[t] = "processed" => news'[t] = "processed" BY <1>6
      <4>3. work[y].at # "idle" => work[y].msg.story \in Stories BY WorkFacts
      <4> QED BY <1>10, <4>1, <4>2, <4>3 DEF Marked
    <3> QED BY <3>1, <3>2
  <2> QED BY <2>1 DEF Marked
<1>12. StoriesAccounted'
  <2>1. ASSUME NEW t \in Stories, news'[t] = "ingested"
        PROVE  (Carried(t) \/ Buried(t) \/ t \in byHand \cup abandoned \cup forgotten)'
    <3>1. news[t] = "ingested" BY <1>6, <2>1
    <3> QED BY <3>1 DEF StoriesAccounted, Carried, Buried, queues
  <2>2. ASSUME NEW t \in Stories, news'[t] = "processed" PROVE t \in passed' \/ sent'[t] > 0
    <3>1. CASE news[t] = "processed" BY <1>10, <3>1 DEF StoriesAccounted
    <3>2. CASE news[t] # "processed" BY <1>6, <2>2, <3>2 DEF Did
    <3> QED BY <3>1, <3>2
  <2> QED BY <2>1, <2>2 DEF StoriesAccounted
<1>13. Out \subseteq Out' BY <1>3, <1>4 DEF Out
<1>14. ASSUME NEW t \in Stories
       PROVE  (Cardinality(Saving(t)) + Cardinality(Queued(t)) + Cardinality(Delayed(t))
                 + Cardinality(Handled(t)) + candidates[t] <= 1 + faults)'
  <2>1. /\ Moves(Saving(t), Saving(t)', 0) /\ Moves(Delayed(t), Delayed(t)', 0)
        /\ Moves(Queued(t), Queued(t)', 0)
    BY <1>13, TokensKept DEF queues
  <2>2. candidates[t] \in Nat /\ faults \in Nat /\ faults' = faults BY DEF Typed
  <2>3. CASE t = s /\ to = "publish"
    <3>1. x \in Handled(t) /\ Handled(t)' \subseteq Handled(t) \ {x}
      BY <1>3, <1>4, <2>3 DEF Handled, Did
    <3>2. Moves(Handled(t), Handled(t)', -1) BY <3>1 DEF Moves
    <3>3. candidates'[t] + 0 + 0 + 0 + -1 + faults <= candidates[t] + faults'
      BY <1>6, <2>2, <2>3
    <3> QED BY <1>7, <2>1, <3>2, <3>3, Balance
  <2>4. CASE ~(t = s /\ to = "publish")
    <3>1. candidates'[t] + 0 + 0 + 0 + 0 + faults <= candidates[t] + faults'
      BY <1>6, <2>2, <2>4
    <3>2. Moves(Handled(t), Handled(t)', 0)
      <4>1. CASE to # "save" \/ t # s BY <1>3, <1>4, <4>1
      <4>2. CASE to = "save" /\ t = s
        <5>1. x \in Handled(t) BY <4>2 DEF Handled, Did
        <5>2. Handled(t)' \subseteq Handled(t) BY <1>4, <5>1 DEF Handled
        <5> QED BY <5>2 DEF Moves
      <4> QED BY <4>1, <4>2
    <3> QED BY <1>7, <2>1, <3>1, <3>2, Balance
  <2> QED BY <2>3, <2>4
<1>15. Paid' BY <1>14 DEF Paid
<1> QED BY <1>7, <1>8, <1>9, <1>11, <1>12, <1>15

LEMMA ExtractKeeps ==
  ASSUME IntakeInv, NEW x \in Extractors,
         Read(x) \/ SaveCandidate(x) \/ PublishCandidate(x) \/ Mark(x)
  PROVE  IntakeInv'
<1>1. PICK s : s = work[x].msg.story OBVIOUS
<1>2. /\ sent \in [Stories -> Nat] /\ candidates \in [Stories -> Nat]
      /\ work[x].at # "idle" => s \in Stories
      /\ work[x].at \in {"mark", "ack"} => s \in passed \/ sent[s] > 0
  BY <1>1, WorkFacts DEF IntakeInv, Typed, Marked
<1>3. UNCHANGED <<linked, faults, queues, hand, byHand, abandoned, forgotten>>
  BY DEF Read, SaveCandidate, PublishCandidate, Mark, control, history
<1>4. CASE Read(x)
  <2>1. work[x].at = "read" /\ UNCHANGED tables BY <1>4 DEF Read
  <2>2. PICK to \in {"save", "mark"} :
          /\ work' = [work EXCEPT ![x].at = to] /\ passed \subseteq passed'
          /\ to = "mark" => s \in passed'
    BY <1>1, <1>4 DEF Read, Step
  <2>3. Did(x, to, s) BY <2>1, <2>2 DEF Did, tables
  <2>4. sent' = sent BY <2>1 DEF tables
  <2> QED BY <1>1, <1>3, <2>1, <2>2, <2>3, <2>4, GoesOn
<1>5. CASE SaveCandidate(x)
  <2>1. PICK to : to = "publish" OBVIOUS
  <2>2. /\ work[x].at = "save" /\ work' = [work EXCEPT ![x].at = to]
        /\ candidates' = [candidates EXCEPT ![s] = @ + 1] /\ UNCHANGED <<news, sent, passed>>
    BY <1>1, <1>5, <2>1 DEF SaveCandidate, Step, history
  <2>3. Did(x, to, s) BY <2>1, <2>2 DEF Did
  <2> QED BY <1>1, <1>3, <2>1, <2>2, <2>3, GoesOn
<1>6. CASE PublishCandidate(x)
  <2>1. PICK to : to = "mark" OBVIOUS
  <2>2. /\ work[x].at = "publish" /\ work' = [work EXCEPT ![x].at = to]
        /\ sent' = [sent EXCEPT ![s] = @ + 1] /\ UNCHANGED <<news, candidates, passed>>
    BY <1>1, <1>6, <2>1 DEF PublishCandidate, Step, history
  <2>3. sent'[s] > 0 BY <1>2, <2>2
  <2>4. Did(x, to, s) BY <2>1, <2>2, <2>3 DEF Did
  <2> QED BY <1>1, <1>3, <2>1, <2>2, <2>4, GoesOn
<1>7. CASE Mark(x)
  <2>1. PICK to : to = "ack" OBVIOUS
  <2>2. /\ work[x].at = "mark" /\ work' = [work EXCEPT ![x].at = to]
        /\ news' = [news EXCEPT ![s] = "processed"] /\ UNCHANGED <<sent, candidates, passed>>
    BY <1>1, <1>7, <2>1 DEF Mark, Step, history
  <2>3. Did(x, to, s) BY <1>2, <2>1, <2>2 DEF Did
  <2> QED BY <1>1, <1>3, <2>1, <2>2, <2>3, GoesOn
<1> QED BY <1>4, <1>5, <1>6, <1>7

\* An extractor lets go of its message, which leaves the queue.
LEMMA LetGo ==
  ASSUME Typed, NEW x \in Extractors, work' = [work EXCEPT ![x] = Idle]
  PROVE  /\ work' \in [Extractors -> WorkRecords] /\ work'[x].at = "idle"
         /\ \A y \in Extractors : y # x => work'[y] = work[y]
         /\ \A s : Moves(Handled(s), Handled(s)', 0)
         /\ (\A y \in Extractors : linked'[y] = linked[y] \/ y = x)
              => /\ Out \subseteq Out' \cup {work[x].msg}
                 /\ ~linked[x] => Out \subseteq Out'
<1>1. PICK v : v = Idle OBVIOUS
<1>2. v \in WorkRecords /\ v.at = "idle" /\ work' = [work EXCEPT ![x] = v]
  BY <1>1 DEF WorkRecords, Idle
<1>3. /\ work' \in [Extractors -> WorkRecords] /\ work'[x] = v
      /\ \A y \in Extractors : y # x => work'[y] = work[y]
      /\ \A s : v.at \notin {"read", "save"} => Moves(Handled(s), Handled(s)', 0)
  BY <1>2, WorkTurns
<1>4. ASSUME \A y \in Extractors : linked'[y] = linked[y] \/ y = x
      PROVE  Out \subseteq Out' \cup {work[x].msg} /\ (~linked[x] => Out \subseteq Out')
  <2>1. ASSUME NEW y \in Extractors, linked[y], work[y].at # "idle", y # x
        PROVE  work[y].msg \in Out'
    BY <1>3, <1>4, <2>1 DEF Out
  <2> QED BY <2>1 DEF Out
<1> QED BY <1>2, <1>3, <1>4

LEMMA AckKeeps == ASSUME IntakeInv, NEW x \in Extractors, Ack(x) PROVE IntakeInv'
<1> USE DEF IntakeInv
<1>1. PICK m : m = work[x].msg OBVIOUS
<1>2. /\ work[x].at = "ack" /\ raw' = raw \ {m} /\ work' = [work EXCEPT ![x] = Idle]
      /\ UNCHANGED <<linked, faults, timers, dead, tables, hand, history>>
  BY <1>1 DEF Ack, control
<1>3. /\ work' \in [Extractors -> WorkRecords] /\ work'[x].at = "idle"
      /\ \A y \in Extractors : y # x => work'[y] = work[y]
      /\ \A s : Moves(Handled(s), Handled(s)', 0)
      /\ Out \subseteq Out' \cup {m}
  BY <1>1, <1>2, LetGo
<1>4. Typed' BY <1>2, <1>3 DEF Typed, tables
<1>5. Occupied' /\ Filed' /\ Marked'
  BY <1>2, <1>3 DEF Occupied, Filed, Marked, tables, history
<1>6. StoriesAccounted'
  <2>1. m.story \in Stories /\ news[m.story] = "processed"
    BY <1>1, <1>2, WorkFacts DEF Marked
  <2>2. ASSUME NEW s \in Stories, news[s] = "ingested", Carried(s) PROVE Carried(s)'
    <3>1. s # m.story BY <2>1, <2>2
    <3> QED BY <1>2, <2>2, <3>1 DEF Carried
  <2>3. \A s \in Stories : Buried(s) => Buried(s)' BY <1>2 DEF Buried
  <2>4. news' = news /\ sent' = sent /\ passed' = passed /\ Recorded \subseteq Recorded'
    BY <1>2 DEF tables, history, Recorded
  <2> QED BY <2>2, <2>3, <2>4, StayAccounted
<1>7. ASSUME NEW t \in Stories
      PROVE  (Cardinality(Saving(t)) + Cardinality(Queued(t)) + Cardinality(Delayed(t))
                + Cardinality(Handled(t)) + candidates[t] <= 1 + faults)'
  <2>1. Moves(Saving(t), Saving(t)', 0) /\ Moves(Delayed(t), Delayed(t)', 0)
    BY <1>2, TokensKept
  <2>2. Queued(t)' \subseteq Queued(t) BY <1>2, <1>3 DEF Queued
  <2>3. Moves(Queued(t), Queued(t)', 0) BY <2>2 DEF Moves
  <2>4. candidates'[t] + 0 + 0 + 0 + 0 + faults <= candidates[t] + faults'
    BY <1>2 DEF Typed, tables
  <2> QED BY <1>3, <1>4, <2>1, <2>3, <2>4, Balance
<1>8. Paid' BY <1>7 DEF Paid
<1> QED BY <1>4, <1>5, <1>6, <1>8

LEMMA DeclineKeeps == ASSUME IntakeInv, NEW x \in Extractors, Decline(x) PROVE IntakeInv'
<1> USE DEF IntakeInv
<1>1. PICK m \in raw \ Out : raw' = raw \ {m} /\ dead' = dead \cup {m}
  BY DEF Decline, Buries
<1>2. UNCHANGED <<linked, faults, timers, tables, hand, work, history>>
  BY DEF Decline, control
<1>3. Typed' BY <1>1, <1>2 DEF Typed, tables
<1>4. Occupied' /\ Filed' /\ Marked' BY <1>1, <1>2 DEF Occupied, Filed, Marked, tables, history
<1>5. StoriesAccounted'
  <2>1. ASSUME NEW s \in Stories, Carried(s) PROVE Carried(s)' \/ Buried(s)'
    BY <1>1, <1>2, <2>1 DEF Carried, Buried
  <2>2. \A s \in Stories : Buried(s) => Buried(s)' BY <1>1 DEF Buried
  <2>3. news' = news /\ sent' = sent /\ passed' = passed /\ Recorded \subseteq Recorded'
    BY <1>2 DEF tables, history, Recorded
  <2> QED BY <2>1, <2>2, <2>3, StayAccounted
<1>6. ASSUME NEW t \in Stories
      PROVE  (Cardinality(Saving(t)) + Cardinality(Queued(t)) + Cardinality(Delayed(t))
                + Cardinality(Handled(t)) + candidates[t] <= 1 + faults)'
  <2>1. Out \subseteq Out' BY <1>2 DEF Out
  <2>2. /\ Moves(Saving(t), Saving(t)', 0) /\ Moves(Delayed(t), Delayed(t)', 0)
        /\ Moves(Handled(t), Handled(t)', 0) /\ Moves(Queued(t), Queued(t)', 0)
    BY <1>1, <1>2, <2>1, TokensKept
  <2>3. candidates'[t] + 0 + 0 + 0 + 0 + faults <= candidates[t] + faults'
    BY <1>2 DEF Typed, tables
  <2> QED BY <1>3, <2>2, <2>3, Balance
<1>7. Paid' BY <1>6 DEF Paid
<1> QED BY <1>3, <1>4, <1>5, <1>7

LEMMA FailKeeps == ASSUME IntakeInv, NEW x \in Extractors, Fail(x) PROVE IntakeInv'
<1> USE DEF IntakeInv
<1>1. PICK m, again : m = work[x].msg /\ again = [m EXCEPT !.tries = @ + 1] OBVIOUS
<1>2. /\ work[x].at # "idle" /\ raw' = raw \ {m} /\ work' = [work EXCEPT ![x] = Idle]
      /\ faults' = faults + 1 /\ UNCHANGED <<linked, tables, hand, history>>
      /\ IF m.tries < Retries
         THEN timers' = [timers EXCEPT ![x] = @ \cup {again}] /\ dead' = dead
         ELSE dead' = dead \cup {m} /\ timers' = timers
  BY <1>1 DEF Fail, MayRetry, Buries
<1>3. m \in Messages /\ news[m.story] # None BY <1>1, <1>2, WorkFacts DEF Filed
<1>4. m.tries < Retries =>
        /\ again \in Messages /\ again.story = m.story /\ again.tries \in Tries
        /\ again = Message(m.story, again.tries)
  <2>1. ASSUME m.tries < Retries PROVE again \in Messages /\ again.story = m.story
    <3>1. m.tries + 1 \in 0 .. Retries BY <1>3, <2>1, Instances DEF Messages
    <3> QED BY <1>1, <1>3, <3>1 DEF Messages
  <2> QED BY <2>1, MessageFacts
<1>5. /\ work' \in [Extractors -> WorkRecords] /\ work'[x].at = "idle"
      /\ \A y \in Extractors : y # x => work'[y] = work[y]
      /\ \A s : Moves(Handled(s), Handled(s)', 0)
      /\ Out \subseteq Out' \cup {m}
  BY <1>1, <1>2, LetGo
<1>6. /\ \A y \in Extractors : timers[y] \subseteq timers'[y]
      /\ \A y \in Extractors : timers'[y] \subseteq timers[y] \cup {again}
      /\ \A y \in Extractors : y # x => timers'[y] = timers[y]
      /\ m.tries < Retries => again \in timers'[x]
      /\ ~(m.tries < Retries) => timers' = timers
  BY <1>2 DEF Typed
<1>7. Typed' BY <1>2, <1>4, <1>5 DEF Typed, tables
<1>8. Occupied' /\ Marked' BY <1>2, <1>5 DEF Occupied, Marked, tables, history
<1>9. Filed'
  <2>1. \A y \in Extractors : \A n \in timers'[y] : news'[n.story] # None
    BY <1>2, <1>3, <1>4, <1>6 DEF Filed, tables
  <2> QED BY <1>2, <1>5, <2>1 DEF Filed, tables
<1>10. StoriesAccounted'
  <2>1. ASSUME NEW s \in Stories, Carried(s) PROVE Carried(s)' \/ Buried(s)'
    <3>1. CASE s = m.story
      <4>1. CASE m.tries < Retries BY <1>4, <1>6, <3>1, <4>1 DEF Carried
      <4>2. CASE ~(m.tries < Retries) BY <1>2, <3>1, <4>2 DEF Buried
      <4> QED BY <4>1, <4>2
    <3>2. CASE s # m.story BY <1>2, <1>6, <2>1, <3>2 DEF Carried
    <3> QED BY <3>1, <3>2
  <2>2. \A s \in Stories : Buried(s) => Buried(s)' BY <1>2 DEF Buried
  <2>3. news' = news /\ sent' = sent /\ passed' = passed /\ Recorded \subseteq Recorded'
    BY <1>2 DEF tables, history, Recorded
  <2> QED BY <2>1, <2>2, <2>3, StayAccounted
<1>11. ASSUME NEW t \in Stories
       PROVE  (Cardinality(Saving(t)) + Cardinality(Queued(t)) + Cardinality(Delayed(t))
                 + Cardinality(Handled(t)) + candidates[t] <= 1 + faults)'
  <2>1. Moves(Saving(t), Saving(t)', 0) BY <1>2, TokensKept
  <2>2. Queued(t)' \subseteq Queued(t) BY <1>2, <1>5 DEF Queued
  <2>3. Moves(Queued(t), Queued(t)', 0) BY <2>2 DEF Moves
  <2>4. Delayed(t)' \subseteq Delayed(t) \cup {<<x, again.tries>>}
    <3>1. ASSUME NEW y \in Extractors, NEW r \in Tries, Message(t, r) \in timers'[y],
                 Message(t, r) \notin timers[y]
          PROVE  y = x /\ r = again.tries
      <4>1. y = x /\ Message(t, r) = again BY <1>6, <3>1
      <4>2. Message(t, r).tries = r BY <3>1, MessageFacts
      <4> QED BY <4>1, <4>2
    <3> QED BY <3>1 DEF Delayed
  <2>5. Moves(Delayed(t), Delayed(t)', 1) BY <2>4 DEF Moves
  <2>6. candidates'[t] + 0 + 0 + 1 + 0 + faults <= candidates[t] + faults'
    BY <1>2 DEF Typed, tables
  <2> QED BY <1>5, <1>7, <2>1, <2>3, <2>5, <2>6, Balance
<1>12. Paid' BY <1>11 DEF Paid
<1> QED BY <1>7, <1>8, <1>9, <1>10, <1>12

LEMMA TimerKeeps == ASSUME IntakeInv, NEW x \in Extractors, TimerFires(x) PROVE IntakeInv'
<1> USE DEF IntakeInv
<1>1. PICK m \in timers[x] :
        /\ timers' = [timers EXCEPT ![x] = @ \ {m}]
        /\ IF linked[x] THEN raw' = raw \cup {m} /\ forgotten' = forgotten
           ELSE forgotten' = forgotten \cup {m.story} /\ raw' = raw
        /\ UNCHANGED <<linked, faults, dead, tables, hand, work, byHand, abandoned, passed>>
  BY DEF TimerFires, control
<1>2. /\ m \in Messages /\ news[m.story] # None /\ m.story \in Stories /\ m.tries \in Tries
      /\ m = Message(m.story, m.tries)
  BY MessageFacts DEF Typed, Filed
<1>3. /\ \A y \in Extractors : timers'[y] \subseteq timers[y]
      /\ \A y \in Extractors : timers[y] \subseteq timers'[y] \cup {m}
      /\ m \notin timers'[x]
  BY <1>1 DEF Typed
<1>4. Typed' BY <1>1, <1>2 DEF Typed, tables
<1>5. Occupied' /\ Marked' BY <1>1 DEF Occupied, Marked, tables
<1>6. Filed' BY <1>1, <1>2, <1>3 DEF Filed, tables
<1>7. StoriesAccounted'
  <2>1. ASSUME NEW s \in Stories, Carried(s) PROVE Carried(s)' \/ s \in Recorded'
    <3>1. CASE s = m.story BY <1>1, <1>2, <3>1 DEF Carried, Recorded
    <3>2. CASE s # m.story BY <1>1, <1>3, <2>1, <3>2 DEF Carried
    <3> QED BY <3>1, <3>2
  <2>2. \A s \in Stories : Buried(s) => Buried(s)' BY <1>1 DEF Buried
  <2>3. news' = news /\ sent' = sent /\ passed' = passed /\ Recorded \subseteq Recorded'
    BY <1>1 DEF tables, Recorded
  <2> QED BY <2>1, <2>2, <2>3, StayAccounted
<1>8. ASSUME NEW t \in Stories
      PROVE  (Cardinality(Saving(t)) + Cardinality(Queued(t)) + Cardinality(Delayed(t))
                + Cardinality(Handled(t)) + candidates[t] <= 1 + faults)'
  <2>1. Moves(Saving(t), Saving(t)', 0) /\ Moves(Handled(t), Handled(t)', 0)
    BY <1>1, TokensKept
  <2>2. Out' = Out BY <1>1 DEF Out
  <2>3. CASE t # m.story
    <3>1. Queued(t)' \subseteq Queued(t) BY <1>1, <2>2, <2>3, MessageFacts DEF Queued
    <3>2. Delayed(t)' \subseteq Delayed(t) BY <1>3 DEF Delayed
    <3>3. Moves(Queued(t), Queued(t)', 0) /\ Moves(Delayed(t), Delayed(t)', 0)
      BY <3>1, <3>2 DEF Moves
    <3>4. candidates'[t] + 0 + 0 + 0 + 0 + faults <= candidates[t] + faults'
      BY <1>1 DEF Typed, tables
    <3> QED BY <1>4, <2>1, <3>3, <3>4, Balance
  <2>4. CASE t = m.story
    <3>1. Queued(t)' \subseteq Queued(t) \cup {m.tries}
      <4>1. ASSUME NEW r \in Tries, Message(t, r) = m PROVE r = m.tries
        BY <4>1, MessageFacts
      <4> QED BY <1>1, <2>2, <4>1 DEF Queued
    <3>2. <<x, m.tries>> \in Delayed(t) /\ Delayed(t)' \subseteq Delayed(t) \ {<<x, m.tries>>}
      BY <1>2, <1>3, <2>4 DEF Delayed
    <3>3. Moves(Queued(t), Queued(t)', 1) /\ Moves(Delayed(t), Delayed(t)', -1)
      BY <3>1, <3>2 DEF Moves
    <3>4. candidates'[t] + 0 + 1 + -1 + 0 + faults <= candidates[t] + faults'
      BY <1>1 DEF Typed, tables
    <3> QED BY <1>4, <2>1, <3>3, <3>4, Balance
  <2> QED BY <2>3, <2>4
<1>9. Paid' BY <1>8 DEF Paid
<1> QED BY <1>4, <1>5, <1>6, <1>7, <1>9

\* A channel closes, or nothing of this happens.
LEMMA DisconnectKeeps ==
  ASSUME IntakeInv, UNCHANGED <<queues, tables, hand, work, history>>,
         \/ UNCHANGED <<linked, faults>>
         \/ \E w \in Workers : linked' = [linked EXCEPT ![w] = FALSE] /\ faults' = faults + 1
  PROVE  IntakeInv'
<1> USE DEF IntakeInv
<1>1. PICK w : \/ UNCHANGED <<linked, faults>>
               \/ linked' = [linked EXCEPT ![w] = FALSE] /\ faults' = faults + 1
  OBVIOUS
<1>2. Typed'
  <2>1. linked \in [Workers -> BOOLEAN] /\ faults \in Nat BY DEF Typed
  <2>2. linked' = [linked EXCEPT ![w] = FALSE] => linked' \in [Workers -> BOOLEAN] BY <2>1
  <2>3. faults' = faults + 1 => faults' \in Nat BY <2>1
  <2>4. linked' \in [Workers -> BOOLEAN] /\ faults' \in Nat BY <1>1, <2>1, <2>2, <2>3
  <2> QED BY <2>4 DEF Typed, queues, tables
<1>3. Occupied' /\ Filed' /\ Marked' /\ StoriesAccounted'
  BY DEF Occupied, Filed, Marked, StoriesAccounted, Carried, Buried, queues, tables, history
<1>4. ASSUME NEW t \in Stories
      PROVE  (Cardinality(Saving(t)) + Cardinality(Queued(t)) + Cardinality(Delayed(t))
                + Cardinality(Handled(t)) + candidates[t] <= 1 + faults)'
  <2>1. /\ Moves(Saving(t), Saving(t)', 0) /\ Moves(Delayed(t), Delayed(t)', 0)
        /\ Moves(Handled(t), Handled(t)', 0)
    BY TokensKept DEF queues
  <2>2. CASE UNCHANGED <<linked, faults>>
    <3>1. Out \subseteq Out' BY <2>2 DEF Out
    <3>2. Moves(Queued(t), Queued(t)', 0) BY <3>1, TokensKept DEF queues
    <3>3. candidates'[t] + 0 + 0 + 0 + 0 + faults <= candidates[t] + faults'
      BY <2>2 DEF Typed, tables
    <3> QED BY <1>2, <2>1, <3>2, <3>3, Balance
  <2>3. CASE linked' = [linked EXCEPT ![w] = FALSE] /\ faults' = faults + 1
    <3>1. \A y \in Extractors : y # w => linked'[y] = linked[y] BY <2>3 DEF Typed, Workers
    <3>2. Out \subseteq Out' \cup {work[w].msg} BY <3>1 DEF Out
    <3>3. Queued(t)' \subseteq Queued(t) \cup {work[w].msg.tries}
      <4>1. ASSUME NEW r \in Tries, Message(t, r) = work[w].msg PROVE r = work[w].msg.tries
        BY <4>1, MessageFacts
      <4> QED BY <3>2, <4>1 DEF Queued, queues
    <3>4. Moves(Queued(t), Queued(t)', 1) BY <3>3 DEF Moves
    <3>5. candidates'[t] + 0 + 1 + 0 + 0 + faults <= candidates[t] + faults'
      BY <2>3 DEF Typed, tables
    <3> QED BY <1>2, <2>1, <3>4, <3>5, Balance
  <2> QED BY <1>1, <2>2, <2>3
<1>5. Paid' BY <1>4 DEF Paid
<1> QED BY <1>2, <1>3, <1>5

LEMMA DieKeeps == ASSUME IntakeInv, NEW x \in Extractors, Die(x) PROVE IntakeInv'
<1> USE DEF IntakeInv
<1>1. PICK m : m = work[x].msg OBVIOUS
<1>2. /\ UNCHANGED <<raw, dead, tables, byHand, passed, hand, abandoned>>
      /\ linked' = [linked EXCEPT ![x] = TRUE] /\ timers' = [timers EXCEPT ![x] = {}]
      /\ work' = [work EXCEPT ![x] = Idle]
      /\ forgotten' = forgotten \cup {n.story : n \in timers[x]}
      /\ (~linked[x] /\ faults' = faults) \/ faults' = faults + 1
  BY DEF Die, CrashExtractor, Reborn, Stuck
<1>3. /\ \A y \in Extractors : linked'[y] = linked[y] \/ y = x
      /\ linked' \in [Workers -> BOOLEAN]
  BY <1>2 DEF Typed, Workers
<1>4. /\ work' \in [Extractors -> WorkRecords] /\ work'[x].at = "idle"
      /\ \A y \in Extractors : y # x => work'[y] = work[y]
      /\ \A s : Moves(Handled(s), Handled(s)', 0)
      /\ Out \subseteq Out' \cup {m} /\ (~linked[x] => Out \subseteq Out')
  BY <1>1, <1>2, <1>3, LetGo
<1>5. /\ \A y \in Extractors : timers'[y] \subseteq timers[y]
      /\ \A y \in Extractors : y # x => timers'[y] = timers[y]
  BY <1>2 DEF Typed
<1>6. Typed' BY <1>2, <1>3, <1>4 DEF Typed, tables
<1>7. Occupied' /\ Marked' BY <1>2, <1>4 DEF Occupied, Marked, tables
<1>8. Filed' BY <1>2, <1>4, <1>5 DEF Filed, tables
<1>9. StoriesAccounted'
  <2>1. ASSUME NEW s \in Stories, Carried(s) PROVE Carried(s)' \/ s \in Recorded'
    BY <1>2, <1>5, <2>1 DEF Carried, Recorded
  <2>2. \A s \in Stories : Buried(s) => Buried(s)' BY <1>2 DEF Buried
  <2>3. news' = news /\ sent' = sent /\ passed' = passed /\ Recorded \subseteq Recorded'
    BY <1>2 DEF tables, Recorded
  <2> QED BY <2>1, <2>2, <2>3, StayAccounted
<1>10. ASSUME NEW t \in Stories
       PROVE  (Cardinality(Saving(t)) + Cardinality(Queued(t)) + Cardinality(Delayed(t))
                 + Cardinality(Handled(t)) + candidates[t] <= 1 + faults)'
  <2>1. Moves(Saving(t), Saving(t)', 0) BY <1>2, TokensKept
  <2>2. Delayed(t)' \subseteq Delayed(t) BY <1>5 DEF Delayed
  <2>3. Moves(Delayed(t), Delayed(t)', 0) BY <2>2 DEF Moves
  <2>4. CASE ~linked[x] /\ faults' = faults
    <3>1. Moves(Queued(t), Queued(t)', 0) BY <1>2, <1>4, <2>4, TokensKept
    <3>2. candidates'[t] + 0 + 0 + 0 + 0 + faults <= candidates[t] + faults'
      BY <1>2, <2>4 DEF Typed, tables
    <3> QED BY <1>4, <1>6, <2>1, <2>3, <3>1, <3>2, Balance
  <2>5. CASE faults' = faults + 1
    <3>1. Queued(t)' \subseteq Queued(t) \cup {m.tries}
      <4>1. ASSUME NEW r \in Tries, Message(t, r) = m PROVE r = m.tries
        BY <4>1, MessageFacts
      <4> QED BY <1>2, <1>4, <4>1 DEF Queued
    <3>2. Moves(Queued(t), Queued(t)', 1) BY <3>1 DEF Moves
    <3>3. candidates'[t] + 0 + 1 + 0 + 0 + faults <= candidates[t] + faults'
      BY <1>2, <2>5 DEF Typed, tables
    <3> QED BY <1>4, <1>6, <2>1, <2>3, <3>2, <3>3, Balance
  <2> QED BY <1>2, <2>4, <2>5
<1>11. Paid' BY <1>10 DEF Paid
<1> QED BY <1>6, <1>7, <1>8, <1>9, <1>11

(***************************************************************************)
(* The theorems.                                                           *)
(***************************************************************************)

LEMMA IntakeStarts == ASSUME Init PROVE IntakeInv
<1>1. Typed
  BY DEF Init, Typed, HandRecords, Empty, WorkRecords
<1>2. Occupied /\ Filed /\ Marked
  BY DEF Init, Occupied, Filed, Marked, Empty, Idle, Savers
<1>3. StoriesAccounted BY DEF Init, StoriesAccounted, None
<1>4. Paid
  <2>1. ASSUME NEW s \in Stories
        PROVE  /\ Saving(s) = {} /\ Queued(s) = {} /\ Delayed(s) = {} /\ Handled(s) = {}
               /\ candidates[s] = 0 /\ faults = 0
    BY DEF Init, Saving, Queued, Delayed, Handled, Empty, Idle, Savers
  <2>2. Cardinality({}) = 0 BY FS_EmptySet
  <2> QED BY <2>1, <2>2 DEF Paid
<1> QED BY <1>1, <1>2, <1>3, <1>4 DEF IntakeInv

LEMMA IntakeStays == ASSUME IntakeInv, [Next]_vars PROVE IntakeInv'
<1>1. CASE UNCHANGED vars \/ \E t \in {"crawler", "extractor"} : Switch(t)
  <2>1. UNCHANGED <<queues, tables, hand, work, history, linked, faults>>
    BY <1>1 DEF vars, control, Switch
  <2> QED BY <2>1, DisconnectKeeps
<1>2. CASE \E w \in Workers : Heartbeat(w) \/ Disconnect(w)
  <2>1. UNCHANGED <<queues, tables, hand, work, history>> BY <1>2 DEF Heartbeat, Disconnect
  <2>2. \/ UNCHANGED <<linked, faults>>
        \/ \E w \in Workers : linked' = [linked EXCEPT ![w] = FALSE] /\ faults' = faults + 1
    BY <1>2 DEF Heartbeat, Disconnect
  <2> QED BY <2>1, <2>2, DisconnectKeeps
<1>3. CASE \E c \in Crawlers : Poll(c) \/ CrashCrawler(c) BY <1>3, PollMoves, CrawlerCrashes
<1>4. CASE Ingest BY <1>4, IngestMoves
<1>5. CASE \E c \in Savers : Crawl(c)
  BY <1>5, CheckMoves, SaveKeeps, PublishNewsKeeps DEF Crawl
<1>6. CASE \E x \in Extractors :
             Extract(x) \/ Decline(x) \/ Fail(x) \/ TimerFires(x) \/ Die(x)
  BY <1>6, BeginKeeps, ExtractKeeps, AckKeeps, DeclineKeeps, FailKeeps, TimerKeeps, DieKeeps
  DEF Extract
<1> QED BY <1>1, <1>2, <1>3, <1>4, <1>5, <1>6 DEF Next

LEMMA IntakeAlways == Spec => []IntakeInv
<1> QED BY IntakeStarts, IntakeStays, PTL DEF Spec

\* Whatever dies, closes, fails or is switched off and however often, a story on
\* file is on its way, in the dead letters, or among those known to be lost; the
\* extractor's mark is never ahead of the message it sends.
THEOREM StoriesAreAccounted == Spec => []StoriesAccounted
<1>1. ASSUME IntakeInv PROVE StoriesAccounted BY <1>1 DEF IntakeInv
<1> QED BY <1>1, IntakeAlways, PTL

\* However many crawlers and extractors run, the unique content hash makes one
\* candidate of a story, and each fault at most one more.
THEOREM CandidatesArePaid == Spec => []CandidatesExplained
<1>1. ASSUME IntakeInv PROVE CandidatesExplained
  <2>1. ASSUME NEW s \in Stories PROVE candidates[s] <= 1 + faults
    <3>1. PICK a, b, c, d :
            /\ a = Cardinality(Saving(s)) /\ b = Cardinality(Queued(s))
            /\ c = Cardinality(Delayed(s)) /\ d = Cardinality(Handled(s))
      OBVIOUS
    <3>2. a \in Nat /\ b \in Nat /\ c \in Nat /\ d \in Nat
      BY <3>1, TokensFinite, FS_CardinalityType
    <3>3. candidates[s] \in Nat /\ faults \in Nat BY <1>1 DEF IntakeInv, Typed
    <3>4. a + b + c + d + candidates[s] <= 1 + faults BY <1>1, <3>1 DEF IntakeInv, Paid
    <3> QED BY <3>2, <3>3, <3>4
  <2> QED BY <2>1 DEF CandidatesExplained
<1> QED BY <1>1, IntakeAlways, PTL
=============================================================================
