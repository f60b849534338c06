------------------------------- MODULE Intake -------------------------------
(* How news becomes candidates: crawlers that poll feeds, the admin route    *)
(* that files a story by hand, extractors that read news.raw, the switches   *)
(* of the admin page that workers learn of by heartbeat, and what breaks:    *)
(* processes that die, connections to RabbitMQ that close (nothing reopens   *)
(* them, the process goes on without), writes that fail.  A story is what    *)
(* the content hash tells apart.  What becomes of a candidate is module      *)
(* DraftPipeline.                                                            *)
EXTENDS Naturals, FiniteSets

CONSTANTS
  Stories,
  Forbidden,    \* those with a forbidden topic
  Plain,        \* those whose event type the keywords give away
  Crawlers,     \* polls under way: instances, or cycles of one that overlap
  Extractors,
  Api,          \* the handler of POST /admin/ingest
  MaxItems,     \* stories a poll takes up, MAX_ITEMS_PER_FEED
  Retries,      \* Len(RETRY_DELAYS)
  MaxFaults,    \* bound on faults
  MaxSwitches   \* bound on uses of the switches

Workers == Crawlers \cup Extractors
Savers == Crawlers \cup {Api}
None == "none"
ASSUME Apart == Api \notin Workers /\ Crawlers \cap Extractors = {} /\ None \notin Stories
ASSUME Instances == IsFiniteSet(Crawlers) /\ IsFiniteSet(Extractors) /\ Retries \in Nat

VARIABLES
  enabled,     \* worker_config.enabled of the two types
  believes,    \* isEnabled of each process, TRUE until a heartbeat says otherwise
  linked,      \* whether its channel is open
  news,        \* news_items.status
  hand,        \* of each poll and of the route: what it still has to save, and how far it is
  raw,         \* news.raw: messages, those out for delivery included
  timers,      \* retries waiting in a setTimeout of each extractor
  dead,        \* news.raw.dlq
  work,        \* the message each extractor handles and the next thing it does
  candidates,  \* rows per story
  sent,        \* candidate messages per story
  faults, switches,
  byHand,      \* history: stories the route inserted
  abandoned,   \* history: stories whose saver did not get from the row to the message
  forgotten,   \* history: stories whose retry was not published
  passed       \* history: stories no market was to be made of

control == <<enabled, believes, linked, faults, switches>>
queues == <<raw, timers, dead>>
tables == <<news, candidates, sent>>
history == <<byHand, abandoned, forgotten, passed>>
vars == <<control, queues, tables, hand, work, history>>

Messages == [story : Stories, tries : 0 .. Retries]
Empty == [at |-> "idle", todo |-> {}, story |-> None]
Idle == [at |-> "idle", msg |-> None]

Init ==
  /\ enabled = [t \in {"crawler", "extractor"} |-> TRUE]
  /\ believes = [w \in Workers |-> TRUE] /\ linked = [w \in Workers |-> TRUE]
  /\ news = [s \in Stories |-> None]
  /\ hand = [c \in Savers |-> Empty]
  /\ raw = {} /\ dead = {} /\ timers = [x \in Extractors |-> {}]
  /\ work = [x \in Extractors |-> Idle]
  /\ candidates = [s \in Stories |-> 0] /\ sent = [s \in Stories |-> 0]
  /\ faults = 0 /\ switches = 0
  /\ byHand = {} /\ abandoned = {} /\ forgotten = {} /\ passed = {}

-----------------------------------------------------------------------------
(* Switches and heartbeats. *)

Switch(t) ==
  /\ switches < MaxSwitches /\ switches' = switches + 1
  /\ enabled' = [enabled EXCEPT ![t] = ~@]
  /\ UNCHANGED <<believes, linked, faults, queues, tables, hand, work, history>>

Heartbeat(w) ==
  /\ believes' = [believes EXCEPT ![w] = enabled[IF w \in Crawlers THEN "crawler" ELSE "extractor"]]
  /\ UNCHANGED <<enabled, linked, faults, switches, queues, tables, hand, work, history>>

-----------------------------------------------------------------------------
(* Saving stories: the check, the insertion, the message. *)

\* A cycle of a crawler that is switched on (as far as it knows) and not told
\* that the hour is full; of each feed the newest items.
Poll(c) ==
  /\ hand[c] = Empty /\ believes[c]
  /\ \E todo \in SUBSET Stories : Cardinality(todo) <= MaxItems /\ todo # {}
       /\ hand' = [hand EXCEPT ![c] = [Empty EXCEPT !.at = "polling", !.todo = todo]]
  /\ UNCHANGED <<control, queues, tables, work, history>>

\* The route has one story to save.
Ingest ==
  /\ hand[Api] = Empty
  /\ \E s \in Stories :
       hand' = [hand EXCEPT ![Api] = [Empty EXCEPT !.at = "polling", !.todo = {s}]]
  /\ UNCHANGED <<control, queues, tables, work, history>>

\* On to the next story, if any.
After(h) == IF h.todo = {} THEN Empty ELSE [h EXCEPT !.at = "polling", !.story = None]

\* isDuplicate; a story that is there is skipped.
Check(c) ==
  /\ hand[c].at = "polling"
  /\ \E s \in hand[c].todo : LET left == [hand[c] EXCEPT !.todo = @ \ {s}] IN
       hand' = [hand EXCEPT ![c] =
                  IF news[s] = None THEN [left EXCEPT !.at = "checked", !.story = s]
                  ELSE After(left)]
  /\ UNCHANGED <<control, queues, tables, work, history>>

InsertedUnguarded(s) == TRUE   \* mutant
\* content_hash is unique: of two that found nothing, one inserts.
Inserted(s) == news[s] = None
Save(c) ==
  LET s == hand[c].story IN
  /\ hand[c].at = "checked"
  /\ IF Inserted(s)
     THEN /\ news' = [news EXCEPT ![s] = "ingested"]
          /\ hand' = [hand EXCEPT ![c] = IF c = Api THEN Empty ELSE [@ EXCEPT !.at = "saved"]]
          /\ byHand' = IF c = Api THEN byHand \cup {s} ELSE byHand
     ELSE hand' = [hand EXCEPT ![c] = After(@)] /\ UNCHANGED <<news, byHand>>
  /\ UNCHANGED <<control, queues, candidates, sent, work, abandoned, forgotten, passed>>

\* publishNewsRaw throws when the channel is gone, and the item is passed over.
PublishNews(c) ==
  LET s == hand[c].story IN
  /\ hand[c].at = "saved"
  /\ hand' = [hand EXCEPT ![c] = After(@)]
  /\ IF linked[c] THEN raw' = raw \cup {[story |-> s, tries |-> 0]} /\ UNCHANGED abandoned
     ELSE abandoned' = abandoned \cup {s} /\ UNCHANGED raw
  /\ UNCHANGED <<control, timers, dead, tables, work, byHand, forgotten, passed>>

-----------------------------------------------------------------------------
(* Extracting candidates. *)

Out == {work[x].msg : x \in {y \in Extractors : linked[y] /\ work[y].at # "idle"}}

\* prefetch(1): a message nobody else holds, to an extractor with none.
Free(x) == linked[x] /\ work[x].at = "idle"

Begin(x) ==
  /\ Free(x) /\ believes[x]
  /\ \E m \in raw \ Out : work' = [work EXCEPT ![x] = [at |-> "read", msg |-> m]]
  /\ UNCHANGED <<control, queues, tables, hand, history>>

BuriesNothing(m) == {}   \* mutant
\* What a rejected message leaves: news.raw has a queue of dead letters.
Buries(m) == {m}

DeclineRequeued(x) ==   \* mutant
  Free(x) /\ ~believes[x] /\ raw \ Out # {} /\ UNCHANGED vars
\* Switched off: nack(), which does not requeue.
Decline(x) ==
  /\ Free(x) /\ ~believes[x]
  /\ \E m \in raw \ Out : raw' = raw \ {m} /\ dead' = dead \cup Buries(m)
  /\ UNCHANGED <<control, timers, tables, hand, work, history>>

Step(x, from, to) == work[x].at = from /\ work' = [work EXCEPT ![x].at = to]

\* Forbidden topics are passed over; the language model is asked only when
\* the keywords say nothing, and its failure counts as a no.
Read(x) ==
  /\ work[x].at = "read"
  /\ LET s == work[x].msg.story IN
     \/ s \notin Forbidden /\ Step(x, "read", "save") /\ UNCHANGED passed
     \/ s \notin Plain \ Forbidden /\ Step(x, "read", "mark") /\ passed' = passed \cup {s}
  /\ UNCHANGED <<control, queues, tables, hand, byHand, abandoned, forgotten>>

SaveCandidate(x) ==
  /\ Step(x, "save", "publish")
  /\ candidates' = [candidates EXCEPT ![work[x].msg.story] = @ + 1]
  /\ UNCHANGED <<control, queues, news, sent, hand, history>>

PublishCandidate(x) ==
  /\ linked[x] /\ Step(x, "publish", "mark")
  /\ sent' = [sent EXCEPT ![work[x].msg.story] = @ + 1]
  /\ UNCHANGED <<control, queues, news, candidates, hand, history>>

Mark(x) ==
  /\ Step(x, "mark", "ack")
  /\ news' = [news EXCEPT ![work[x].msg.story] = "processed"]
  /\ UNCHANGED <<control, queues, candidates, sent, hand, history>>

Ack(x) ==
  /\ linked[x] /\ work[x].at = "ack"
  /\ raw' = raw \ {work[x].msg} /\ work' = [work EXCEPT ![x] = Idle]
  /\ UNCHANGED <<control, timers, dead, tables, hand, history>>

\* consumeQueue's catch: again later, or to the dead letters.
MayRetry(m) == m.tries < Retries
Fail(x) ==
  LET m == work[x].msg IN
  /\ linked[x] /\ work[x].at \in {"save", "mark"}
  /\ faults < MaxFaults /\ faults' = faults + 1
  /\ work' = [work EXCEPT ![x] = Idle] /\ raw' = raw \ {m}
  /\ IF MayRetry(m)
     THEN timers' = [timers EXCEPT ![x] = @ \cup {[m EXCEPT !.tries = @ + 1]}] /\ UNCHANGED dead
     ELSE dead' = dead \cup Buries(m) /\ UNCHANGED timers
  /\ UNCHANGED <<enabled, believes, linked, switches, tables, hand, history>>

\* The timer of a retry; without a channel the error is logged.
TimerFires(x) ==
  \E m \in timers[x] :
    /\ timers' = [timers EXCEPT ![x] = @ \ {m}]
    /\ IF linked[x] THEN raw' = raw \cup {m} /\ UNCHANGED forgotten
       ELSE forgotten' = forgotten \cup {m.story} /\ UNCHANGED raw
    /\ UNCHANGED <<control, dead, tables, hand, work, byHand, abandoned, passed>>

-----------------------------------------------------------------------------
(* Faults. *)

\* The broker takes back what was out; the process goes on.
Disconnect(w) ==
  /\ linked[w] /\ faults < MaxFaults /\ faults' = faults + 1
  /\ linked' = [linked EXCEPT ![w] = FALSE]
  /\ UNCHANGED <<enabled, believes, switches, queues, tables, hand, work, history>>

\* The process dies and is started again: believed enabled, connected.
Reborn(w) ==
  /\ believes' = [believes EXCEPT ![w] = TRUE] /\ linked' = [linked EXCEPT ![w] = TRUE]
  /\ UNCHANGED <<enabled, switches, raw, dead, tables, byHand, passed>>

CrashCrawler(c) ==
  /\ faults < MaxFaults /\ faults' = faults + 1 /\ Reborn(c)
  /\ abandoned' = IF hand[c].at = "saved" THEN abandoned \cup {hand[c].story} ELSE abandoned
  /\ hand' = [hand EXCEPT ![c] = Empty]
  /\ UNCHANGED <<timers, work, forgotten>>

CrashExtractor(x) ==
  /\ Reborn(x)
  /\ forgotten' = forgotten \cup {m.story : m \in timers[x]}
  /\ timers' = [timers EXCEPT ![x] = {}]
  /\ work' = [work EXCEPT ![x] = Idle]
  /\ UNCHANGED <<hand, abandoned>>

\* An extractor without a channel comes to an end where it would use it: the
\* rejection of consumeQueue's callback is handled by nobody.
Stuck(x) == ~linked[x] /\ work[x].at \in {"publish", "ack"}
Die(x) ==
  \/ ~Stuck(x) /\ faults < MaxFaults /\ faults' = faults + 1 /\ CrashExtractor(x)
  \/ Stuck(x) /\ CrashExtractor(x) /\ UNCHANGED faults

Crawl(c) == Check(c) \/ Save(c) \/ PublishNews(c)
Extract(x) ==
  Begin(x) \/ Read(x) \/ SaveCandidate(x) \/ PublishCandidate(x) \/ Mark(x) \/ Ack(x)

Next ==
  \/ \E t \in {"crawler", "extractor"} : Switch(t)
  \/ \E w \in Workers : Heartbeat(w) \/ Disconnect(w)
  \/ \E c \in Crawlers : Poll(c) \/ CrashCrawler(c)
  \/ Ingest \/ \E c \in Savers : Crawl(c)
  \/ \E x \in Extractors : Extract(x) \/ Decline(x) \/ Fail(x) \/ TimerFires(x) \/ Die(x)

\* Handlers go on once begun, the broker delivers and timers fire.  Polls,
\* switches and faults come as they please.
Fairness ==
  /\ \A c \in Savers : WF_vars(Crawl(c))
  /\ \A x \in Extractors : /\ WF_vars(Extract(x)) /\ WF_vars(Decline(x))
                           /\ WF_vars(TimerFires(x)) /\ WF_vars(Stuck(x) /\ Die(x))
Spec == Init /\ [][Next]_vars /\ Fairness

-----------------------------------------------------------------------------
Carried(s) ==
  \/ \E c \in Crawlers : hand[c].at = "saved" /\ hand[c].story = s
  \/ \E m \in Messages : m.story = s /\ (m \in raw \/ \E x \in Extractors : m \in timers[x])
Buried(s) == \E m \in dead : m.story = s

\* A story on file is on its way or in the dead letters, unless it was filed
\* by hand (the route queues nothing) or its message was lost with a process or
\* a channel.  One marked processed was passed over, or its candidate is queued:
\* the mark never runs ahead of the message.
StoriesAccounted ==
  \A s \in Stories :
    /\ news[s] = "ingested" => Carried(s) \/ Buried(s) \/ s \in byHand \cup abandoned \cup forgotten
    /\ news[s] = "processed" => s \in passed \/ sent[s] > 0

\* Two candidates of one story, and so two markets about one event, take a
\* fault: crawlers that race and polls that overlap do not make them.
CandidatesExplained == \A s \in Stories : candidates[s] <= 1 + faults

\* While the channels hold, whatever is queued is processed or buried, or dies
\* with a retry.
StoriesSettle ==
  <>[](\A x \in Extractors : linked[x]) =>
    \A s \in Stories : [](Carried(s) => <>(news[s] = "processed" \/ Buried(s)
                                            \/ s \in abandoned \cup forgotten))
=============================================================================
