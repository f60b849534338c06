---------------------------- MODULE DraftPipeline ----------------------------
(***************************************************************************)
(* From candidate to market: the generator, validator and publisher        *)
(* workers (src/workers/src), the RabbitMQ queues between them and the     *)
(* tables ai_markets and proposals they share.                             *)
(*                                                                         *)
(* A worker is one process consuming one queue with prefetch(1).  Its      *)
(* handler is split at every write, so that another process may run, the   *)
(* handler may throw, and the process may lose its connection or die       *)
(* between two writes.  What the language model answers is a free choice.  *)
(* A message is the id it is about and its x-retry-count; a queue is a     *)
(* bag, because redelivery may put two copies of a message in it and       *)
(* requeueing breaks its order.                                            *)
(***************************************************************************)
EXTENDS Naturals, FiniteSets, Bags

CONSTANTS
  Candidates,     \* what the extractor or a user submits
  FromNews,       \* the candidates from news: the others are user proposals
  MaxTries,       \* RETRY_DELAYS.length
  PublishLimit,   \* rate_limits.auto_publish_per_hour
  Delay,          \* processing_delay_ms > 0
  Switchable,     \* the workers the admin panel switches on and off
  MaxDrafts,      \* bound on the rows of ai_markets
  MaxStops,       \* bound on deaths of worker processes and lost connections
  None

Workers == {"generator", "validator", "publisher"}

ASSUME FromNewsAssumption == FromNews \subseteq Candidates
ASSUME SwitchesAssumption == Delay \in BOOLEAN /\ Switchable \subseteq Workers
ASSUME BoundsAssumption ==
  /\ MaxTries \in Nat /\ PublishLimit \in Nat
  /\ MaxDrafts \in Nat /\ MaxStops \in Nat
ASSUME NoneAssumption == None \notin Candidates

Drafts == 1 .. MaxDrafts
Rulings == {"approved", "rejected", "needs_human"}

Ids(w) == IF w = "generator" THEN Candidates ELSE Drafts
Messages(w) == [id : Ids(w), tries : 0 .. MaxTries]

VARIABLES
  queue,      \* what RabbitMQ holds for each worker
  timers,     \* retries waiting in a setTimeout of the worker's process
  dead,       \* the dead-letter queues
  job,        \* the message each worker handles and how far it is
  enabled,    \* isEnabled, from the last heartbeat
  resting,    \* the workers with a handler asleep in applyProcessingDelay
  linked,     \* the workers whose process has its connection and channel
  origin,     \* ai_markets: the candidate of each draft, None if no such row
  status,     \* ai_markets.status; "resolving" is that and all that follows
  published,  \* the drafts whose market_address is set
  fresh,      \* those with a published_at within the last hour
  proposal,   \* proposals.status of the candidates of users
  sent,       \* the candidates whose message reached the queue
  onChain,    \* how many markets the chain holds for each draft
  stops,      \* how many deaths and lost connections there were
  redone,     \* history: ids whose handler was cut off too late to repeat
  forgotten   \* history: candidates whose retry was lost with process or channel

queues == <<queue, timers, dead>>
workers == <<job, enabled, resting, linked>>
tables == <<origin, status, published, fresh, proposal>>
history == <<stops, redone, forgotten>>
vars == <<queues, workers, tables, sent, onChain, history>>

-----------------------------------------------------------------------------
(* The handlers.  A job is the message a handler is given, the next write it   *)
(* will make, the draft the generator inserted and the validator's ruling.     *)

Idle == [msg |-> None, at |-> "idle", draft |-> None, ruling |-> None]

First == [generator |-> "generate", validator |-> "judge", publisher |-> "check"]

AfterForwardFirst ==
  [generator |-> [generate |-> "send", send |-> "ack"],
   validator |-> [judge |-> "forward", forward |-> "tell", tell |-> "ack"],
   publisher |-> [check |-> "create", create |-> "record", record |-> "tell",
                  tell |-> "log", log |-> "ack"]]

\* The order of a handler's writes.
After ==
  [generator |-> [generate |-> "send", send |-> "ack"],
   validator |-> [judge |-> "tell", tell |-> "forward", forward |-> "ack"],
   publisher |-> [check |-> "create", create |-> "record", record |-> "tell",
                  tell |-> "log", log |-> "ack"]]

Steps(w) == DOMAIN After[w] \cup {"ack"}

Jobs(w) == [msg : Messages(w), at : Steps(w),
            draft : Drafts \cup {None}, ruling : Rulings \cup {None}]

Hold(q) ==
  /\ DOMAIN q = Workers
  /\ \A w \in Workers : IsABag(q[w]) /\ BagToSet(q[w]) \subseteq Messages(w)

TypeOK ==
  /\ Hold(queue) /\ Hold(timers) /\ Hold(dead)
  /\ DOMAIN job = Workers
  /\ \A w \in Workers : job[w] = Idle \/ job[w] \in Jobs(w)
  /\ enabled \subseteq Workers /\ resting \subseteq Workers /\ linked \subseteq Workers
  /\ origin \in [Drafts -> Candidates \cup {None}]
  /\ status \in [Drafts -> {"none", "draft", "active", "canceled",
                            "pending_review", "rate_limited", "resolving"}]
  /\ fresh \subseteq published /\ published \subseteq Drafts
  /\ proposal \in [Candidates \ FromNews ->
                     {"none", "pending", "processing", "published"} \cup Rulings]
  /\ sent \subseteq Candidates /\ forgotten \subseteq Candidates
  /\ onChain \in [Drafts -> Nat]
  /\ stops \in 0 .. MaxStops
  /\ redone \in [Workers -> SUBSET (Candidates \cup Drafts)]

Init ==
  /\ queue = [w \in Workers |-> EmptyBag]
  /\ timers = [w \in Workers |-> EmptyBag]
  /\ dead = [w \in Workers |-> EmptyBag]
  /\ job = [w \in Workers |-> Idle]
  /\ enabled = Workers /\ resting = {} /\ linked = Workers
  /\ origin = [d \in Drafts |-> None]
  /\ status = [d \in Drafts |-> "none"]
  /\ published = {} /\ fresh = {}
  /\ proposal = [c \in Candidates \ FromNews |-> "none"]
  /\ sent = {}
  /\ onChain = [d \in Drafts |-> 0]
  /\ stops = 0
  /\ redone = [w \in Workers |-> {}]
  /\ forgotten = {}
-----------------------------------------------------------------------------
(* Messages. *)

Put(q, w, m) == [q EXCEPT ![w] = @ (+) SetToBag({m})]
Remove(q, w, m) == [q EXCEPT ![w] = @ (-) SetToBag({m})]

\* publishMessage: a new message has no x-retry-count.
Publish(w, id) == Put(queue, w, [id |-> id, tries |-> 0])

About(w, m) == IF w = "generator" THEN m.id ELSE origin[m.id]

\* The messages a worker's side of the system still holds.
Held(w) == BagToSet(queue[w]) \cup BagToSet(timers[w]) \cup
           (IF job[w] = Idle THEN {} ELSE {job[w].msg})

At(w, step) == job[w].at = step
GoTo(w, step) == job' = [job EXCEPT ![w].at = step]
Onward(w) == GoTo(w, After[w][job[w].at])
-----------------------------------------------------------------------------
(* The consumer loop of queue.ts, common to the workers. *)

Take(w) ==
  /\ job[w] = Idle /\ w \in linked \cap enabled
  /\ \E m \in BagToSet(queue[w]) :
       /\ queue' = Remove(queue, w, m)
       /\ job' = [job EXCEPT ![w] = [Idle EXCEPT !.msg = m, !.at = First[w]]]
  /\ UNCHANGED <<timers, dead, enabled, resting, linked, tables, sent, onChain,
                 history>>

\* nack() leaves requeue at its default, false: RabbitMQ dead-letters.
TakeDisabled(w) ==
  /\ job[w] = Idle /\ w \in linked \ enabled
  /\ \E m \in BagToSet(queue[w]) :
       /\ queue' = Remove(queue, w, m)
       /\ dead' = Put(dead, w, m)
  /\ UNCHANGED <<timers, workers, tables, sent, onChain, history>>

\* The handler is done; the generator and the validator then sleep, but the
\* message is acknowledged and the next one may arrive.
Ack(w) ==
  /\ At(w, "ack") /\ w \in linked
  /\ job' = [job EXCEPT ![w] = Idle]
  /\ resting' = IF Delay /\ w # "publisher" THEN resting \cup {w} ELSE resting
  /\ UNCHANGED <<queues, enabled, linked, tables, sent, onChain, history>>

Rested(w) ==
  /\ w \in resting
  /\ resting' = resting \ {w}
  /\ UNCHANGED <<queues, job, enabled, linked, tables, sent, onChain, history>>

\* Where a handler that is cut off will do something twice when it runs again.
TooLate(w) ==
  \/ w = "generator" /\ job[w].at \in {"send", "ack"}
  \/ w = "validator" /\ job[w].at = "ack"
  \/ w = "publisher" /\ job[w].at \in {"record", "tell"}

CutOff(w) ==
  redone' = [redone EXCEPT ![w] = IF TooLate(w) THEN @ \cup {job[w].msg.id} ELSE @]

FailSilently(w) ==
  /\ job[w] # Idle /\ job[w].at # "ack" /\ w \in linked
  /\ timers' = IF job[w].msg.tries >= MaxTries THEN timers
               ELSE Put(timers, w, [job[w].msg EXCEPT !.tries = @ + 1])
  /\ job' = [job EXCEPT ![w] = Idle]
  /\ CutOff(w)
  /\ UNCHANGED <<queue, dead, enabled, resting, linked, tables, sent, onChain,
                 stops, forgotten>>

FailForEver(w) ==
  /\ job[w] # Idle /\ job[w].at # "ack" /\ w \in linked
  /\ timers' = Put(timers, w, job[w].msg)
  /\ job' = [job EXCEPT ![w] = Idle]
  /\ CutOff(w)
  /\ UNCHANGED <<queue, dead, enabled, resting, linked, tables, sent, onChain,
                 stops, forgotten>>

FailOnceMore(w) ==
  /\ job[w] # Idle /\ job[w].at # "ack" /\ w \in linked
  /\ job[w].msg.tries <= MaxTries
  /\ timers' = Put(timers, w, [job[w].msg EXCEPT !.tries = @ + 1])
  /\ job' = [job EXCEPT ![w] = Idle]
  /\ CutOff(w)
  /\ UNCHANGED <<queue, dead, enabled, resting, linked, tables, sent, onChain,
                 stops, forgotten>>

\* The handler throws before its next write: the model, the database, the chain
\* or the broker failed it.  The message is acknowledged and a timer of the
\* process will publish it again, until it has been tried often enough.
Fail(w) ==
  /\ job[w] # Idle /\ job[w].at # "ack" /\ w \in linked
  /\ \/ /\ job[w].msg.tries < MaxTries
        /\ timers' = Put(timers, w, [job[w].msg EXCEPT !.tries = @ + 1])
        /\ dead' = dead
     \/ /\ job[w].msg.tries >= MaxTries
        /\ dead' = Put(dead, w, job[w].msg)
        /\ timers' = timers
  /\ job' = [job EXCEPT ![w] = Idle]
  /\ CutOff(w)
  /\ UNCHANGED <<queue, enabled, resting, linked, tables, sent, onChain, stops,
                 forgotten>>

\* A timer fires; without a channel publishMessage throws, and that is logged.
Retry(w) ==
  \E m \in BagToSet(timers[w]) :
    /\ timers' = Remove(timers, w, m)
    /\ \/ /\ w \in linked
          /\ queue' = Put(queue, w, m)
          /\ UNCHANGED forgotten
       \/ /\ w \notin linked
          /\ forgotten' = forgotten \cup {About(w, m)}
          /\ UNCHANGED queue
    /\ UNCHANGED <<dead, workers, tables, sent, onChain, stops, redone>>

\* The connection closes and nothing opens it again: the process lives on, but
\* is delivered nothing.  What it did not acknowledge is back in the queue at
\* once; as nobody else consumes it, Restart may put it there.
Disconnect(w) ==
  /\ w \in linked
  /\ stops < MaxStops /\ stops' = stops + 1
  /\ linked' = linked \ {w}
  /\ UNCHANGED <<queues, job, enabled, resting, tables, sent, onChain, redone,
                 forgotten>>

\* The process dies and another starts: the broker redelivers what was not
\* acknowledged, the timers are gone, and isEnabled is true again.
Restart(w) ==
  /\ queue' = IF job[w] = Idle THEN queue
              ELSE Put(queue, w, job[w].msg)
  /\ timers' = [timers EXCEPT ![w] = EmptyBag]
  /\ forgotten' = forgotten \cup {About(w, m) : m \in BagToSet(timers[w])}
  /\ job' = [job EXCEPT ![w] = Idle]
  /\ enabled' = enabled \cup {w}
  /\ resting' = resting \ {w}
  /\ linked' = linked \cup {w}
  /\ CutOff(w)
  /\ UNCHANGED <<dead, tables, sent, onChain>>

\* A process may die at any time.  One that handles a message without a channel
\* dies of the first exception, its own or that of the acknowledgement: the
\* acknowledgement after the error throws too, and nobody catches it.
Stop(w) ==
  /\ \/ stops < MaxStops /\ stops' = stops + 1
     \/ w \notin linked /\ job[w] # Idle /\ UNCHANGED stops
  /\ Restart(w)

\* A heartbeat brings what the admin panel says of the worker.
Heartbeat(w) ==
  /\ w \in Switchable
  /\ enabled' \in {enabled \cup {w}, enabled \ {w}}
  /\ UNCHANGED <<queues, job, resting, linked, tables, sent, onChain, history>>
-----------------------------------------------------------------------------
(* Submissions: the route /propose, and what the extractor sends. *)

Propose(c) ==
  /\ c \notin FromNews /\ proposal[c] = "none"
  /\ proposal' = [proposal EXCEPT ![c] = "pending"]
  /\ UNCHANGED <<queues, workers, origin, status, published, fresh, sent, onChain, history>>

StartProcessing(c) ==
  /\ c \notin FromNews /\ proposal[c] = "pending"
  /\ proposal' = [proposal EXCEPT ![c] = "processing"]
  /\ UNCHANGED <<queues, workers, origin, status, published, fresh, sent, onChain, history>>

PublishCandidate(c) ==
  /\ c \notin sent
  /\ c \notin FromNews => proposal[c] = "processing"
  /\ queue' = Publish("generator", c)
  /\ sent' = sent \cup {c}
  /\ UNCHANGED <<timers, dead, workers, tables, onChain, history>>
-----------------------------------------------------------------------------
(* generator.ts: processCandidate. *)

Generate ==
  /\ At("generator", "generate")
  /\ \E d \in Drafts :
       /\ origin[d] = None
       /\ \A e \in 1 .. d - 1 : origin[e] # None
       /\ origin' = [origin EXCEPT ![d] = job["generator"].msg.id]
       /\ status' = [status EXCEPT ![d] = "draft"]
       /\ job' = [job EXCEPT !["generator"].at = After.generator.generate,
                             !["generator"].draft = d]
  /\ UNCHANGED <<queues, enabled, resting, linked, published, fresh, proposal,
                 sent, onChain, history>>

PublishDraftValidate ==
  /\ At("generator", "send") /\ "generator" \in linked
  /\ queue' = Publish("validator", job["generator"].draft)
  /\ Onward("generator")
  /\ UNCHANGED <<timers, dead, enabled, resting, linked, tables, sent, onChain,
                 history>>
-----------------------------------------------------------------------------
(* validator.ts: processValidation, which never looks at the status of the draft. *)

StatusOf(ruling) ==
  CASE ruling = "approved" -> "active"
    [] ruling = "rejected" -> "canceled"
    [] ruling = "needs_human" -> "pending_review"

Judge ==
  /\ At("validator", "judge")
  /\ \E r \in Rulings :
       /\ status' = [status EXCEPT ![job["validator"].msg.id] = StatusOf(r)]
       /\ job' = [job EXCEPT !["validator"].at = After.validator.judge,
                             !["validator"].ruling = r]
  /\ UNCHANGED <<queues, enabled, resting, linked, origin, published, fresh, proposal,
                 sent, onChain, history>>

\* Both the validator and the publisher tell the proposal, if there is one.
TellProposal(w, news) ==
  LET c == origin[job[w].msg.id] IN
  /\ At(w, "tell")
  /\ proposal' = IF c \in FromNews THEN proposal ELSE [proposal EXCEPT ![c] = news]
  /\ Onward(w)
  /\ UNCHANGED <<queues, enabled, resting, linked, origin, status, published, fresh,
                 sent, onChain, history>>

Forward ==
  /\ At("validator", "forward")
  /\ \/ /\ job["validator"].ruling = "approved" /\ "validator" \in linked
        /\ queue' = Publish("publisher", job["validator"].msg.id)
     \/ /\ job["validator"].ruling # "approved"
        /\ UNCHANGED queue
  /\ Onward("validator")
  /\ UNCHANGED <<timers, dead, enabled, resting, linked, tables, sent, onChain,
                 history>>
-----------------------------------------------------------------------------
(* publisher.ts: processPublish, and canAutoPublish of config.ts. *)

IsAuto(d) == origin[d] \in FromNews

AutoPublishCount ==
  Cardinality({d \in fresh : IsAuto(d) /\ status[d] = "active"})

CanAutoPublishOneMore == AutoPublishCount <= PublishLimit
CanAutoPublish == AutoPublishCount < PublishLimit

CheckLimitOnly ==
  LET d == job["publisher"].msg.id IN
  /\ At("publisher", "check")
  /\ ~IsAuto(d) \/ CanAutoPublish
  /\ Onward("publisher")
  /\ UNCHANGED <<queues, enabled, resting, linked, tables, sent, onChain, history>>

Check ==
  LET d == job["publisher"].msg.id IN
  /\ At("publisher", "check")
  /\ \/ /\ d \in published
        /\ GoTo("publisher", "ack")
        /\ status' = status
     \/ /\ d \notin published /\ IsAuto(d) /\ ~CanAutoPublish
        /\ status' = [status EXCEPT ![d] = "rate_limited"]
        /\ GoTo("publisher", "ack")
     \/ /\ d \notin published
        /\ ~IsAuto(d) \/ CanAutoPublish
        /\ Onward("publisher")
        /\ status' = status
  /\ UNCHANGED <<queues, enabled, resting, linked, origin, published, fresh, proposal,
                 sent, onChain, history>>

\* rpc() may throw after the transaction has landed: that is Fail at "record".
CreateMarket ==
  /\ At("publisher", "create")
  /\ onChain' = [onChain EXCEPT ![job["publisher"].msg.id] = @ + 1]
  /\ Onward("publisher")
  /\ UNCHANGED <<queues, enabled, resting, linked, tables, sent, history>>

Record ==
  LET d == job["publisher"].msg.id IN
  /\ At("publisher", "record")
  /\ published' = published \cup {d}
  /\ fresh' = fresh \cup {d}
  /\ status' = [status EXCEPT ![d] = "active"]
  /\ Onward("publisher")
  /\ UNCHANGED <<queues, enabled, resting, linked, origin, proposal, sent,
                 onChain, history>>

WriteLog ==
  /\ At("publisher", "log")
  /\ Onward("publisher")
  /\ UNCHANGED <<queues, enabled, resting, linked, tables, sent, onChain, history>>

\* An hour after its publication a draft leaves the count; one that somebody
\* proposed never was in it, and its age is not followed.
HourPasses(d) ==
  /\ d \in fresh /\ IsAuto(d)
  /\ fresh' = fresh \ {d}
  /\ UNCHANGED <<queues, workers, origin, status, published, proposal, sent, onChain, history>>

\* A published draft leaves the status the limit counts: the scheduler finds it
\* past its expiry, or a worker reports its result (checkMarketsForResolution,
\* worker/resolutions.ts).  It never comes back (ResolutionLifecycle).
Expire(d) ==
  /\ d \in published /\ status[d] = "active"
  /\ status' = [status EXCEPT ![d] = "resolving"]
  /\ UNCHANGED <<queues, workers, origin, published, fresh, proposal, sent, onChain, history>>

\* admin/proposals.ts: nothing in the workers sets proposals.draft_market_id, so
\* the review finds no draft to change or to publish.
Review(c) ==
  /\ c \notin FromNews /\ proposal[c] = "needs_human"
  /\ \E r \in {"approved", "rejected"} : proposal' = [proposal EXCEPT ![c] = r]
  /\ UNCHANGED <<queues, workers, origin, status, published, fresh, sent, onChain, history>>
-----------------------------------------------------------------------------
Handler(w) ==
  \/ w = "generator" /\ (Generate \/ PublishDraftValidate)
  \/ w = "validator" /\ (Judge \/ TellProposal(w, job[w].ruling) \/ Forward)
  \/ w = "publisher" /\ (Check \/ CreateMarket \/ Record \/ TellProposal(w, "published") \/ WriteLog)

Work(w) == Take(w) \/ TakeDisabled(w) \/ Handler(w) \/ Ack(w)

Next ==
  \/ \E w \in Workers :
       \/ Work(w) \/ Rested(w) \/ Fail(w) \/ Retry(w)
       \/ Disconnect(w) \/ Stop(w) \/ Heartbeat(w)
  \/ \E c \in Candidates :
       Propose(c) \/ StartProcessing(c) \/ PublishCandidate(c) \/ Review(c)
  \/ \E d \in Drafts : HourPasses(d) \/ Expire(d)

\* A worker consumes and goes on as long as it has its channel, which the guards
\* of Work say, and its timers fire.  Nobody must submit, review, press a switch,
\* fail, or start a process again whose connection is gone.
Fairness == \A w \in Workers : WF_vars(Work(w)) /\ WF_vars(Retry(w))

Spec == Init /\ [][Next]_vars /\ Fairness
-----------------------------------------------------------------------------
DraftsOf(c) == {d \in Drafts : origin[d] = c}

Settled(c) ==
  \E d \in DraftsOf(c) :
    d \in published \/ status[d] \in {"canceled", "pending_review", "rate_limited"}

Buried(c) == \E w \in Workers : \E m \in BagToSet(dead[w]) : About(w, m) = c

\* A candidate that reached the queue is always with some worker, settled, or in
\* a dead-letter queue, unless its retry was lost with a process or a channel
\* (consumeQueue: publish before acknowledge, reject at the last try).
NothingLost ==
  \A c \in sent \ forgotten :
    \/ \E w \in Workers : \E m \in Held(w) : About(w, m) = c
    \/ Settled(c)
    \/ Buried(c)

\* However often messages are delivered, a draft gets at most one market on the
\* chain, unless the publisher was cut off between creating it and recording its
\* address (processPublish's check of market_address).
OneMarket == \A d \in Drafts : onChain[d] > 1 => d \in redone["publisher"]

\* When the publisher is through with a draft, the draft is active, or was until
\* it expired, and its proposal published, unless an earlier handler ran again
\* afterwards (the three workers write both columns, in this order).
RecordsAgree ==
  \A d \in published :
    d \notin redone["validator"] =>
      /\ status[d] \in {"active", "resolving"}
      /\ \/ IsAuto(d)
         \/ d \in redone["publisher"] \/ origin[d] \in redone["generator"]
         \/ job["publisher"] # Idle /\ job["publisher"].msg.id = d
         \/ proposal[origin[d]] = "published"

\* Of the markets nobody proposed and the publisher put up within an hour, at
\* most PublishLimit are active at a time, leaving aside drafts judged again
\* after their publication (canAutoPublish).  It is no limit on publications:
\* each market that expires or is resolved within the hour makes room for one.
HourlyLimit ==
  Cardinality({d \in fresh \ redone["validator"] :
                 IsAuto(d) /\ status[d] = "active"}) <= PublishLimit

\* A candidate in the queue is eventually settled or dead-lettered, or its retry
\* was lost, or it is held up at a worker whose connection is gone and which
\* nobody starts again (consumeQueue and the three handlers).
EveryCandidateEnds ==
  \A c \in Candidates :
    c \in sent ~> \/ Settled(c) \/ Buried(c) \/ c \in forgotten
                 \/ \E w \in Workers \ linked : \E m \in Held(w) : About(w, m) = c
=============================================================================
