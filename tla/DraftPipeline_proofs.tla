------------------------ MODULE DraftPipeline_proofs ------------------------
(***************************************************************************)
(* Proofs about DraftPipeline, for every set of candidates and every bound *)
(* on retries, drafts and deaths of processes: type correctness; that a    *)
(* draft gets one market unless its publisher is cut off at the one place  *)
(* where it cannot tell; that no candidate is lost; that the tables agree  *)
(* about a published draft; and that the hourly limit holds.               *)
(***************************************************************************)
EXTENDS DraftPipeline, Integers, FiniteSetTheorems, TLAPS

(***************************************************************************)
(* Bags of messages: what putting one in and taking one out does.          *)
(***************************************************************************)

\* Putting a message in a worker's bag keeps the bags well formed and adds
\* that message alone.
LEMMA Putting ==
  ASSUME NEW q, Hold(q), NEW w \in Workers, NEW m \in Messages(w)
  PROVE  /\ Hold(Put(q, w, m))
         /\ \A v \in Workers : \A n \in BagToSet(Put(q, w, m)[v]) :
              n \in BagToSet(q[v]) \/ (v = w /\ n = m)
<1> DEFINE r == Put(q, w, m)
           B == q[w]
           C == B (+) SetToBag({m})
<1>1. DOMAIN r = Workers /\ r[w] = C /\ \A v \in Workers : v # w => r[v] = q[v]
  BY DEF Hold, Put
<1>2. IsABag(B) /\ BagToSet(B) \subseteq Messages(w) BY DEF Hold
<1>3. DOMAIN C = DOMAIN B \cup {m} BY DEF SetToBag, (+)
<1>4. ASSUME NEW e \in DOMAIN B \cup {m} PROVE C[e] \in {n \in Nat : n > 0}
  <2>1. C[e] = (IF e \in DOMAIN B THEN B[e] ELSE 0) + (IF e \in {m} THEN 1 ELSE 0)
    BY DEF SetToBag, (+)
  <2>2. e \in DOMAIN B => B[e] \in Nat /\ B[e] > 0 BY <1>2 DEF IsABag
  <2> QED BY <2>1, <2>2
<1>5. IsABag(C) BY <1>3, <1>4 DEF IsABag, (+)
<1>6. BagToSet(r[w]) = BagToSet(B) \cup {m} BY <1>1, <1>3 DEF BagToSet
<1> HIDE DEF r, C
<1>7. Hold(r) BY <1>1, <1>2, <1>5, <1>6 DEF Hold
<1>8. \A v \in Workers : \A n \in BagToSet(r[v]) :
        n \in BagToSet(q[v]) \/ (v = w /\ n = m)
  BY <1>1, <1>6
<1> QED BY <1>7, <1>8 DEF r

\* Taking one out keeps them well formed and adds none.
LEMMA Taking ==
  ASSUME NEW q, Hold(q), NEW w \in Workers, NEW m
  PROVE  /\ Hold(Remove(q, w, m))
         /\ \A v \in Workers : BagToSet(Remove(q, w, m)[v]) \subseteq BagToSet(q[v])
<1> DEFINE r == Remove(q, w, m)
           B == q[w]
           C == B (-) SetToBag({m})
           D == [e \in DOMAIN B |-> IF e \in {m} THEN B[e] - 1 ELSE B[e]]
<1>1. DOMAIN r = Workers /\ r[w] = C /\ \A v \in Workers : v # w => r[v] = q[v]
  BY DEF Hold, Remove
<1>2. IsABag(B) /\ BagToSet(B) \subseteq Messages(w) BY DEF Hold
<1>3. C = [e \in {d \in DOMAIN D : D[d] > 0} |-> D[e]] BY DEF (-), SetToBag
<1>4. \A e \in DOMAIN B : D[e] \in Int BY <1>2 DEF IsABag
<1>5. IsABag(C) /\ DOMAIN C \subseteq DOMAIN B
  <2>1. DOMAIN D = DOMAIN B OBVIOUS
  <2> HIDE DEF D, C
  <2> QED BY <1>3, <1>4, <2>1 DEF IsABag
<1> HIDE DEF r, C
<1>6. Hold(r) BY <1>1, <1>2, <1>5 DEF Hold, BagToSet
<1>7. \A v \in Workers : BagToSet(r[v]) \subseteq BagToSet(q[v])
  BY <1>1, <1>5 DEF BagToSet
<1> QED BY <1>6, <1>7 DEF r

\* Emptying one too.
LEMMA Emptying ==
  ASSUME NEW q, Hold(q), NEW w \in Workers,
         NEW r, r = [q EXCEPT ![w] = EmptyBag]
  PROVE  /\ Hold(r)
         /\ \A v \in Workers : BagToSet(r[v]) \subseteq BagToSet(q[v])
  BY DEF Hold, EmptyBag, SetToBag, IsABag, BagToSet

(***************************************************************************)
(* Type correctness.  It is not inductive: About and TellProposal read the *)
(* row of the draft a message names, so the messages to the validator and  *)
(* the publisher must name drafts that exist.                              *)
(***************************************************************************)

LEMMA StepsOf ==
  /\ Steps("generator") = {"generate", "send", "ack"}
  /\ Steps("validator") = {"judge", "tell", "forward", "ack"}
  /\ Steps("publisher") = {"check", "create", "record", "tell", "log", "ack"}
  BY DEF Steps, After

LEMMA NextWrite ==
  /\ After.generator.generate = "send" /\ After["generator"]["send"] = "ack"
  /\ After.validator.judge = "tell" /\ After["validator"]["tell"] = "forward"
  /\ After["validator"]["forward"] = "ack"
  /\ After["publisher"]["check"] = "create" /\ After["publisher"]["create"] = "record"
  /\ After["publisher"]["record"] = "tell" /\ After["publisher"]["tell"] = "log"
  /\ After["publisher"]["log"] = "ack"
  BY DEF After

Inserted(d) == d \in Drafts /\ origin[d] \in Candidates

Rows ==
  \A w \in Workers \ {"generator"} :
    /\ \A m \in BagToSet(queue[w]) \cup BagToSet(timers[w]) : Inserted(m.id)
    /\ job[w] # Idle => Inserted(job[w].msg.id)

Drafted == job["generator"].at = "send" => Inserted(job["generator"].draft)

Ruled == job["validator"].at \in {"tell", "forward"} => job["validator"].ruling \in Rulings

PipelineInv == TypeOK /\ Rows /\ Drafted /\ Ruled

LEMMA InitPipelineInv == Init => PipelineInv
<1> SUFFICES ASSUME Init PROVE PipelineInv OBVIOUS
<1>1. Hold(queue) /\ Hold(timers) /\ Hold(dead)
  BY DEF Init, Hold, EmptyBag, SetToBag, IsABag, BagToSet
<1>2. TypeOK BY <1>1, BoundsAssumption DEF Init, TypeOK
<1>3. Rows /\ Drafted /\ Ruled
  BY DEF Init, Rows, Drafted, Ruled, Workers, Idle, EmptyBag, SetToBag, BagToSet
<1> QED BY <1>2, <1>3 DEF PipelineInv

USE DEF Workers

LEMMA Holding == PipelineInv => Hold(queue) /\ Hold(timers) /\ Hold(dead)
  BY DEF PipelineInv, TypeOK

\* What a worker handles.
LEMMA Handling ==
  ASSUME PipelineInv, NEW w \in Workers, job[w] # Idle
  PROVE  /\ job[w] \in Jobs(w)
         /\ job[w].msg \in Messages(w) /\ job[w].at \in Steps(w)
         /\ w = "generator" => job[w].msg.id \in Candidates
         /\ w # "generator" => Inserted(job[w].msg.id)
  BY DEF PipelineInv, TypeOK, Jobs, Rows, Messages, Ids

LEMMA TakeKeeps ==
  ASSUME PipelineInv, NEW w \in Workers, Take(w)
  PROVE  PipelineInv'
<1>1. PICK m \in BagToSet(queue[w]) :
        /\ queue' = Remove(queue, w, m)
        /\ job' = [job EXCEPT ![w] = [Idle EXCEPT !.msg = m, !.at = First[w]]]
  BY DEF Take
<1>2. Hold(queue') /\ \A v \in Workers : BagToSet(queue'[v]) \subseteq BagToSet(queue[v])
  BY <1>1, Taking, Holding
<1>3. m \in Messages(w) BY DEF PipelineInv, TypeOK, Hold
<1>4. First[w] \in Steps(w) /\ First[w] \notin {"send", "tell", "forward"}
  BY StepsOf DEF First
<1>5. job'[w] = [msg |-> m, at |-> First[w], draft |-> None, ruling |-> None]
  BY <1>1 DEF PipelineInv, TypeOK, Idle
<1>6. job'[w] \in Jobs(w) BY <1>3, <1>4, <1>5 DEF Jobs
<1>7. DOMAIN job' = Workers /\ \A v \in Workers : v # w => job'[v] = job[v]
  BY <1>1 DEF PipelineInv, TypeOK
<1>8. TypeOK'
  BY <1>2, <1>6, <1>7 DEF PipelineInv, TypeOK, Take, tables, history, Hold
<1>9. Rows'
  BY <1>1, <1>2, <1>5, <1>7 DEF PipelineInv, Rows, Inserted, Take, tables, Drafts
<1>10. Drafted' /\ Ruled'
  BY <1>4, <1>5, <1>7 DEF PipelineInv, Drafted, Ruled, Inserted, Take, tables
<1> QED BY <1>8, <1>9, <1>10 DEF PipelineInv

\* The handlers' other writes leave the queues alone and end one step further.
LEMMA Stepping ==
  ASSUME PipelineInv, NEW w \in Workers, job[w] # Idle, NEW step \in Steps(w), GoTo(w, step)
  PROVE  /\ DOMAIN job' = Workers
         /\ \A v \in Workers : v # w => job'[v] = job[v]
         /\ job'[w] \in Jobs(w) /\ job'[w].msg = job[w].msg /\ job'[w].at = step
         /\ job'[w].draft = job[w].draft /\ job'[w].ruling = job[w].ruling
         /\ job'[w] # Idle
  BY Handling, StepsOf DEF PipelineInv, TypeOK, GoTo, Jobs, Idle

LEMMA TakeDisabledKeeps ==
  ASSUME PipelineInv, NEW w \in Workers, TakeDisabled(w)
  PROVE  PipelineInv'
<1>1. PICK m \in BagToSet(queue[w]) :
        /\ queue' = Remove(queue, w, m)
        /\ dead' = Put(dead, w, m)
  BY DEF TakeDisabled
<1>2. Hold(queue') /\ \A v \in Workers : BagToSet(queue'[v]) \subseteq BagToSet(queue[v])
  BY <1>1, Taking, Holding
<1>3. m \in Messages(w) BY DEF PipelineInv, TypeOK, Hold
<1>4. Hold(dead') BY <1>1, <1>3, Putting, Holding
<1>5. UNCHANGED <<timers, workers, tables, sent, onChain, history>> BY DEF TakeDisabled
<1>6. TypeOK'
  BY <1>2, <1>4, <1>5 DEF PipelineInv, TypeOK, workers, tables, history, Hold
<1> QED
  BY <1>2, <1>5, <1>6 DEF PipelineInv, Rows, Drafted, Ruled, Inserted, workers, tables

\* A worker that drops its job.
LEMMA Dropping ==
  ASSUME PipelineInv, NEW w \in Workers, job' = [job EXCEPT ![w] = Idle]
  PROVE  /\ DOMAIN job' = Workers /\ job'[w] = Idle
         /\ \A v \in Workers : v # w => job'[v] = job[v]
         /\ \A v \in Workers : job'[v] = Idle \/ job'[v] \in Jobs(v)
         /\ job'["generator"].at = "send" =>
              w # "generator" /\ job'["generator"] = job["generator"]
         /\ job'["validator"].at \in {"tell", "forward"} =>
              w # "validator" /\ job'["validator"] = job["validator"]
  BY DEF PipelineInv, TypeOK, Idle

LEMMA CuttingOff ==
  ASSUME PipelineInv, NEW w \in Workers, CutOff(w)
  PROVE  redone' \in [Workers -> SUBSET (Candidates \cup Drafts)]
<1>1. CASE job[w] = Idle BY <1>1 DEF PipelineInv, TypeOK, CutOff, TooLate, Idle
<1>2. CASE job[w] # Idle
  <2>1. job[w].msg.id \in Candidates \cup Drafts BY <1>2, Handling DEF Inserted
  <2> QED BY <2>1 DEF PipelineInv, TypeOK, CutOff
<1> QED BY <1>1, <1>2

LEMMA AckKeeps ==
  ASSUME PipelineInv, NEW w \in Workers, Ack(w)
  PROVE  PipelineInv'
<1>1. resting' \subseteq Workers BY DEF Ack, PipelineInv, TypeOK
<1>2. UNCHANGED <<queues, enabled, linked, tables, sent, onChain, history>> BY DEF Ack
<1>3. job' = [job EXCEPT ![w] = Idle] BY DEF Ack
<1>4. TypeOK'
  BY <1>1, <1>2, <1>3, Dropping DEF PipelineInv, TypeOK, queues, tables, history, Hold
<1> QED
  BY <1>2, <1>3, <1>4, Dropping DEF PipelineInv, Rows, Drafted, Ruled, Inserted, queues,
       tables

LEMMA FailKeeps ==
  ASSUME PipelineInv, NEW w \in Workers, Fail(w)
  PROVE  PipelineInv'
<1> DEFINE m == job[w].msg
           again == [m EXCEPT !.tries = @ + 1]
<1>1. job[w] # Idle /\ job' = [job EXCEPT ![w] = Idle] /\ CutOff(w) BY DEF Fail
<1>2. m \in Messages(w) BY <1>1, Handling
<1>3. m.tries < MaxTries => again \in Messages(w) /\ again.id = m.id
  BY <1>2, BoundsAssumption DEF Messages
<1>4. /\ Hold(timers') /\ Hold(dead')
      /\ \A v \in Workers : \A n \in BagToSet(timers'[v]) :
           n \in BagToSet(timers[v]) \/ (v = w /\ n.id = m.id)
  <2>1. CASE m.tries < MaxTries /\ timers' = Put(timers, w, again)
             /\ dead' = dead
    <3> HIDE DEF again, m
    <3>1. Hold(timers') /\ \A v \in Workers : \A n \in BagToSet(timers'[v]) :
                          n \in BagToSet(timers[v]) \/ (v = w /\ n = again)
      BY <2>1, <1>3, Putting, Holding
    <3> QED BY <3>1, <2>1, <1>3 DEF PipelineInv, TypeOK
  <2>2. CASE dead' = Put(dead, w, m) /\ timers' = timers
    <3> HIDE DEF m
    <3>1. Hold(dead') BY <2>2, <1>2, Putting, Holding
    <3> QED BY <3>1, <2>2 DEF PipelineInv, TypeOK
  <2> QED BY <2>1, <2>2 DEF Fail
<1>5. UNCHANGED <<queue, enabled, resting, linked, tables, sent, onChain, stops, forgotten>>
  BY DEF Fail
<1>6. TypeOK'
  BY <1>1, <1>4, <1>5, Dropping, CuttingOff DEF PipelineInv, TypeOK, tables, Hold
<1>7. Rows'
  <2> HIDE DEF m, again
  <2>1. w # "generator" => Inserted(m.id) BY <1>1, Handling DEF m
  <2> QED BY <2>1, <1>1, <1>4, <1>5, Dropping DEF PipelineInv, Rows, Inserted, tables
<1>8. Drafted' /\ Ruled'
  BY <1>1, <1>5, Dropping DEF PipelineInv, Drafted, Ruled, Inserted, tables
<1> QED BY <1>6, <1>7, <1>8 DEF PipelineInv

LEMMA RetryKeeps ==
  ASSUME PipelineInv, NEW w \in Workers, Retry(w)
  PROVE  PipelineInv'
<1>1. PICK m \in BagToSet(timers[w]) :
        /\ timers' = Remove(timers, w, m)
        /\ \/ queue' = Put(queue, w, m) /\ UNCHANGED forgotten
           \/ queue' = queue /\ forgotten' = forgotten \cup {About(w, m)}
        /\ UNCHANGED <<dead, workers, tables, sent, onChain, stops, redone>>
  BY DEF Retry
<1>2. Hold(timers') /\ \A v \in Workers : BagToSet(timers'[v]) \subseteq BagToSet(timers[v])
  BY <1>1, Taking, Holding
<1>3. m \in Messages(w) BY DEF PipelineInv, TypeOK, Hold
<1>4. Hold(queue') /\ \A v \in Workers : \A n \in BagToSet(queue'[v]) :
                          n \in BagToSet(queue[v]) \/ (v = w /\ n = m)
  <2>1. CASE queue' = Put(queue, w, m) BY <2>1, <1>3, Putting, Holding
  <2>2. CASE queue' = queue BY <2>2, Holding
  <2> QED BY <1>1, <2>1, <2>2
<1>5. forgotten' \subseteq Candidates
  <2>1. About(w, m) \in Candidates
    BY <1>3 DEF PipelineInv, TypeOK, Rows, Inserted, About, Messages, Ids
  <2> QED BY <1>1, <2>1 DEF PipelineInv, TypeOK
<1>6. TypeOK'
  BY <1>1, <1>2, <1>4, <1>5 DEF PipelineInv, TypeOK, workers, tables, Hold
<1>7. Rows' BY <1>1, <1>2, <1>4 DEF PipelineInv, Rows, Inserted, workers, tables
<1> QED BY <1>1, <1>6, <1>7 DEF PipelineInv, Drafted, Ruled, Inserted, workers, tables

LEMMA StopKeeps ==
  ASSUME PipelineInv, NEW w \in Workers, Stop(w)
  PROVE  PipelineInv'
<1> DEFINE m == job[w].msg
<1>1. job' = [job EXCEPT ![w] = Idle] /\ CutOff(w) BY DEF Stop, Restart
<1>2. Hold(timers') /\ \A v \in Workers : BagToSet(timers'[v]) \subseteq BagToSet(timers[v])
  BY Emptying DEF Stop, Restart, PipelineInv, TypeOK
<1>3. /\ Hold(queue')
      /\ \A v \in Workers : \A n \in BagToSet(queue'[v]) :
           n \in BagToSet(queue[v]) \/ (v = w /\ job[w] # Idle /\ n = m)
  <2>1. CASE job[w] = Idle BY <2>1 DEF Stop, Restart, PipelineInv, TypeOK
  <2>2. CASE job[w] # Idle
    <3>1. m \in Messages(w) /\ queue' = Put(queue, w, m)
      BY <2>2, Handling DEF Stop, Restart
    <3> HIDE DEF m
    <3>2. Hold(queue') /\ \A v \in Workers : \A n \in BagToSet(queue'[v]) :
                              n \in BagToSet(queue[v]) \/ (v = w /\ n = m)
      BY <3>1, Putting, Holding
    <3> QED BY <3>2, <2>2
  <2> QED BY <2>1, <2>2
<1>4. forgotten' \subseteq Candidates
  <2>1. \A n \in BagToSet(timers[w]) : About(w, n) \in Candidates
    BY DEF PipelineInv, TypeOK, Hold, Rows, Inserted, About, Messages, Ids
  <2> QED BY <2>1 DEF Stop, Restart, PipelineInv, TypeOK
<1>5. stops' \in 0 .. MaxStops BY BoundsAssumption DEF Stop, Restart, PipelineInv, TypeOK
<1>6. UNCHANGED <<dead, tables, sent, onChain>> BY DEF Stop, Restart
<1>7. enabled' \subseteq Workers /\ resting' \subseteq Workers /\ linked' \subseteq Workers
  BY DEF Stop, Restart, PipelineInv, TypeOK
<1>8. TypeOK'
  BY <1>1, <1>2, <1>3, <1>4, <1>5, <1>6, <1>7, Dropping, CuttingOff
  DEF PipelineInv, TypeOK, tables, Hold
<1>9. Rows'
  <2> HIDE DEF m
  <2>1. w # "generator" /\ job[w] # Idle => Inserted(m.id) BY Handling DEF m
  <2> QED BY <2>1, <1>1, <1>2, <1>3, <1>6, Dropping DEF PipelineInv, Rows, Inserted,
      tables
<1>10. Drafted' /\ Ruled'
  BY <1>1, <1>6, Dropping DEF PipelineInv, Drafted, Ruled, Inserted, tables
<1> QED BY <1>8, <1>9, <1>10 DEF PipelineInv

\* publishMessage: a new message that names something that exists.
LEMMA Publishing ==
  ASSUME PipelineInv, NEW w \in Workers, NEW id, queue' = Publish(w, id),
         IF w = "generator" THEN id \in Candidates ELSE Inserted(id)
  PROVE  /\ Hold(queue')
         /\ \A v \in Workers : \A n \in BagToSet(queue'[v]) :
              n \in BagToSet(queue[v]) \/ (v = w /\ n.id = id)
<1> DEFINE m == [id |-> id, tries |-> 0]
<1>1. m \in Messages(w) /\ m.id = id BY BoundsAssumption DEF Messages, Ids, Inserted
<1>2. queue' = Put(queue, w, m) BY DEF Publish
<1> HIDE DEF m
<1>3. /\ Hold(Put(queue, w, m))
      /\ \A v \in Workers : \A n \in BagToSet(Put(queue, w, m)[v]) :
           n \in BagToSet(queue[v]) \/ (v = w /\ n = m)
  <2>1. Hold(queue) /\ m \in Messages(w) BY <1>1, Holding
  <2> QED BY <2>1, Putting
<1> QED BY <1>1, <1>2, <1>3

\* Steps of others than the workers, and those that change no job, message or row.
LEMMA LightStepsKeep ==
  ASSUME PipelineInv,
         UNCHANGED <<queues, job, origin, onChain, redone, forgotten>>,
         status' = status \/ \E d \in Drafts : status' = [status EXCEPT ![d] = "resolving"],
         stops' \in 0 .. MaxStops,
         enabled' \subseteq Workers, resting' \subseteq Workers, linked' \subseteq Workers,
         fresh' \subseteq published', published' = published,
         proposal' \in [Candidates \ FromNews ->
                         {"none", "pending", "processing", "published"} \cup Rulings],
         sent' = sent
  PROVE  PipelineInv'
  BY DEF PipelineInv, TypeOK, Hold, Rows, Drafted, Ruled, Inserted, queues

LEMMA PublishCandidateKeeps ==
  ASSUME PipelineInv, NEW c \in Candidates, PublishCandidate(c)
  PROVE  PipelineInv'
<1>1. queue' = Publish("generator", c) BY DEF PublishCandidate
<1>2. /\ Hold(queue')
      /\ \A v \in Workers : \A n \in BagToSet(queue'[v]) :
           n \in BagToSet(queue[v]) \/ (v = "generator" /\ n.id = c)
  BY <1>1, Publishing
<1>3. UNCHANGED <<timers, dead, workers, tables, onChain, history>> /\ sent' \subseteq Candidates
  BY DEF PublishCandidate, PipelineInv, TypeOK
<1>4. TypeOK' BY <1>2, <1>3 DEF PipelineInv, TypeOK, workers, tables, history, Hold
<1>5. Rows' BY <1>2, <1>3 DEF PipelineInv, Rows, Inserted, workers, tables
<1> QED BY <1>3, <1>4, <1>5 DEF PipelineInv, Drafted, Ruled, Inserted, workers, tables

LEMMA GenerateKeeps == ASSUME PipelineInv, Generate PROVE PipelineInv'
<1> DEFINE j == job["generator"]
<1>1. PICK d \in Drafts :
        /\ origin[d] = None
        /\ origin' = [origin EXCEPT ![d] = j.msg.id]
        /\ status' = [status EXCEPT ![d] = "draft"]
        /\ job' = [job EXCEPT !["generator"].at = After.generator.generate,
                              !["generator"].draft = d]
  BY DEF Generate
<1>2. UNCHANGED <<queues, enabled, resting, linked, published, fresh, proposal, sent, onChain, history>>
  BY DEF Generate
<1>3. j # Idle BY DEF Generate, At, Idle
<1>4. j \in Jobs("generator") /\ j.msg.id \in Candidates BY <1>3, Handling
<1>5. /\ DOMAIN job' = Workers
      /\ job'["generator"] \in Jobs("generator") /\ job'["generator"].draft = d
      /\ job'["validator"] = job["validator"] /\ job'["publisher"] = job["publisher"]
  BY <1>1, <1>4, NextWrite, StepsOf DEF PipelineInv, TypeOK, Jobs
<1>6. /\ origin' \in [Drafts -> Candidates \cup {None}]
      /\ Inserted(d)' /\ \A e : Inserted(e) => Inserted(e)'
  BY <1>1, <1>4 DEF PipelineInv, TypeOK, Inserted
<1>7. TypeOK'
  BY <1>1, <1>2, <1>5, <1>6 DEF PipelineInv, TypeOK, queues, history, Hold
<1>8. Rows' BY <1>2, <1>5, <1>6 DEF PipelineInv, Rows, queues
<1>9. Drafted' /\ Ruled' BY <1>5, <1>6 DEF PipelineInv, Drafted, Ruled
<1> QED BY <1>7, <1>8, <1>9 DEF PipelineInv

LEMMA PublishDraftValidateKeeps ==
  ASSUME PipelineInv, PublishDraftValidate PROVE PipelineInv'
<1> DEFINE d == job["generator"].draft
<1>1. Inserted(d) BY DEF PublishDraftValidate, At, PipelineInv, Drafted
<1>2. job["generator"] # Idle /\ GoTo("generator", "ack")
  BY NextWrite DEF PublishDraftValidate, At, Onward, Idle
<1>3. UNCHANGED <<timers, dead, enabled, resting, linked, tables, sent, onChain, history>>
  BY DEF PublishDraftValidate
<1>4. queue' = Publish("validator", d) BY DEF PublishDraftValidate
<1> HIDE DEF d
<1>5. /\ Hold(queue')
      /\ \A v \in Workers : \A n \in BagToSet(queue'[v]) :
           n \in BagToSet(queue[v]) \/ (v = "validator" /\ n.id = d)
  BY <1>1, <1>4, Publishing
<1>6. /\ DOMAIN job' = Workers /\ \A v \in Workers : v # "generator" => job'[v] = job[v]
      /\ job'["generator"] \in Jobs("generator") /\ job'["generator"].at = "ack"
  BY <1>2, Stepping, StepsOf
<1>7. TypeOK' BY <1>3, <1>5, <1>6 DEF PipelineInv, TypeOK, tables, history, Hold
<1>8. Rows' BY <1>1, <1>3, <1>5, <1>6 DEF PipelineInv, Rows, Inserted, tables
<1> QED BY <1>3, <1>6, <1>7, <1>8 DEF PipelineInv, Drafted, Ruled, tables

LEMMA JudgeKeeps == ASSUME PipelineInv, Judge PROVE PipelineInv'
<1> DEFINE j == job["validator"]
<1>1. PICK r \in Rulings :
        /\ status' = [status EXCEPT ![j.msg.id] = StatusOf(r)]
        /\ job' = [job EXCEPT !["validator"].at = After.validator.judge,
                              !["validator"].ruling = r]
  BY DEF Judge
<1>2. UNCHANGED <<queues, enabled, resting, linked, origin, published, fresh, proposal,
                  sent, onChain, history>>
  BY DEF Judge
<1>3. j # Idle BY DEF Judge, At, Idle
<1>4. j \in Jobs("validator") /\ Inserted(j.msg.id) BY <1>3, Handling
<1>5. /\ DOMAIN job' = Workers
      /\ job'["validator"] \in Jobs("validator") /\ job'["validator"].ruling = r
      /\ job'["validator"].msg = j.msg
      /\ job'["generator"] = job["generator"] /\ job'["publisher"] = job["publisher"]
  BY <1>1, <1>4, NextWrite, StepsOf DEF PipelineInv, TypeOK, Jobs
<1>6. StatusOf(r) \in {"active", "canceled", "pending_review"} BY DEF StatusOf, Rulings
<1>7. TypeOK'
  BY <1>1, <1>2, <1>5, <1>6 DEF PipelineInv, TypeOK, queues, history, Hold
<1>8. Rows' BY <1>2, <1>4, <1>5 DEF PipelineInv, Rows, queues, Inserted
<1> QED BY <1>2, <1>5, <1>7, <1>8 DEF PipelineInv, Drafted, Ruled, Inserted

\* The other steps of a handler change its place and rows that exist.
LEMMA WritesKeep ==
  ASSUME PipelineInv, NEW w \in Workers, job[w] # Idle, NEW step \in Steps(w), GoTo(w, step),
         UNCHANGED <<queues, enabled, resting, linked, origin, sent, history>>,
         status' \in [Drafts -> {"none", "draft", "active", "canceled",
                                "pending_review", "rate_limited", "resolving"}],
         fresh' \subseteq published', published' \subseteq Drafts,
         proposal' \in [Candidates \ FromNews ->
                         {"none", "pending", "processing", "published"} \cup Rulings],
         onChain' \in [Drafts -> Nat],
         step # "send",
         w = "validator" /\ step \in {"tell", "forward"} => job[w].ruling \in Rulings
  PROVE  PipelineInv'
<1>1. /\ DOMAIN job' = Workers
      /\ \A v \in Workers : v # w => job'[v] = job[v]
      /\ job'[w] \in Jobs(w) /\ job'[w].msg = job[w].msg /\ job'[w].at = step
      /\ job'[w].draft = job[w].draft /\ job'[w].ruling = job[w].ruling
      /\ job'[w] # Idle
  BY Stepping
<1>2. TypeOK' BY <1>1 DEF PipelineInv, TypeOK, queues, history, Hold
<1>3. Rows' BY <1>1 DEF PipelineInv, Rows, queues, Inserted
<1>4. Drafted' /\ Ruled' BY <1>1 DEF PipelineInv, Drafted, Ruled, Inserted
<1> QED BY <1>2, <1>3, <1>4 DEF PipelineInv

LEMMA TellProposalKeeps ==
  ASSUME PipelineInv, NEW w \in {"validator", "publisher"}, NEW news, TellProposal(w, news),
         \/ w = "validator" /\ news = job[w].ruling
         \/ w = "publisher" /\ news = "published"
  PROVE  PipelineInv'
<1>1. job[w] # Idle BY DEF TellProposal, At, Idle
<1>2. w = "validator" => news \in Rulings /\ GoTo(w, "forward")
  BY NextWrite DEF TellProposal, At, Onward, PipelineInv, Ruled
<1>3. w = "publisher" => GoTo(w, "log")
  BY NextWrite DEF TellProposal, At, Onward
<1>4. proposal' \in [Candidates \ FromNews ->
                      {"none", "pending", "processing", "published"} \cup Rulings]
  BY <1>2 DEF TellProposal, PipelineInv, TypeOK
<1>5. UNCHANGED <<queues, enabled, resting, linked, origin, status, published, fresh,
                  sent, onChain, history>>
  BY DEF TellProposal
<1>6. CASE w = "validator"
  BY <1>1, <1>2, <1>4, <1>5, <1>6, WritesKeep, StepsOf DEF PipelineInv, TypeOK
<1>7. CASE w = "publisher"
  BY <1>1, <1>3, <1>4, <1>5, <1>7, WritesKeep, StepsOf DEF PipelineInv, TypeOK
<1> QED BY <1>6, <1>7

LEMMA ForwardKeeps == ASSUME PipelineInv, Forward PROVE PipelineInv'
<1> DEFINE d == job["validator"].msg.id
<1>1. job["validator"] # Idle /\ GoTo("validator", "ack")
  BY NextWrite DEF Forward, At, Onward, Idle
<1>2. Inserted(d) BY <1>1, Handling
<1>3. UNCHANGED <<timers, dead, enabled, resting, linked, tables, sent, onChain, history>>
  BY DEF Forward
<1>4. /\ Hold(queue')
      /\ \A v \in Workers : \A n \in BagToSet(queue'[v]) :
           n \in BagToSet(queue[v]) \/ (v = "publisher" /\ n.id = d)
  <2>1. CASE queue' = queue BY <2>1, Holding
  <2>2. CASE queue' = Publish("publisher", d)
    <3> HIDE DEF d
    <3> QED BY <2>2, <1>2, Publishing
  <2> QED BY <2>1, <2>2 DEF Forward
<1>5. /\ DOMAIN job' = Workers /\ \A v \in Workers : v # "validator" => job'[v] = job[v]
      /\ job'["validator"] \in Jobs("validator") /\ job'["validator"].at = "ack"
      /\ job'["validator"].msg = job["validator"].msg
  BY <1>1, Stepping, StepsOf
<1>6. TypeOK' BY <1>3, <1>4, <1>5 DEF PipelineInv, TypeOK, tables, history, Hold
<1>7. Rows' BY <1>2, <1>3, <1>4, <1>5 DEF PipelineInv, Rows, Inserted, tables
<1> QED BY <1>3, <1>5, <1>6, <1>7 DEF PipelineInv, Drafted, Ruled, Inserted, tables

LEMMA PublisherKeeps ==
  ASSUME PipelineInv, Check \/ CreateMarket \/ Record \/ WriteLog
  PROVE  PipelineInv'
<1> DEFINE d == job["publisher"].msg.id
<1>1. job["publisher"] # Idle BY DEF Check, CreateMarket, Record, WriteLog, At, Idle
<1>2. d \in Drafts BY <1>1, Handling DEF Inserted
<1>3. CASE Check
  <2>1. /\ UNCHANGED <<queues, enabled, resting, linked, origin, published, fresh, proposal,
                       sent, onChain, history>>
        /\ GoTo("publisher", "ack") \/ GoTo("publisher", "create")
    BY <1>3, NextWrite DEF Check, Onward, At
  <2>2. status' \in [Drafts -> {"none", "draft", "active", "canceled",
                               "pending_review", "rate_limited", "resolving"}]
    BY <1>3 DEF Check, PipelineInv, TypeOK
  <2> QED BY <2>1, <2>2, <1>1, WritesKeep, StepsOf DEF PipelineInv, TypeOK
<1>4. CASE CreateMarket
  <2>1. onChain' \in [Drafts -> Nat] BY <1>2, <1>4 DEF CreateMarket, PipelineInv, TypeOK
  <2>2. UNCHANGED <<queues, enabled, resting, linked, tables, sent, history>>
        /\ GoTo("publisher", "record")
    BY <1>4, NextWrite DEF CreateMarket, Onward, At
  <2> QED BY <2>1, <2>2, <1>1, WritesKeep, StepsOf DEF PipelineInv, TypeOK, tables
<1>5. CASE Record
  <2>1. /\ fresh' \subseteq published' /\ published' \subseteq Drafts
        /\ status' \in [Drafts -> {"none", "draft", "active", "canceled",
                                  "pending_review", "rate_limited", "resolving"}]
    BY <1>2, <1>5 DEF Record, PipelineInv, TypeOK
  <2>2. UNCHANGED <<queues, enabled, resting, linked, origin, proposal, sent, onChain, history>>
        /\ GoTo("publisher", "tell")
    BY <1>5, NextWrite DEF Record, Onward, At
  <2> QED BY <2>1, <2>2, <1>1, WritesKeep, StepsOf DEF PipelineInv, TypeOK
<1>6. CASE WriteLog
  <2>1. UNCHANGED <<queues, enabled, resting, linked, tables, sent, onChain, history>>
        /\ GoTo("publisher", "ack")
    BY <1>6, NextWrite DEF WriteLog, Onward, At
  <2> QED BY <2>1, <1>1, WritesKeep, StepsOf DEF PipelineInv, TypeOK, tables
<1> QED BY <1>3, <1>4, <1>5, <1>6

LEMMA NextKeepsPipelineInv == PipelineInv /\ [Next]_vars => PipelineInv'
<1> SUFFICES ASSUME PipelineInv, [Next]_vars PROVE PipelineInv' OBVIOUS
<1>1. ASSUME NEW w \in Workers, Work(w) PROVE PipelineInv'
  <2>1. CASE Take(w) BY <2>1, TakeKeeps
  <2>2. CASE TakeDisabled(w) BY <2>2, TakeDisabledKeeps
  <2>3. CASE Ack(w) BY <2>3, AckKeeps
  <2>4. CASE Handler(w)
    <3>1. CASE w = "generator"
      BY <2>4, <3>1, GenerateKeeps, PublishDraftValidateKeeps DEF Handler
    <3>2. CASE w = "validator"
      BY <2>4, <3>2, JudgeKeeps, TellProposalKeeps, ForwardKeeps DEF Handler
    <3>3. CASE w = "publisher"
      BY <2>4, <3>3, PublisherKeeps, TellProposalKeeps DEF Handler
    <3> QED BY <3>1, <3>2, <3>3
  <2> QED BY <1>1, <2>1, <2>2, <2>3, <2>4 DEF Work
<1>2. ASSUME NEW w \in Workers, Fail(w) PROVE PipelineInv' BY <1>2, FailKeeps
<1>3. ASSUME NEW w \in Workers, Retry(w) PROVE PipelineInv' BY <1>3, RetryKeeps
<1>4. ASSUME NEW w \in Workers, Stop(w) PROVE PipelineInv' BY <1>4, StopKeeps
<1>5. ASSUME NEW w \in Workers, Rested(w) \/ Disconnect(w) \/ Heartbeat(w)
      PROVE  PipelineInv'
  <2>1. /\ UNCHANGED <<queues, job, tables, sent, onChain, redone, forgotten>>
        /\ enabled' \subseteq Workers /\ resting' \subseteq Workers /\ linked' \subseteq Workers
    BY <1>5 DEF Rested, Disconnect, Heartbeat, history, PipelineInv, TypeOK
  <2>2. stops' = stops \/ (stops < MaxStops /\ stops' = stops + 1)
    BY <1>5 DEF Rested, Disconnect, Heartbeat, history
  <2>3. stops' \in 0 .. MaxStops BY <2>2, BoundsAssumption DEF PipelineInv, TypeOK
  <2> QED BY <2>1, <2>3, LightStepsKeep DEF tables, PipelineInv, TypeOK
<1>6. ASSUME NEW c \in Candidates, PublishCandidate(c) PROVE PipelineInv'
  BY <1>6, PublishCandidateKeeps
<1>7. ASSUME NEW c \in Candidates, Propose(c) \/ StartProcessing(c) \/ Review(c)
      PROVE  PipelineInv'
  <2>1. UNCHANGED <<queues, workers, origin, status, published, fresh, sent, onChain, history>>
    BY <1>7 DEF Propose, StartProcessing, Review
  <2>2. proposal' \in [Candidates \ FromNews ->
                        {"none", "pending", "processing", "published"} \cup Rulings]
    BY <1>7 DEF Propose, StartProcessing, Review, PipelineInv, TypeOK, Rulings
  <2> QED BY <2>1, <2>2, LightStepsKeep DEF workers, history, PipelineInv, TypeOK
<1>8. ASSUME NEW d \in Drafts, HourPasses(d) PROVE PipelineInv'
  <2>1. UNCHANGED <<queues, workers, origin, status, published, proposal, sent, onChain, history>>
        /\ fresh' \subseteq published'
    BY <1>8 DEF HourPasses, PipelineInv, TypeOK
  <2> QED BY <2>1, LightStepsKeep DEF workers, history, PipelineInv, TypeOK
<1>10. ASSUME NEW d \in Drafts, Expire(d) PROVE PipelineInv'
  <2>1. /\ UNCHANGED <<queues, workers, origin, published, fresh, proposal, sent, onChain,
                       history>>
        /\ status' = [status EXCEPT ![d] = "resolving"]
    BY <1>10 DEF Expire
  <2> QED BY <2>1, LightStepsKeep DEF workers, history, PipelineInv, TypeOK
<1>9. CASE UNCHANGED vars
  <2>1. UNCHANGED <<queues, job, enabled, resting, linked, tables, sent, onChain, history>>
    BY <1>9 DEF vars, workers
  <2> QED BY <2>1, LightStepsKeep DEF tables, history, PipelineInv, TypeOK
<1> QED BY <1>1, <1>2, <1>3, <1>4, <1>5, <1>6, <1>7, <1>8, <1>9, <1>10 DEF Next

\* Every table, queue, timer and job stays within its type, in every run of the
\* pipeline (the handlers of generator.ts, validator.ts and publisher.ts).
THEOREM PipelineTypeCorrect == Spec => []TypeOK
<1>1. Init => PipelineInv BY InitPipelineInv
<1>2. PipelineInv /\ [Next]_vars => PipelineInv' BY NextKeepsPipelineInv
<1>3. PipelineInv => TypeOK BY DEF PipelineInv
<1> QED BY <1>1, <1>2, <1>3, PTL DEF Spec

(***************************************************************************)
(* One market per draft.  A market on the chain is accounted for in one of *)
(* three ways: its address is in the table, the publisher is about to put  *)
(* it there, or the publisher was cut off at that point.                   *)
(***************************************************************************)

Recording(d) == job["publisher"].at = "record" /\ job["publisher"].msg.id = d

MarketsAccounted ==
  /\ \A d \in Drafts :
       onChain[d] > 0 => d \in published \/ Recording(d) \/ d \in redone["publisher"]
  /\ job["publisher"].at \in {"create", "record"} =>
       job["publisher"].msg.id \notin published
  /\ OneMarket

LEMMA InitMarketsAccounted == Init => MarketsAccounted
  BY DEF Init, MarketsAccounted, OneMarket, Idle, Workers

\* Steps of anyone but the publisher leave the account alone.
LEMMA OthersKeepAccount ==
  ASSUME PipelineInv, MarketsAccounted,
         job'["publisher"] = job["publisher"] \/ job'["publisher"].at \in {"idle", "check", "ack", "log"},
         job["publisher"].at # "record" \/ job'["publisher"] = job["publisher"]
           \/ job["publisher"].msg.id \in redone'["publisher"],
         redone["publisher"] \subseteq redone'["publisher"],
         UNCHANGED <<published, onChain>>
  PROVE  MarketsAccounted'
  BY DEF MarketsAccounted, OneMarket, Recording, PipelineInv, TypeOK

LEMMA NextKeepsMarketsAccounted ==
  PipelineInv /\ MarketsAccounted /\ [Next]_vars => MarketsAccounted'
<1> SUFFICES ASSUME PipelineInv, MarketsAccounted, [Next]_vars PROVE MarketsAccounted'
  OBVIOUS
<1> DEFINE j == job["publisher"]
<1> USE DEF Workers
<1>1. ASSUME NEW w \in Workers, Fail(w) \/ Stop(w) PROVE MarketsAccounted'
  <2>1. job' = [job EXCEPT ![w] = Idle] /\ CutOff(w) /\ UNCHANGED <<published, onChain>>
    BY <1>1 DEF Fail, Stop, Restart, tables
  <2>2. redone["publisher"] \subseteq redone'["publisher"]
    BY <2>1 DEF CutOff, PipelineInv, TypeOK
  <2>3. CASE w = "publisher"
    <3>1. job'["publisher"].at = "idle" BY <2>1, <2>3, Dropping DEF Idle
    <3>2. j.at = "record" => j.msg.id \in redone'["publisher"]
      BY <2>1, <2>3 DEF CutOff, TooLate, PipelineInv, TypeOK
    <3> QED BY <2>1, <2>2, <3>1, <3>2, OthersKeepAccount
  <2>4. CASE w # "publisher"
    <3>1. job'["publisher"] = j BY <2>1, <2>4, Dropping
    <3> QED BY <2>1, <2>2, <3>1, OthersKeepAccount
  <2> QED BY <2>3, <2>4
<1>2. ASSUME NEW w \in Workers,
             \/ Take(w) \/ TakeDisabled(w) \/ Ack(w) \/ Rested(w) \/ Retry(w)
             \/ Disconnect(w) \/ Heartbeat(w)
      PROVE  MarketsAccounted'
  <2>1. UNCHANGED <<published, onChain, redone>>
    BY <1>2 DEF Take, TakeDisabled, Ack, Rested, Retry, Disconnect, Heartbeat, tables,
         history
  <2>2. \/ job'["publisher"] = j
        \/ j.at # "record" /\ job'["publisher"].at \in {"idle", "check"}
    <3>1. CASE Take(w)
      <4>1. PICK m : job' = [job EXCEPT ![w] = [Idle EXCEPT !.msg = m, !.at = First[w]]]
        BY <3>1 DEF Take
      <4>2. job[w] = Idle BY <3>1 DEF Take
      <4> QED BY <4>1, <4>2 DEF First, Idle, PipelineInv, TypeOK
    <3>2. CASE Ack(w) BY <3>2 DEF Ack, At, Idle, PipelineInv, TypeOK
    <3>3. CASE TakeDisabled(w) \/ Rested(w) \/ Retry(w) \/ Disconnect(w) \/ Heartbeat(w)
      BY <3>3 DEF TakeDisabled, Rested, Retry, Disconnect, Heartbeat, workers
    <3> QED BY <1>2, <3>1, <3>2, <3>3
  <2> QED BY <2>1, <2>2, OthersKeepAccount
<1>3. ASSUME Generate \/ PublishDraftValidate \/ Judge \/ Forward
             \/ TellProposal("validator", job["validator"].ruling)
      PROVE  MarketsAccounted'
  <2>1. UNCHANGED <<published, onChain, redone>> /\ job'["publisher"] = j
    BY <1>3 DEF Generate, PublishDraftValidate, Judge, Forward, TellProposal, Onward,
         GoTo,
                tables, history, PipelineInv, TypeOK
  <2> QED BY <2>1, OthersKeepAccount
<1>4. ASSUME NEW step \in Steps("publisher"), GoTo("publisher", step), j # Idle
      PROVE  job'["publisher"].at = step /\ job'["publisher"].msg = j.msg
  BY <1>4, Stepping
<1>5. CASE Check
  <2>1. UNCHANGED <<published, onChain, redone>> /\ j.at = "check" /\ j # Idle
    BY <1>5 DEF Check, history, At, Idle
  <2>2. CASE GoTo("publisher", "ack")
    <3>1. job'["publisher"].at = "ack" BY <2>1, <2>2, <1>4, StepsOf
    <3> QED BY <2>1, <3>1, OthersKeepAccount
  <2>3. CASE j.msg.id \notin published /\ GoTo("publisher", "create")
    <3>1. job'["publisher"].at = "create" /\ job'["publisher"].msg = j.msg
      BY <2>1, <2>3, <1>4, StepsOf
    <3> QED BY <2>1, <2>3, <3>1 DEF MarketsAccounted, OneMarket, Recording
  <2> QED BY <1>5, <2>1, <2>2, <2>3, NextWrite DEF Check, Onward
<1>6. CASE CreateMarket
  <2>1. /\ UNCHANGED <<published, redone>> /\ j.at = "create" /\ j # Idle
        /\ onChain' = [onChain EXCEPT ![j.msg.id] = @ + 1]
        /\ GoTo("publisher", "record")
    BY <1>6, NextWrite DEF CreateMarket, tables, history, At, Idle, Onward
  <2>2. job'["publisher"].at = "record" /\ job'["publisher"].msg = j.msg
    BY <2>1, <1>4, StepsOf
  <2>3. j.msg.id \notin published BY <2>1 DEF MarketsAccounted
  <2>4. onChain[j.msg.id] > 0 => j.msg.id \in redone["publisher"]
    BY <2>1, <2>3, Handling DEF MarketsAccounted, Recording, Inserted
  <2>5. \A d \in Drafts : onChain'[d] = IF d = j.msg.id THEN onChain[d] + 1 ELSE onChain[d]
    BY <2>1 DEF PipelineInv, TypeOK
  <2>6. \A d \in Drafts : onChain[d] \in Nat BY DEF PipelineInv, TypeOK
  <2>7. OneMarket' BY <2>1, <2>4, <2>5, <2>6 DEF MarketsAccounted, OneMarket
  <2> QED BY <2>1, <2>2, <2>3, <2>5, <2>7 DEF MarketsAccounted, Recording
<1>7. CASE Record
  <2>1. /\ UNCHANGED <<onChain, redone>> /\ j.at = "record" /\ j # Idle
        /\ published' = published \cup {j.msg.id}
        /\ GoTo("publisher", "tell")
    BY <1>7, NextWrite DEF Record, tables, history, At, Idle, Onward
  <2>2. job'["publisher"].at = "tell" BY <2>1, <1>4, StepsOf
  <2> QED BY <2>1, <2>2 DEF MarketsAccounted, OneMarket, Recording
<1>8. CASE TellProposal("publisher", "published") \/ WriteLog
  <2>1. /\ UNCHANGED <<published, onChain, redone>> /\ j.at # "record" /\ j # Idle
        /\ GoTo("publisher", "log") \/ GoTo("publisher", "ack")
    BY <1>8, NextWrite DEF TellProposal, WriteLog, tables, history, At, Idle, Onward
  <2>2. job'["publisher"].at \in {"log", "ack"} BY <2>1, <1>4, StepsOf
  <2> QED BY <2>1, <2>2, OthersKeepAccount
<1>9. ASSUME NEW c \in Candidates,
             Propose(c) \/ StartProcessing(c) \/ PublishCandidate(c) \/ Review(c)
      PROVE  MarketsAccounted'
  BY <1>9, OthersKeepAccount DEF Propose, StartProcessing, PublishCandidate, Review,
                                workers, tables, history
<1>10. ASSUME NEW d \in Drafts, HourPasses(d) \/ Expire(d) PROVE MarketsAccounted'
  BY <1>10, OthersKeepAccount DEF HourPasses, Expire, workers, history
<1>11. CASE UNCHANGED vars
  BY <1>11, OthersKeepAccount DEF vars, workers, tables, history
<1>12. ASSUME NEW w \in Workers, Handler(w) PROVE MarketsAccounted'
  BY <1>12, <1>3, <1>5, <1>6, <1>7, <1>8 DEF Handler
<1> QED BY <1>1, <1>2, <1>9, <1>10, <1>11, <1>12 DEF Next, Work

\* However many messages name a draft, and however often workers fail, die and
\* start again, the chain holds one market for it, unless the publisher was cut
\* off between creating it and recording it (processPublish in publisher.ts).
THEOREM OneMarketPerDraft == Spec => []OneMarket
<1>1. Init => PipelineInv /\ MarketsAccounted
  BY InitPipelineInv, InitMarketsAccounted
<1>2. PipelineInv /\ MarketsAccounted /\ [Next]_vars => (PipelineInv /\ MarketsAccounted)'
  BY NextKeepsPipelineInv, NextKeepsMarketsAccounted
<1>3. MarketsAccounted => OneMarket BY DEF MarketsAccounted
<1> QED BY <1>1, <1>2, <1>3, PTL DEF Spec

HIDE DEF Workers

(***************************************************************************)
(* What each step does to the messages of one worker.  A step is its own   *)
(* (it takes a message, gives it back, or writes), it is a message         *)
(* published for it, or it is nobody's and leaves the worker alone.        *)
(***************************************************************************)

\* Putting a message in a bag: exactly what is in it then, and how often.
LEMMA PutIn ==
  ASSUME NEW q, Hold(q), NEW w \in Workers, NEW m \in Messages(w)
  PROVE  /\ \A v \in Workers : v # w => Put(q, w, m)[v] = q[v]
         /\ BagToSet(Put(q, w, m)[w]) = BagToSet(q[w]) \cup {m}
         /\ m \notin BagToSet(q[w]) => Put(q, w, m)[w][m] = 1
         /\ \A n \in BagToSet(q[w]) : n # m => Put(q, w, m)[w][n] = q[w][n]
<1> DEFINE r == Put(q, w, m)
           B == q[w]
           C == B (+) SetToBag({m})
<1>1. r[w] = C /\ \A v \in Workers : v # w => r[v] = q[v]
  BY DEF Hold, Put
<1>2. DOMAIN C = DOMAIN B \cup {m} BY DEF SetToBag, (+)
<1>3. ASSUME NEW e \in DOMAIN B \cup {m}
      PROVE  C[e] = (IF e \in DOMAIN B THEN B[e] ELSE 0) + (IF e \in {m} THEN 1 ELSE 0)
  BY DEF SetToBag, (+)
<1>4. \A e \in DOMAIN B : B[e] \in Nat BY DEF Hold, IsABag
<1> HIDE DEF C, r
<1>5. m \notin DOMAIN B => C[m] = 1 BY <1>3
<1>6. \A n \in DOMAIN B : n # m => C[n] = B[n] BY <1>3, <1>4
<1>7. BagToSet(r[w]) = BagToSet(q[w]) \cup {m} BY <1>1, <1>2 DEF BagToSet
<1> QED BY <1>1, <1>5, <1>6, <1>7 DEF BagToSet, r

\* Taking one out: the other messages stay, and the last copy goes.
LEMMA TakenOut ==
  ASSUME NEW q, Hold(q), NEW w \in Workers, NEW m \in BagToSet(q[w])
  PROVE  /\ \A v \in Workers : v # w => Remove(q, w, m)[v] = q[v]
         /\ BagToSet(Remove(q, w, m)[w]) \subseteq BagToSet(q[w])
         /\ \A n \in BagToSet(q[w]) \ {m} :
              /\ n \in BagToSet(Remove(q, w, m)[w])
              /\ Remove(q, w, m)[w][n] = q[w][n]
         /\ q[w][m] = 1 => m \notin BagToSet(Remove(q, w, m)[w])
<1> DEFINE r == Remove(q, w, m)
           B == q[w]
           C == B (-) SetToBag({m})
           D == [e \in DOMAIN B |-> IF e \in {m} THEN B[e] - 1 ELSE B[e]]
<1>1. r[w] = C /\ \A v \in Workers : v # w => r[v] = q[v]
  BY DEF Hold, Remove
<1>2. C = [e \in {d \in DOMAIN D : D[d] > 0} |-> D[e]] BY DEF (-), SetToBag
<1>3. \A e \in DOMAIN B : B[e] \in Nat /\ B[e] > 0 BY DEF Hold, IsABag
<1>4. m \in DOMAIN B BY DEF BagToSet
<1>5. DOMAIN C = {e \in DOMAIN B : D[e] > 0} /\ \A e \in DOMAIN C : C[e] = D[e] BY <1>2
<1>6. \A n \in DOMAIN B : n # m => D[n] = B[n] OBVIOUS
<1>7. B[m] = 1 => D[m] = 0 BY <1>4
<1> HIDE DEF C, D, r
<1>8. \A n \in DOMAIN B \ {m} : n \in DOMAIN C /\ C[n] = B[n] BY <1>3, <1>5, <1>6
<1>9. B[m] = 1 => m \notin DOMAIN C BY <1>5, <1>7
<1> QED BY <1>1, <1>5, <1>8, <1>9 DEF BagToSet, r

Waiting(w) == BagToSet(queue[w]) \cup BagToSet(timers[w])

Still(w) ==
  /\ queue'[w] = queue[w] /\ timers'[w] = timers[w] /\ dead'[w] = dead[w]
  /\ job'[w] = job[w]

\* A handler's write: the job goes on with the same message.
Writes(w) ==
  /\ queue'[w] = queue[w] /\ timers'[w] = timers[w] /\ dead'[w] = dead[w]
  /\ job[w] # Idle /\ job'[w] # Idle /\ job'[w].msg = job[w].msg
  /\ job[w].at # "ack" /\ job'[w].at \in Steps(w) /\ job'[w].at # First[w]
  /\ Handler(w)

Acks(w) ==
  /\ queue'[w] = queue[w] /\ timers'[w] = timers[w] /\ dead'[w] = dead[w]
  /\ job[w].at = "ack" /\ job'[w] = Idle

\* A message about i is published for the worker.
Receives(w, i) ==
  /\ queue' = Publish(w, i) /\ timers' = timers /\ dead' = dead
  /\ job'[w] = job[w] /\ i \in Ids(w)
  /\ \/ w = "generator" /\ i \in Candidates /\ PublishCandidate(i)
     \/ w = "validator" /\ PublishDraftValidate /\ i = job["generator"].draft
     \/ w = "publisher" /\ Forward /\ i = job["validator"].msg.id

Moves(w) ==
  \/ Still(w) \/ Writes(w) \/ Acks(w) \/ (\E i : Receives(w, i))
  \/ Take(w) \/ TakeDisabled(w) \/ Fail(w) \/ Retry(w) \/ Stop(w)

\* A step of another worker's loop is nobody's.
LEMMA OthersLoop ==
  ASSUME PipelineInv, NEW w \in Workers, NEW v \in Workers, v # w,
         Take(v) \/ TakeDisabled(v) \/ Ack(v) \/ Fail(v) \/ Retry(v) \/ Stop(v)
  PROVE  Still(w)
<1>0. Hold(queue) /\ Hold(timers) /\ Hold(dead) /\ DOMAIN job = Workers
  BY Holding DEF PipelineInv, TypeOK
<1>1. CASE Take(v) BY <1>0, <1>1 DEF Take, Still, Remove, Hold
<1>2. CASE TakeDisabled(v)
  BY <1>0, <1>2 DEF TakeDisabled, Still, Remove, Put, Hold, workers
<1>3. CASE Ack(v) BY <1>0, <1>3 DEF Ack, Still, queues
<1>4. CASE Fail(v) BY <1>0, <1>4 DEF Fail, Still, Put, Hold
<1>5. CASE Retry(v) BY <1>0, <1>5 DEF Retry, Still, Put, Remove, Hold, workers
<1>6. CASE Stop(v) BY <1>0, <1>6 DEF Stop, Restart, Still, Put, Hold
<1> QED BY <1>1, <1>2, <1>3, <1>4, <1>5, <1>6

\* The handlers' writes, as their worker sees them and as the others do.
LEMMA WritersMove ==
  ASSUME PipelineInv, NEW w \in Workers, NEW v \in Workers, Handler(v)
  PROVE  Moves(w)
<1>0. Hold(queue) /\ DOMAIN job = Workers BY Holding DEF PipelineInv, TypeOK
<1>1. /\ job[v] # Idle /\ job[v].at # "ack" /\ timers' = timers /\ dead' = dead
      /\ \A u \in Workers : u # v => job'[u] = job[u]
  BY <1>0 DEF Handler, Generate, PublishDraftValidate, Judge, TellProposal, Forward,
       Check,
     CreateMarket, Record, WriteLog, At, Idle, GoTo, Onward, queues
<1>2. /\ job'[v] # Idle /\ job'[v].msg = job[v].msg
      /\ job'[v].at \in Steps(v) /\ job'[v].at # First[v]
  <2>1. \A step \in Steps(v) : GoTo(v, step) => job'[v].msg = job[v].msg /\ job'[v].at = step
                                                  /\ job'[v] # Idle
    BY <1>1, Stepping
  <2>2. CASE v = "generator"
    <3>1. CASE Generate
      <4>1. PICK d \in Drafts :
              job' = [job EXCEPT !["generator"].at = "send", !["generator"].draft = d]
        BY <3>1, NextWrite DEF Generate
      <4>2. job["generator"] \in Jobs("generator") BY <1>1, <2>2, Handling
      <4> QED BY <4>1, <4>2, <1>0, <2>2, StepsOf DEF Jobs, Idle, First
    <3>2. CASE PublishDraftValidate
      <4>1. GoTo("generator", "ack") BY <3>2, NextWrite DEF PublishDraftValidate, Onward,
          At
      <4> QED BY <4>1, <2>1, <2>2, StepsOf DEF First
    <3> QED BY <2>2, <3>1, <3>2 DEF Handler
  <2>3. CASE v = "validator"
    <3>1. CASE Judge
      <4>1. PICK r \in Rulings :
              job' = [job EXCEPT !["validator"].at = "tell", !["validator"].ruling = r]
        BY <3>1, NextWrite DEF Judge
      <4>2. job["validator"] \in Jobs("validator") BY <1>1, <2>3, Handling
      <4> QED BY <4>1, <4>2, <1>0, <2>3, StepsOf DEF Jobs, Idle, First
    <3>2. CASE TellProposal("validator", job["validator"].ruling) \/ Forward
      <4>1. GoTo("validator", "ack") \/ GoTo("validator", "forward")
        BY <3>2, NextWrite DEF TellProposal, Forward, Onward, At
      <4> QED BY <4>1, <2>1, <2>3, StepsOf DEF First
    <3> QED BY <2>3, <3>1, <3>2 DEF Handler
  <2>4. CASE v = "publisher"
    <3>1. \E step \in {"create", "record", "tell", "log", "ack"} : GoTo("publisher", step)
      BY <2>4, NextWrite
      DEF Handler, Check, CreateMarket, Record, TellProposal, WriteLog, Onward, At
    <3> QED BY <3>1, <2>1, <2>4, StepsOf DEF First
  <2> QED BY <2>2, <2>3, <2>4 DEF Workers
<1>3. CASE w = v
  <2>1. queue'[v] = queue[v]
    <3>1. CASE PublishDraftValidate /\ v = "generator"
      BY <1>0, <3>1 DEF PublishDraftValidate, Publish, Put, Hold
    <3>2. CASE Forward /\ v = "validator"
      BY <1>0, <3>2 DEF Forward, Publish, Put, Hold
    <3>3. CASE queue' = queue BY <3>3
    <3> QED
      BY <3>1, <3>2, <3>3 DEF Handler, Generate, Judge, TellProposal, Check,
         CreateMarket, Record, WriteLog, queues
  <2> QED BY <1>1, <1>2, <1>3, <2>1 DEF Moves, Writes
<1>4. CASE w # v
  <2>1. CASE PublishDraftValidate /\ v = "generator"
    <3> DEFINE d == job["generator"].draft
    <3>1. v = "generator" /\ queue' = Publish("validator", d)
      BY <2>1 DEF PublishDraftValidate
    <3>2. d \in Drafts BY <2>1 DEF PublishDraftValidate, At, PipelineInv, Drafted,
        Inserted
    <3>3. CASE w = "validator"
      BY <2>1, <1>1, <1>4, <3>1, <3>2, <3>3 DEF Moves, Receives, Ids
    <3>4. CASE w # "validator"
      BY <1>0, <1>1, <1>4, <3>1, <3>4 DEF Moves, Still, Publish, Put, Hold
    <3> QED BY <3>3, <3>4
  <2>2. CASE Forward /\ v = "validator"
    <3> DEFINE d == job["validator"].msg.id
    <3>1. queue' = Publish("publisher", d) \/ queue' = queue
      BY <2>2 DEF Forward
    <3>2. d \in Drafts BY <2>2, Handling DEF Forward, At, Idle, Inserted
    <3>3. CASE w = "publisher"
      BY <2>2, <1>1, <1>4, <3>1, <3>2, <3>3 DEF Moves, Receives, Still, Ids
    <3>4. CASE w # "publisher"
      BY <1>0, <1>1, <1>4, <3>1, <3>4 DEF Moves, Still, Publish, Put, Hold
    <3> QED BY <3>3, <3>4
  <2>3. CASE queue' = queue BY <1>1, <1>4, <2>3 DEF Moves, Still
  <2> QED
    BY <2>1, <2>2, <2>3 DEF Handler, Generate, Judge, TellProposal, Check,
       CreateMarket, Record, WriteLog, queues
<1> QED BY <1>3, <1>4

LEMMA EveryStepMoves ==
  ASSUME PipelineInv, [Next]_vars, NEW w \in Workers
  PROVE  Moves(w)
<1>0. Hold(queue) BY Holding
<1>1. ASSUME NEW v \in Workers, Take(v) \/ TakeDisabled(v) \/ Fail(v) \/ Retry(v) \/ Stop(v)
      PROVE  Moves(w)
  <2>1. CASE w = v BY <1>1, <2>1 DEF Moves
  <2>2. CASE w # v BY <1>1, <2>2, OthersLoop DEF Moves
  <2> QED BY <2>1, <2>2
<1>2. ASSUME NEW v \in Workers, Ack(v) PROVE Moves(w)
  <2>1. CASE w = v
    <3>1. Acks(v) BY <1>2 DEF Ack, Acks, At, queues, PipelineInv, TypeOK
    <3> QED BY <2>1, <3>1 DEF Moves
  <2>2. CASE w # v BY <1>2, <2>2, OthersLoop DEF Moves
  <2> QED BY <2>1, <2>2
<1>3. ASSUME NEW v \in Workers, Handler(v) PROVE Moves(w) BY <1>3, WritersMove
<1>4. ASSUME NEW v \in Workers, Rested(v) \/ Disconnect(v) \/ Heartbeat(v)
      PROVE  Moves(w)
  BY <1>4 DEF Rested, Disconnect, Heartbeat, Moves, Still, queues
<1>5. ASSUME NEW c \in Candidates, PublishCandidate(c) PROVE Moves(w)
  <2>1. queue' = Publish("generator", c) /\ timers' = timers /\ dead' = dead /\ job' = job
    BY <1>5 DEF PublishCandidate, workers
  <2>2. CASE w = "generator" BY <1>5, <2>1, <2>2 DEF Moves, Receives, Ids
  <2>3. CASE w # "generator" BY <1>0, <2>1, <2>3 DEF Moves, Still, Publish, Put, Hold
  <2> QED BY <2>2, <2>3
<1>6. ASSUME NEW c \in Candidates, Propose(c) \/ StartProcessing(c) \/ Review(c)
      PROVE  Moves(w)
  BY <1>6 DEF Propose, StartProcessing, Review, Moves, Still, queues, workers
<1>7. ASSUME NEW d \in Drafts, HourPasses(d) \/ Expire(d) PROVE Moves(w)
  BY <1>7 DEF HourPasses, Expire, Moves, Still, queues, workers
<1>8. CASE UNCHANGED vars BY <1>8 DEF vars, queues, workers, Moves, Still
<1> QED BY <1>1, <1>2, <1>3, <1>4, <1>5, <1>6, <1>7, <1>8 DEF Next, Work

Awaiting(w, i) == \E m \in Waiting(w) : m.id = i
Handled(w, i) == job[w] # Idle /\ job[w].msg.id = i
Names(w, i) == Awaiting(w, i) \/ Handled(w, i)

\* Where the job of a worker comes from: it is the same, a write further, or
\* a message that was waiting.
LEMMA JobFrom ==
  ASSUME PipelineInv, NEW w \in Workers, Moves(w), job'[w] # Idle
  PROVE  \/ job'[w] = job[w]
         \/ /\ job[w] # Idle /\ job[w].at # "ack" /\ job'[w].msg = job[w].msg
            /\ job'[w].at # First[w] /\ Handler(w)
         \/ /\ job[w] = Idle /\ Take(w)
            /\ job'[w].at = First[w] /\ job'[w].msg \in BagToSet(queue[w])
<1>0. DOMAIN job = Workers BY DEF PipelineInv, TypeOK
<1>1. CASE Take(w) BY <1>0, <1>1 DEF Take, Idle
<1>2. CASE Fail(w) \/ Stop(w) \/ Acks(w) BY <1>0, <1>2 DEF Fail, Stop, Restart, Acks
<1>3. CASE TakeDisabled(w) \/ Retry(w) BY <1>3 DEF TakeDisabled, Retry, workers
<1> QED BY <1>1, <1>2, <1>3 DEF Moves, Still, Writes, Receives

\* Where a waiting message comes from: it was waiting, it is new, or the worker
\* was cut off while it handled it.
LEMMA AwaitingFrom ==
  ASSUME PipelineInv, NEW w \in Workers, Moves(w), NEW i, Awaiting(w, i)'
  PROVE  \/ Awaiting(w, i) \/ Receives(w, i)
         \/ Handled(w, i) /\ job'[w] = Idle /\ CutOff(w)
<1>0. Hold(queue) /\ Hold(timers) /\ DOMAIN job = Workers BY Holding DEF PipelineInv,
    TypeOK
<1>1. CASE Take(w) \/ TakeDisabled(w)
  <2>1. PICK m \in BagToSet(queue[w]) : queue' = Remove(queue, w, m)
    BY <1>1 DEF Take, TakeDisabled
  <2>2. BagToSet(queue'[w]) \subseteq BagToSet(queue[w]) BY <1>0, <2>1, TakenOut
  <2> QED BY <1>1, <2>2 DEF Take, TakeDisabled, Awaiting, Waiting
<1>2. CASE Fail(w)
  <2> DEFINE m == job[w].msg
             again == [m EXCEPT !.tries = @ + 1]
  <2>1. job[w] # Idle /\ job'[w] = Idle /\ CutOff(w) /\ queue' = queue
    BY <1>0, <1>2 DEF Fail
  <2>2. CASE m.tries < MaxTries /\ timers' = Put(timers, w, again)
    <3>1. again \in Messages(w) /\ again.id = m.id
      BY <2>1, <2>2, Handling, BoundsAssumption DEF Messages
    <3> HIDE DEF again, m
    <3>2. BagToSet(timers'[w]) = BagToSet(timers[w]) \cup {again}
      BY <1>0, <2>2, <3>1, PutIn
    <3> QED BY <2>1, <3>1, <3>2 DEF Awaiting, Waiting, Handled, m
  <2>3. CASE timers' = timers BY <2>1, <2>3 DEF Awaiting, Waiting
  <2> QED BY <1>2, <2>2, <2>3 DEF Fail
<1>3. CASE Retry(w)
  <2>1. PICK m \in BagToSet(timers[w]) :
          timers' = Remove(timers, w, m) /\ (queue' = Put(queue, w, m) \/ queue' = queue)
    BY <1>3 DEF Retry
  <2>2. m \in Messages(w) BY <1>0 DEF Hold
  <2>3. BagToSet(timers'[w]) \subseteq BagToSet(timers[w]) BY <1>0, <2>1, TakenOut
  <2>4. BagToSet(queue'[w]) \subseteq BagToSet(queue[w]) \cup {m}
    BY <1>0, <2>1, <2>2, PutIn
  <2> QED BY <2>3, <2>4 DEF Awaiting, Waiting
<1>4. CASE Stop(w)
  <2>1. job'[w] = Idle /\ CutOff(w) /\ BagToSet(timers'[w]) = {}
    BY <1>0, <1>4 DEF Stop, Restart, Hold, EmptyBag, SetToBag, BagToSet
  <2>2. CASE job[w] = Idle BY <1>4, <2>1, <2>2 DEF Stop, Restart, Awaiting, Waiting
  <2>3. CASE job[w] # Idle
    <3> DEFINE m == job[w].msg
    <3>1. m \in Messages(w) /\ queue' = Put(queue, w, m) BY <1>4, <2>3,
        Handling DEF Stop, Restart
    <3> HIDE DEF m
    <3>2. BagToSet(queue'[w]) = BagToSet(queue[w]) \cup {m} BY <1>0, <3>1, PutIn
    <3> QED BY <2>1, <2>3, <3>2 DEF Awaiting, Waiting, Handled, m
  <2> QED BY <2>2, <2>3
<1>5. ASSUME NEW k, Receives(w, k) PROVE Awaiting(w, i) \/ Receives(w, i)
  <2> DEFINE m == [id |-> k, tries |-> 0]
  <2>1. m \in Messages(w) /\ m.id = k BY <1>5, BoundsAssumption DEF Receives, Messages
  <2>2. queue' = Put(queue, w, m) /\ timers' = timers BY <1>5 DEF Receives, Publish
  <2> HIDE DEF m
  <2>3. BagToSet(queue'[w]) = BagToSet(queue[w]) \cup {m} BY <1>0, <2>1, <2>2, PutIn
  <2> QED BY <1>5, <2>1, <2>2, <2>3 DEF Awaiting, Waiting
<1>6. CASE Still(w) \/ Writes(w) \/ Acks(w)
  BY <1>6 DEF Still, Writes, Acks, Awaiting, Waiting
<1> QED BY <1>1, <1>2, <1>3, <1>4, <1>5, <1>6 DEF Moves

LEMMA NamesFrom ==
  ASSUME PipelineInv, NEW w \in Workers, Moves(w), NEW i, Names(w, i)'
  PROVE  Names(w, i) \/ Receives(w, i)
<1>1. CASE Awaiting(w, i)' BY <1>1, AwaitingFrom DEF Names
<1>2. CASE Handled(w, i)' BY <1>2, JobFrom DEF Names, Handled, Awaiting, Waiting
<1> QED BY <1>1, <1>2 DEF Names

(***************************************************************************)
(* Nothing is lost.  The inductive invariant does not count a job that has *)
(* made its last write: before a handler acknowledges, the candidate is    *)
(* already with the next worker, or settled.  For that the later stages of *)
(* a handler must remember what the earlier ones wrote.                    *)
(***************************************************************************)

\* The worker has yet to do something about i.
Live(w, i) == Awaiting(w, i) \/ (Handled(w, i) /\ job[w].at # "ack")

InDead(w, i) == \E m \in BagToSet(dead[w]) : m.id = i

Of(w, i) == IF w = "generator" THEN i ELSE origin[i]

Safe(c) ==
  \/ \E w \in Workers : \E i \in Ids(w) : Of(w, i) = c /\ (Live(w, i) \/ InDead(w, i))
  \/ Settled(c) \/ c \in forgotten

Over(d) == d \in published \/ status[d] \in {"canceled", "pending_review", "rate_limited"}

OwnDraft ==
  job["generator"].at = "send" =>
    origin[job["generator"].draft] = job["generator"].msg.id

RulingWritten ==
  job["validator"].at \in {"tell", "forward"} /\ job["validator"].ruling # "approved" =>
    Over(job["validator"].msg.id)

AddressWritten ==
  job["publisher"].at \in {"tell", "log"} => job["publisher"].msg.id \in published

Accounted ==
  (\A c \in sent : Safe(c)) /\ OwnDraft /\ RulingWritten /\ AddressWritten

\* What a worker had to do it has still to do, or it gave it up, forgot it with
\* its timers, or made its last write.
LEMMA LiveGoes ==
  ASSUME PipelineInv, NEW w \in Workers, Moves(w), NEW i, Live(w, i)
  PROVE  \/ Live(w, i)' \/ InDead(w, i)'
         \/ \E m \in BagToSet(timers[w]) : m.id = i /\ About(w, m) \in forgotten'
         \/ Handled(w, i) /\ Handler(w) /\ job[w].at # "ack" /\ job'[w].at = "ack"
<1>0. Hold(queue) /\ Hold(timers) /\ Hold(dead) /\ DOMAIN job = Workers
  BY Holding DEF PipelineInv, TypeOK
<1>1. CASE Take(w)
  <2>1. PICK m \in BagToSet(queue[w]) :
          /\ queue' = Remove(queue, w, m) /\ timers' = timers /\ job[w] = Idle
          /\ job' = [job EXCEPT ![w] = [Idle EXCEPT !.msg = m, !.at = First[w]]]
    BY <1>1 DEF Take
  <2>2. \A n \in BagToSet(queue[w]) \ {m} : n \in BagToSet(queue'[w])
    BY <1>0, <2>1, TakenOut
  <2>3. job'[w] = [msg |-> m, at |-> First[w], draft |-> None, ruling |-> None]
    BY <1>0, <2>1 DEF Idle
  <2>4. First[w] \notin {"ack", "idle"} BY DEF First, Workers
  <2>5. job'[w] # Idle /\ job'[w].msg = m /\ job'[w].at # "ack"
    BY <2>3, <2>4 DEF Idle
  <2> QED BY <2>1, <2>2, <2>5 DEF Live, Awaiting, Waiting, Handled
<1>2. CASE TakeDisabled(w)
  <2>1. PICK m \in BagToSet(queue[w]) :
          queue' = Remove(queue, w, m) /\ dead' = Put(dead, w, m)
    BY <1>2 DEF TakeDisabled
  <2>2. timers' = timers /\ job' = job BY <1>2 DEF TakeDisabled, workers
  <2>3. m \in Messages(w) BY <1>0 DEF Hold
  <2>4. BagToSet(dead'[w]) = BagToSet(dead[w]) \cup {m} BY <1>0, <2>1, <2>3, PutIn
  <2>5. \A n \in BagToSet(queue[w]) \ {m} : n \in BagToSet(queue'[w])
    BY <1>0, <2>1, TakenOut
  <2> QED BY <2>2, <2>4, <2>5 DEF Live, Awaiting, Waiting, Handled, InDead
<1>3. CASE Fail(w)
  <2> DEFINE m == job[w].msg
             again == [m EXCEPT !.tries = @ + 1]
  <2>1. job[w] # Idle /\ queue' = queue /\ m \in Messages(w)
    BY <1>3, Handling DEF Fail
  <2>2. CASE m.tries < MaxTries /\ timers' = Put(timers, w, again)
    <3>1. again \in Messages(w) /\ again.id = m.id
      BY <2>1, <2>2, BoundsAssumption DEF Messages
    <3> HIDE DEF again, m
    <3>2. BagToSet(timers'[w]) = BagToSet(timers[w]) \cup {again}
      BY <1>0, <2>2, <3>1, PutIn
    <3> QED BY <2>1, <3>1, <3>2 DEF Live, Awaiting, Waiting, Handled, m
  <2>3. CASE dead' = Put(dead, w, m) /\ timers' = timers
    <3> HIDE DEF m
    <3>1. BagToSet(dead'[w]) = BagToSet(dead[w]) \cup {m} BY <1>0, <2>1, <2>3, PutIn
    <3> QED BY <2>1, <2>3, <3>1 DEF Live, Awaiting, Waiting, Handled, InDead, m
  <2> QED BY <1>3, <2>2, <2>3 DEF Fail
<1>4. CASE Retry(w)
  <2>1. PICK m \in BagToSet(timers[w]) :
          /\ timers' = Remove(timers, w, m)
          /\ \/ queue' = Put(queue, w, m)
             \/ queue' = queue /\ About(w, m) \in forgotten'
    BY <1>4 DEF Retry
  <2>2. m \in Messages(w) /\ job' = job BY <1>0, <1>4 DEF Hold, Retry, workers
  <2>3. \A n \in BagToSet(timers[w]) \ {m} : n \in BagToSet(timers'[w])
    BY <1>0, <2>1, TakenOut
  <2>4. CASE queue' = Put(queue, w, m)
    <3>1. BagToSet(queue'[w]) = BagToSet(queue[w]) \cup {m} BY <1>0, <2>2, <2>4, PutIn
    <3> QED BY <2>2, <2>3, <3>1 DEF Live, Awaiting, Waiting, Handled
  <2>5. CASE queue' = queue /\ About(w, m) \in forgotten'
    BY <2>2, <2>3, <2>5 DEF Live, Awaiting, Waiting, Handled
  <2> QED BY <2>1, <2>4, <2>5
<1>5. CASE Stop(w)
  <2>0. \A m \in BagToSet(timers[w]) : About(w, m) \in forgotten'
    BY <1>5 DEF Stop, Restart
  <2>1. CASE job[w] = Idle
    BY <1>5, <2>0, <2>1 DEF Stop, Restart, Live, Awaiting, Waiting, Handled
  <2>2. CASE job[w] # Idle
    <3> DEFINE m == job[w].msg
    <3>1. m \in Messages(w) /\ queue' = Put(queue, w, m) BY <1>5, <2>2,
        Handling DEF Stop, Restart
    <3> HIDE DEF m
    <3>2. BagToSet(queue'[w]) = BagToSet(queue[w]) \cup {m} BY <1>0, <3>1, PutIn
    <3> QED BY <1>5, <2>0, <2>2, <3>2 DEF Live, Awaiting, Waiting, Handled, m
  <2> QED BY <2>1, <2>2
<1>6. ASSUME NEW k, Receives(w, k) PROVE Live(w, i)'
  <2> DEFINE m == [id |-> k, tries |-> 0]
  <2>1. m \in Messages(w) BY <1>6, BoundsAssumption DEF Receives, Messages
  <2>2. queue' = Put(queue, w, m) /\ timers' = timers /\ job'[w] = job[w]
    BY <1>6 DEF Receives, Publish
  <2> HIDE DEF m
  <2>3. BagToSet(queue'[w]) = BagToSet(queue[w]) \cup {m} BY <1>0, <2>1, <2>2, PutIn
  <2> QED BY <2>2, <2>3 DEF Live, Awaiting, Waiting, Handled
<1>7. CASE Still(w) BY <1>7 DEF Still, Live, Awaiting, Waiting, Handled
<1>8. CASE Writes(w) BY <1>8 DEF Writes, Live, Awaiting, Waiting, Handled
<1>9. CASE Acks(w) BY <1>9 DEF Acks, Live, Awaiting, Waiting, Handled
<1> QED BY <1>1, <1>2, <1>3, <1>4, <1>5, <1>6, <1>7, <1>8, <1>9 DEF Moves

\* Nothing leaves a dead-letter queue.
LEMMA DeadStays ==
  ASSUME PipelineInv, NEW w \in Workers, Moves(w), NEW i, InDead(w, i)
  PROVE  InDead(w, i)'
<1>0. Hold(queue) /\ Hold(dead) /\ DOMAIN job = Workers BY Holding DEF PipelineInv, TypeOK
<1>1. CASE TakeDisabled(w)
  <2>1. PICK m \in BagToSet(queue[w]) : dead' = Put(dead, w, m) BY <1>1 DEF TakeDisabled
  <2>2. m \in Messages(w) BY <1>0 DEF Hold
  <2>3. BagToSet(dead'[w]) = BagToSet(dead[w]) \cup {m} BY <1>0, <2>1, <2>2, PutIn
  <2> QED BY <2>3 DEF InDead
<1>2. CASE Fail(w)
  <2>1. CASE dead' = dead BY <2>1 DEF InDead
  <2>2. CASE dead' = Put(dead, w, job[w].msg)
    <3> DEFINE m == job[w].msg
    <3>1. m \in Messages(w) BY <1>2, Handling DEF Fail
    <3> HIDE DEF m
    <3>2. BagToSet(dead'[w]) = BagToSet(dead[w]) \cup {m} BY <1>0, <2>2, <3>1, PutIn DEF m
    <3> QED BY <3>2 DEF InDead
  <2> QED BY <1>2, <2>1, <2>2 DEF Fail
<1>3. CASE dead'[w] = dead[w] BY <1>3 DEF InDead
<1> QED BY <1>1, <1>2, <1>3 DEF Moves, Still, Writes, Acks, Receives, Take, Retry, Stop,
    Restart

\* A row of ai_markets keeps its candidate.
LEMMA OriginStays ==
  ASSUME PipelineInv, [Next]_vars, NEW d \in Drafts
  PROVE  \/ origin'[d] = origin[d]
         \/ origin[d] = None /\ Generate /\ job'["generator"].draft = d
<1>1. CASE Generate
  <2>1. PICK e \in Drafts :
          /\ origin[e] = None
          /\ origin' = [origin EXCEPT ![e] = job["generator"].msg.id]
          /\ job' = [job EXCEPT !["generator"].at = After.generator.generate,
                                !["generator"].draft = e]
    BY <1>1 DEF Generate
  <2>2. job["generator"] \in Jobs("generator") /\ DOMAIN job = Workers
    BY <1>1, Handling DEF Generate, At, Idle, Workers, PipelineInv, TypeOK
  <2>3. job'["generator"].draft = e BY <2>1, <2>2 DEF Jobs, Workers
  <2> QED BY <1>1, <2>1, <2>3 DEF PipelineInv, TypeOK
<1>2. CASE origin' = origin BY <1>2
<1> QED
  BY <1>1, <1>2 DEF Next, Work, Take, TakeDisabled, Ack, Rested, Fail, Retry, Stop,
       Restart,
     Disconnect, Heartbeat, Handler, PublishDraftValidate, Judge, TellProposal, Forward,
     Check,
     CreateMarket, Record, WriteLog, Propose, StartProcessing, PublishCandidate, Review,
     HourPasses, Expire, tables, vars

\* So what a message names stays what it is about.
LEMMA OfStays ==
  ASSUME PipelineInv, [Next]_vars, NEW w \in Workers, NEW i \in Ids(w),
         NEW c \in Candidates, Of(w, i) = c
  PROVE  Of(w, i)' = c
  BY OriginStays, NoneAssumption DEF Of, Ids

\* Where a draft's fate can change: the validator may judge it again.
LEMMA OverStays ==
  ASSUME PipelineInv, [Next]_vars, NEW d \in Drafts, Inserted(d), Over(d)
  PROVE  Over(d)' \/ (Judge /\ Handled("validator", d))
<1>1. origin[d] # None BY NoneAssumption DEF Inserted
<1>2. CASE Generate BY <1>1, <1>2 DEF Generate, Over, PipelineInv, TypeOK
<1>3. CASE Judge
  <2>1. job["validator"] # Idle BY <1>3 DEF Judge, At, Idle
  <2>2. PICK r \in Rulings :
          status' = [status EXCEPT ![job["validator"].msg.id] = StatusOf(r)]
    BY <1>3 DEF Judge
  <2>3. CASE job["validator"].msg.id = d BY <1>3, <2>1, <2>3 DEF Handled
  <2>4. CASE job["validator"].msg.id # d
    BY <1>3, <2>2, <2>4 DEF Judge, Over, PipelineInv, TypeOK
  <2> QED BY <2>3, <2>4
<1>4. CASE Check BY <1>4 DEF Check, Over, PipelineInv, TypeOK
<1>5. CASE Record BY <1>5 DEF Record, Over, PipelineInv, TypeOK
<1>6. ASSUME NEW e \in Drafts, Expire(e) PROVE Over(d)'
  BY <1>6 DEF Expire, Over, PipelineInv, TypeOK
<1>7. CASE UNCHANGED <<status, published>> BY <1>7 DEF Over
<1> QED
  BY <1>2, <1>3, <1>4, <1>5, <1>6, <1>7 DEF Next, Work, Take, TakeDisabled, Ack, Rested,
       Fail,
     Retry, Stop, Restart, Disconnect, Heartbeat, Handler, PublishDraftValidate,
     TellProposal, Forward,
     CreateMarket, WriteLog, Propose, StartProcessing, PublishCandidate, Review,
     HourPasses, Expire, tables, vars

\* What the stages of the handlers remember.
LEMMA StagesKeep ==
  ASSUME PipelineInv, PipelineInv', OwnDraft, RulingWritten, AddressWritten, [Next]_vars
  PROVE  (OwnDraft /\ RulingWritten /\ AddressWritten)'
<1>0. /\ {"generator", "validator", "publisher"} \subseteq Workers /\ DOMAIN job = Workers
      /\ \A w \in Workers : Moves(w)
  BY EveryStepMoves DEF Workers, PipelineInv, TypeOK
<1>1. OwnDraft'
  <2> DEFINE j == job["generator"]
  <2> SUFFICES ASSUME job'["generator"].at = "send"
               PROVE  origin'[job'["generator"].draft] = job'["generator"].msg.id
    BY DEF OwnDraft
  <2>1. CASE job'["generator"] = j
    <3>1. Inserted(j.draft) BY <2>1 DEF PipelineInv, Drafted
    <3>2. origin'[j.draft] = origin[j.draft]
      BY <3>1, OriginStays, NoneAssumption DEF Inserted
    <3> QED BY <2>1, <3>2 DEF OwnDraft
  <2>2. CASE j # Idle /\ Handler("generator")
    <3>1. CASE Generate
      <4>1. PICK d \in Drafts :
              /\ origin' = [origin EXCEPT ![d] = j.msg.id]
              /\ job' = [job EXCEPT !["generator"].at = After.generator.generate,
                                    !["generator"].draft = d]
        BY <3>1 DEF Generate
      <4>2. j \in Jobs("generator") BY <1>0, <2>2, Handling
      <4>3. job'["generator"].draft = d /\ job'["generator"].msg = j.msg
        BY <1>0, <4>1, <4>2 DEF Jobs
      <4> QED BY <4>1, <4>3 DEF PipelineInv, TypeOK
    <3>2. CASE PublishDraftValidate
      <4>1. GoTo("generator", "ack") /\ j # Idle
        BY <3>2, NextWrite DEF PublishDraftValidate, Onward, At, Idle
      <4> QED BY <1>0, <4>1, Stepping, StepsOf
    <3> QED BY <2>2, <3>1, <3>2 DEF Handler
  <2>3. CASE job'["generator"].at = First["generator"] BY <2>3 DEF First
  <2> QED BY <1>0, <2>1, <2>2, <2>3, JobFrom DEF Idle
<1>2. RulingWritten'
  <2> DEFINE j == job["validator"]
             d == j.msg.id
  <2> SUFFICES ASSUME job'["validator"].at \in {"tell", "forward"},
                      job'["validator"].ruling # "approved",
                      NEW e, e = job'["validator"].msg.id
               PROVE  Over(e)'
    BY DEF RulingWritten, Over
  <2>1. CASE job'["validator"] = j
    <3>1. Over(d) /\ j # Idle BY <2>1 DEF RulingWritten, Idle
    <3>2. Inserted(d) /\ d \in Drafts BY <1>0, <3>1, Handling DEF Inserted
    <3>3. ~Judge
      <4> SUFFICES ASSUME Judge PROVE FALSE OBVIOUS
      <4>1. j.at = "judge" BY DEF Judge, At
      <4> QED BY <2>1, <4>1
    <3>4. e = d BY <2>1
    <3> HIDE DEF d
    <3> QED BY <3>1, <3>2, <3>3, <3>4, OverStays
  <2>2. CASE j # Idle /\ Handler("validator") /\ job'["validator"].msg = j.msg
    <3>0. Inserted(d) /\ d \in Drafts BY <1>0, <2>2, Handling DEF Inserted
    <3>1. CASE Judge
      <4>1. PICK r \in Rulings :
              /\ status' = [status EXCEPT ![d] = StatusOf(r)]
              /\ job' = [job EXCEPT !["validator"].at = After.validator.judge,
                                    !["validator"].ruling = r]
        BY <3>1 DEF Judge
      <4>2. j \in Jobs("validator") BY <1>0, <2>2, Handling
      <4>3. job'["validator"].ruling = r BY <1>0, <4>1, <4>2 DEF Jobs
      <4>4. status'[d] \in {"canceled", "pending_review"}
        BY <3>0, <4>1, <4>3 DEF PipelineInv, TypeOK, StatusOf, Rulings
      <4> HIDE DEF d
      <4> QED BY <2>2, <4>4 DEF Over, d
    <3>2. CASE TellProposal("validator", j.ruling)
      <4>1. GoTo("validator", "forward") /\ j.at = "tell"
        BY <3>2, NextWrite DEF TellProposal, Onward, At
      <4>2. job'["validator"].ruling = j.ruling BY <1>0, <2>2, <4>1, Stepping, StepsOf
      <4>3. Over(d) BY <4>1, <4>2 DEF RulingWritten
      <4>4. UNCHANGED <<status, published>> BY <3>2 DEF TellProposal
      <4> HIDE DEF d
      <4> QED BY <2>2, <4>3, <4>4 DEF Over, d
    <3>3. CASE Forward
      <4>1. GoTo("validator", "ack") BY <3>3, NextWrite DEF Forward, Onward, At
      <4> QED BY <1>0, <2>2, <4>1, Stepping, StepsOf
    <3> QED BY <2>2, <3>1, <3>2, <3>3 DEF Handler
  <2>3. CASE job'["validator"].at = First["validator"] BY <2>3 DEF First
  <2> QED BY <1>0, <2>1, <2>2, <2>3, JobFrom DEF Idle
<1>3. AddressWritten'
  <2> DEFINE j == job["publisher"]
  <2> SUFFICES ASSUME job'["publisher"].at \in {"tell", "log"}
               PROVE  job'["publisher"].msg.id \in published'
    BY DEF AddressWritten
  <2>0. published \subseteq published'
    BY DEF Next, Work, Take, TakeDisabled, Ack, Rested, Fail, Retry, Stop, Restart,
         Disconnect, Heartbeat,
       Handler, Generate, PublishDraftValidate, Judge, TellProposal, Forward, Check,
       CreateMarket, Record, WriteLog, Propose, StartProcessing, PublishCandidate, Review,
       HourPasses, Expire, tables, vars
  <2>1. CASE job'["publisher"] = j BY <2>0, <2>1 DEF AddressWritten
  <2>2. CASE j # Idle /\ Handler("publisher") /\ job'["publisher"].msg = j.msg
    <3>1. CASE Check
      <4>1. GoTo("publisher", "ack") \/ GoTo("publisher", "create")
        BY <3>1, NextWrite DEF Check, Onward, At
      <4> QED BY <1>0, <2>2, <4>1, Stepping, StepsOf
    <3>2. CASE CreateMarket
      <4>1. GoTo("publisher", "record") BY <3>2, NextWrite DEF CreateMarket, Onward, At
      <4> QED BY <1>0, <2>2, <4>1, Stepping, StepsOf
    <3>3. CASE Record BY <2>2, <3>3 DEF Record
    <3>4. CASE TellProposal("publisher", "published")
      BY <2>0, <2>2, <3>4 DEF TellProposal, At, AddressWritten
    <3>5. CASE WriteLog BY <2>0, <2>2, <3>5 DEF WriteLog, At, AddressWritten
    <3> QED BY <2>2, <3>1, <3>2, <3>3, <3>4, <3>5 DEF Handler
  <2>3. CASE job'["publisher"].at = First["publisher"] BY <2>3 DEF First
  <2> QED BY <1>0, <2>1, <2>2, <2>3, JobFrom DEF Idle
<1> QED BY <1>1, <1>2, <1>3

\* A message just published waits.
LEMMA PublishedWaits ==
  ASSUME PipelineInv, NEW w \in Workers, NEW i \in Ids(w), queue' = Publish(w, i)
  PROVE  Awaiting(w, i)'
<1> DEFINE m == [id |-> i, tries |-> 0]
<1>1. m \in Messages(w) /\ m.id = i BY BoundsAssumption DEF Messages
<1>2. queue' = Put(queue, w, m) /\ Hold(queue) BY Holding DEF Publish
<1> HIDE DEF m
<1>3. BagToSet(queue'[w]) = BagToSet(queue[w]) \cup {m} BY <1>1, <1>2, PutIn
<1> QED BY <1>1, <1>3 DEF Awaiting, Waiting

\* When a handler makes its last write, the candidate is with the next worker or
\* settled.
LEMMA HandedOver ==
  ASSUME PipelineInv, Accounted, [Next]_vars,
         NEW w \in Workers, NEW i \in Ids(w), NEW c \in Candidates, Of(w, i) = c,
         Handled(w, i), Handler(w), job[w].at # "ack", job'[w].at = "ack"
  PROVE  Safe(c)'
<1>0. /\ {"generator", "validator", "publisher"} \subseteq Workers /\ DOMAIN job = Workers
      /\ job[w] # Idle /\ job[w].msg.id = i
  BY DEF Workers, PipelineInv, TypeOK, Handled
<1>1. ASSUME NEW v \in Workers, NEW d \in Ids(v), v # "generator",
             queue' = Publish(v, d), origin[d] = c
      PROVE  Safe(c)'
  <2>1. Awaiting(v, d)' BY <1>1, PublishedWaits
  <2>2. Of(v, d)' = c BY <1>1, OfStays DEF Of
  <2> QED BY <1>1, <2>1, <2>2 DEF Safe, Live
<1>2. ASSUME NEW d \in Drafts, origin[d] = c, Over(d)' PROVE Safe(c)'
  <2>1. origin'[d] = c BY <1>2, OriginStays, NoneAssumption
  <2> QED BY <1>2, <2>1 DEF Safe, Settled, DraftsOf, Over
<1>3. CASE w = "generator"
  <2>1. CASE Generate
    <3>1. PICK d \in Drafts :
            job' = [job EXCEPT !["generator"].at = "send", !["generator"].draft = d]
      BY <2>1, NextWrite DEF Generate
    <3>2. job["generator"] \in Jobs("generator") BY <1>0, <1>3, Handling
    <3> QED BY <1>0, <1>3, <3>1, <3>2 DEF Jobs
  <2>2. CASE PublishDraftValidate
    <3> DEFINE d == job["generator"].draft
    <3>1. queue' = Publish("validator", d) /\ job["generator"].at = "send"
      BY <2>2 DEF PublishDraftValidate, At
    <3>2. d \in Drafts /\ origin[d] = c
      BY <1>0, <1>3, <3>1 DEF Accounted, OwnDraft, Of, PipelineInv, Drafted, Inserted
    <3>3. d \in Ids("validator") BY <3>2 DEF Ids
    <3> QED BY <1>0, <1>1, <3>1, <3>2, <3>3
  <2> QED BY <1>3, <2>1, <2>2 DEF Handler
<1>4. CASE w = "validator"
  <2>0. i \in Drafts /\ origin[i] = c /\ i \in Ids("publisher") BY <1>4 DEF Ids, Of
  <2>1. CASE Judge
    <3>1. PICK r \in Rulings :
            job' = [job EXCEPT !["validator"].at = "tell", !["validator"].ruling = r]
      BY <2>1, NextWrite DEF Judge
    <3>2. job["validator"] \in Jobs("validator") BY <1>0, <1>4, Handling
    <3> QED BY <1>0, <1>4, <3>1, <3>2 DEF Jobs
  <2>2. CASE TellProposal("validator", job["validator"].ruling)
    <3>1. GoTo("validator", "forward") BY <2>2, NextWrite DEF TellProposal, Onward, At
    <3> QED BY <1>0, <1>4, <3>1, Stepping, StepsOf
  <2>3. CASE Forward
    <3>1. CASE job["validator"].ruling = "approved"
      <4>1. queue' = Publish("publisher", i) BY <1>0, <1>4, <2>3, <3>1 DEF Forward
      <4> QED BY <1>0, <1>1, <2>0, <4>1
    <3>2. CASE job["validator"].ruling # "approved"
      <4>1. Over(i) BY <1>0, <1>4, <2>3, <3>2 DEF Forward, At, Accounted, RulingWritten
      <4>2. Over(i)' BY <2>3, <4>1 DEF Forward, tables, Over
      <4> QED BY <1>2, <2>0, <4>2
    <3> QED BY <3>1, <3>2
  <2> QED BY <1>4, <2>1, <2>2, <2>3 DEF Handler
<1>5. CASE w = "publisher"
  <2>0. i \in Drafts /\ origin[i] = c BY <1>5 DEF Ids, Of
  <2>1. ASSUME NEW step \in {"create", "record", "tell", "log"}, GoTo("publisher", step)
        PROVE  FALSE
    BY <1>0, <1>5, <2>1, Stepping, StepsOf
  <2>2. CASE Check
    <3>1. Over(i)'
      BY <1>0, <1>5, <2>0, <2>1, <2>2, NextWrite
      DEF Check, Onward, At, Over, PipelineInv, TypeOK
    <3> QED BY <1>2, <2>0, <3>1
  <2>3. CASE WriteLog
    <3>1. i \in published BY <1>0, <1>5, <2>3 DEF WriteLog, At, Accounted, AddressWritten
    <3>2. Over(i)' BY <2>3, <3>1 DEF WriteLog, tables, Over
    <3> QED BY <1>2, <2>0, <3>2
  <2>4. CASE CreateMarket \/ Record \/ TellProposal("publisher", "published")
    BY <2>1, <2>4, NextWrite DEF CreateMarket, Record, TellProposal, Onward, At
  <2> QED BY <1>5, <2>2, <2>3, <2>4 DEF Handler
<1> QED BY <1>3, <1>4, <1>5 DEF Workers

LEMMA SafeStays ==
  ASSUME PipelineInv, Accounted, [Next]_vars, NEW c \in sent
  PROVE  Safe(c)'
<1>0. c \in Candidates /\ Safe(c) /\ \A w \in Workers : Moves(w)
  BY EveryStepMoves DEF Accounted, PipelineInv, TypeOK
<1>1. ASSUME NEW w \in Workers, NEW i \in Ids(w), Of(w, i) = c, Live(w, i) PROVE Safe(c)'
  <2>1. Of(w, i)' = c BY <1>0, <1>1, OfStays
  <2>2. CASE Live(w, i)' \/ InDead(w, i)' BY <2>1, <2>2 DEF Safe
  <2>3. CASE \E m \in BagToSet(timers[w]) : m.id = i /\ About(w, m) \in forgotten'
    <3>1. PICK m \in BagToSet(timers[w]) : m.id = i /\ About(w, m) \in forgotten' BY <2>3
    <3>2. About(w, m) = c BY <1>1, <3>1 DEF About, Of
    <3> QED BY <3>1, <3>2 DEF Safe
  <2>4. CASE Handled(w, i) /\ Handler(w) /\ job[w].at # "ack" /\ job'[w].at = "ack"
    BY <1>0, <1>1, <2>4, HandedOver
  <2> QED BY <1>0, <1>1, <2>2, <2>3, <2>4, LiveGoes
<1>2. ASSUME NEW w \in Workers, NEW i \in Ids(w), Of(w, i) = c, InDead(w, i) PROVE Safe(c)'
  BY <1>0, <1>2, DeadStays, OfStays DEF Safe
<1>3. CASE Settled(c)
  <2>1. PICK d \in Drafts : origin[d] = c /\ Over(d) BY <1>3 DEF Settled, DraftsOf, Over
  <2>2. origin'[d] = c BY <1>0, <2>1, OriginStays, NoneAssumption
  <2>3. CASE Over(d)' BY <2>2, <2>3 DEF Safe, Settled, DraftsOf, Over
  <2>4. CASE Judge /\ Handled("validator", d)
    <3>0. "validator" \in Workers /\ DOMAIN job = Workers
      BY DEF Workers, PipelineInv, TypeOK
    <3>1. PICK r \in Rulings :
            job' = [job EXCEPT !["validator"].at = "tell", !["validator"].ruling = r]
      BY <2>4, NextWrite DEF Judge
    <3>2. job["validator"] \in Jobs("validator") /\ job["validator"].msg.id = d
      BY <2>4, <3>0, Handling DEF Handled
    <3>3. job'["validator"].at = "tell" /\ job'["validator"].msg.id = d
      BY <3>0, <3>1, <3>2 DEF Jobs
    <3>4. Live("validator", d)' BY <3>3 DEF Live, Handled, Idle
    <3>5. d \in Ids("validator") /\ Of("validator", d)' = c BY <2>2 DEF Ids, Of
    <3> QED BY <3>0, <3>4, <3>5 DEF Safe
  <2> QED BY <1>0, <2>1, <2>3, <2>4, OverStays DEF Inserted
<1>4. CASE c \in forgotten
  <2>1. forgotten \subseteq forgotten'
    BY DEF Next, Work, Take, TakeDisabled, Ack, Rested, Fail, Retry, Stop, Restart,
         Disconnect, Heartbeat,
       Handler, Generate, PublishDraftValidate, Judge, TellProposal, Forward, Check,
       CreateMarket, Record, WriteLog, Propose, StartProcessing, PublishCandidate, Review,
       HourPasses, Expire, history, vars
  <2> QED BY <1>4, <2>1 DEF Safe
<1> QED BY <1>0, <1>1, <1>2, <1>3, <1>4 DEF Safe

LEMMA AccountedStep == PipelineInv /\ Accounted /\ [Next]_vars => Accounted'
<1> SUFFICES ASSUME PipelineInv, Accounted, [Next]_vars PROVE Accounted' OBVIOUS
<1>1. (OwnDraft /\ RulingWritten /\ AddressWritten)'
  BY StagesKeep, NextKeepsPipelineInv DEF Accounted
<1>2. ASSUME NEW c \in sent', c \notin sent PROVE Safe(c)'
  <2>1. c \in Candidates /\ PublishCandidate(c)
    BY <1>2 DEF Next, Work, Take, TakeDisabled, Ack, Rested, Fail, Retry, Stop, Restart,
         Disconnect, Heartbeat,
       Handler, Generate, PublishDraftValidate, Judge, TellProposal, Forward, Check,
       CreateMarket, Record, WriteLog, Propose, StartProcessing, PublishCandidate, Review,
       HourPasses, Expire, vars
  <2>2. "generator" \in Workers /\ c \in Ids("generator") /\ Of("generator", c)' = c
    BY <2>1 DEF Workers, Ids, Of
  <2>3. Awaiting("generator", c)' BY <2>1, <2>2, PublishedWaits DEF PublishCandidate
  <2> QED BY <2>2, <2>3 DEF Safe, Live
<1> QED BY <1>1, <1>2, SafeStays DEF Accounted

\* A candidate that reached the queue is always with some worker, settled, or in
\* a dead-letter queue, unless its retry was lost with a process or a channel, for
\* any number of candidates, drafts, retries, deaths and lost connections
\* (consumeQueue of queue.ts and the three handlers, which publish before they
\* acknowledge).
THEOREM NoCandidateLost == Spec => []NothingLost
<1>1. Init => PipelineInv /\ Accounted
  <2>1. Init => Accounted
    BY DEF Init, Accounted, OwnDraft, RulingWritten, AddressWritten, Idle, Workers
  <2> QED BY <2>1, InitPipelineInv
<1>2. PipelineInv /\ Accounted /\ [Next]_vars => (PipelineInv /\ Accounted)'
  BY NextKeepsPipelineInv, AccountedStep
<1>3. PipelineInv /\ Accounted => NothingLost
  <2> SUFFICES ASSUME PipelineInv, Accounted, NEW c \in sent, c \notin forgotten
               PROVE  \/ \E w \in Workers : \E m \in Held(w) : About(w, m) = c
                      \/ Settled(c) \/ Buried(c)
    BY DEF NothingLost
  <2>1. CASE Settled(c) BY <2>1
  <2>2. ASSUME NEW w \in Workers, NEW i \in Ids(w), Of(w, i) = c, Live(w, i)
        PROVE  \E m \in Held(w) : About(w, m) = c
    BY <2>2 DEF Live, Awaiting, Handled, Held, Waiting, About, Of
  <2>3. ASSUME NEW w \in Workers, NEW i \in Ids(w), Of(w, i) = c, InDead(w, i)
        PROVE  Buried(c)
    BY <2>3 DEF InDead, Buried, About, Of
  <2> QED BY <2>1, <2>2, <2>3 DEF Accounted, Safe
<1> QED BY <1>1, <1>2, <1>3, PTL DEF Spec

(***************************************************************************)
(* One copy of each message.  The generator and the validator are sent a   *)
(* message once for each id, and retries and redeliveries replace the      *)
(* message they repeat: the bags of their side never hold two about the    *)
(* same id.                                                                *)
(***************************************************************************)

Once(w) ==
  /\ \A m \in BagToSet(queue[w]) : queue[w][m] = 1
  /\ \A m \in BagToSet(timers[w]) : timers[w][m] = 1
  /\ \A m, n \in BagToSet(queue[w]) : m.id = n.id => m = n
  /\ \A m, n \in BagToSet(timers[w]) : m.id = n.id => m = n
  /\ \A m \in BagToSet(queue[w]) : \A n \in BagToSet(timers[w]) : m.id # n.id
  /\ job[w] # Idle => ~Awaiting(w, job[w].msg.id)

Sending(d) == job["generator"].at = "send" /\ job["generator"].draft = d

SingleCopies ==
  /\ Once("generator") /\ Once("validator")
  /\ \A c \in Candidates \ sent : ~Names("generator", c)
  /\ \A d \in Drafts : Sending(d) => ~Names("validator", d)

\* The one-copy property as the steps of a worker's loop see it.
LEMMA OnceStays ==
  ASSUME PipelineInv, NEW w \in Workers, Moves(w), Once(w),
         \A i : Receives(w, i) => ~Names(w, i)
  PROVE  Once(w)'
<1>0. Hold(queue) /\ Hold(timers) /\ Hold(dead) /\ DOMAIN job = Workers
  BY Holding DEF PipelineInv, TypeOK
<1>1. CASE Take(w) \/ TakeDisabled(w)
  <2>1. PICK m \in BagToSet(queue[w]) :
          /\ queue' = Remove(queue, w, m) /\ timers' = timers /\ job[w] = Idle
          /\ job'[w] = Idle \/ job'[w].msg = m
    BY <1>0, <1>1 DEF Take, TakeDisabled, workers, Idle
  <2>2. /\ BagToSet(queue'[w]) = BagToSet(queue[w]) \ {m}
        /\ \A n \in BagToSet(queue[w]) \ {m} : queue'[w][n] = queue[w][n]
    BY <1>0, <2>1, TakenOut DEF Once
  <2> QED BY <2>1, <2>2 DEF Once, Awaiting, Waiting
<1>2. CASE Fail(w)
  <2> DEFINE m == job[w].msg
             again == [m EXCEPT !.tries = @ + 1]
  <2>1. job[w] # Idle /\ job'[w] = Idle /\ queue' = queue BY <1>0, <1>2 DEF Fail
  <2>2. CASE m.tries < MaxTries /\ timers' = Put(timers, w, again)
    <3>1. again \in Messages(w) /\ again.id = m.id
      BY <2>1, <2>2, Handling, BoundsAssumption DEF Messages
    <3>2. \A n \in Waiting(w) : n.id # m.id BY <2>1 DEF Once, Awaiting
    <3> HIDE DEF again, m
    <3>3. again \notin BagToSet(timers[w]) BY <3>1, <3>2 DEF Waiting
    <3>4. /\ BagToSet(timers'[w]) = BagToSet(timers[w]) \cup {again}
          /\ timers'[w][again] = 1
          /\ \A n \in BagToSet(timers[w]) : timers'[w][n] = timers[w][n]
      <4>1. \A n \in BagToSet(timers[w]) : n # again BY <3>3
      <4> QED BY <1>0, <2>2, <3>1, <3>3, <4>1, PutIn
    <3> QED BY <2>1, <3>1, <3>2, <3>4 DEF Once, Waiting
  <2>3. CASE timers' = timers BY <2>1, <2>3 DEF Once
  <2> QED BY <1>2, <2>2, <2>3 DEF Fail
<1>3. CASE Retry(w)
  <2>1. PICK m \in BagToSet(timers[w]) :
          timers' = Remove(timers, w, m) /\ (queue' = Put(queue, w, m) \/ queue' = queue)
    BY <1>3 DEF Retry
  <2>2. m \in Messages(w) /\ job' = job BY <1>0, <1>3 DEF Hold, Retry, workers
  <2>3. /\ BagToSet(timers'[w]) = BagToSet(timers[w]) \ {m}
        /\ \A n \in BagToSet(timers[w]) \ {m} : timers'[w][n] = timers[w][n]
    BY <1>0, <2>1, TakenOut DEF Once
  <2>4. m \notin BagToSet(queue[w]) BY DEF Once
  <2>5. CASE queue' = Put(queue, w, m)
    <3>1. \A n \in BagToSet(queue[w]) : n # m BY <2>4
    <3>2. /\ BagToSet(queue'[w]) = BagToSet(queue[w]) \cup {m} /\ queue'[w][m] = 1
          /\ \A n \in BagToSet(queue[w]) : queue'[w][n] = queue[w][n]
      BY <1>0, <2>2, <2>4, <2>5, <3>1, PutIn
    <3>3. Waiting(w)' = Waiting(w) BY <2>3, <3>2 DEF Waiting
    <3> QED BY <2>2, <2>3, <3>2, <3>3 DEF Once, Awaiting
  <2>6. CASE queue' = queue BY <2>2, <2>3, <2>6 DEF Once, Awaiting, Waiting
  <2> QED BY <2>1, <2>5, <2>6
<1>4. CASE Stop(w)
  <2>1. job'[w] = Idle /\ BagToSet(timers'[w]) = {}
    BY <1>0, <1>4 DEF Stop, Restart, Hold, EmptyBag, SetToBag, BagToSet
  <2>2. CASE job[w] = Idle BY <1>4, <2>1, <2>2 DEF Stop, Restart, Once
  <2>3. CASE job[w] # Idle
    <3> DEFINE m == job[w].msg
    <3>1. m \in Messages(w) /\ queue' = Put(queue, w, m) BY <1>4, <2>3,
        Handling DEF Stop, Restart
    <3>2. \A n \in Waiting(w) : n.id # m.id BY <2>3 DEF Once, Awaiting
    <3> HIDE DEF m
    <3>3. m \notin BagToSet(queue[w]) BY <3>2 DEF Waiting
    <3>4. /\ BagToSet(queue'[w]) = BagToSet(queue[w]) \cup {m} /\ queue'[w][m] = 1
          /\ \A n \in BagToSet(queue[w]) : queue'[w][n] = queue[w][n]
      <4>1. \A n \in BagToSet(queue[w]) : n # m BY <3>3
      <4> QED BY <1>0, <3>1, <3>3, <4>1, PutIn
    <3> QED BY <2>1, <3>2, <3>4 DEF Once, Waiting
  <2> QED BY <2>2, <2>3
<1>5. ASSUME NEW k, Receives(w, k) PROVE Once(w)'
  <2> DEFINE m == [id |-> k, tries |-> 0]
  <2>1. m \in Messages(w) /\ m.id = k BY <1>5, BoundsAssumption DEF Receives, Messages
  <2>2. queue' = Put(queue, w, m) /\ timers' = timers /\ job'[w] = job[w]
    BY <1>5 DEF Receives, Publish
  <2> HIDE DEF m
  <2>3. ~Names(w, k) BY <1>5
  <2>4. (\A n \in Waiting(w) : n.id # k) /\ (job[w] # Idle => job[w].msg.id # k)
    BY <2>3 DEF Names, Awaiting, Handled
  <2>5. m \notin BagToSet(queue[w]) BY <2>1, <2>4 DEF Waiting
  <2>6. /\ BagToSet(queue'[w]) = BagToSet(queue[w]) \cup {m} /\ queue'[w][m] = 1
        /\ \A n \in BagToSet(queue[w]) : queue'[w][n] = queue[w][n]
    <3>1. \A n \in BagToSet(queue[w]) : n # m BY <2>5
    <3> QED BY <1>0, <2>1, <2>2, <2>5, <3>1, PutIn
  <2> QED BY <2>1, <2>2, <2>4, <2>6 DEF Once, Awaiting, Waiting
<1>6. CASE Still(w) \/ Acks(w)
  BY <1>6 DEF Still, Acks, Once, Awaiting, Waiting
<1>7. CASE Writes(w)
  BY <1>7 DEF Writes, Once, Awaiting, Waiting
<1> QED BY <1>1, <1>2, <1>3, <1>4, <1>5, <1>6, <1>7 DEF Moves

\* The generator names a new draft, or goes on with the one it has.
LEMMA SendingFrom ==
  ASSUME PipelineInv, [Next]_vars, NEW d \in Drafts, Sending(d)'
  PROVE  \/ Sending(d) /\ job'["generator"] = job["generator"]
         \/ Generate /\ origin[d] = None
<1>0. "generator" \in Workers /\ DOMAIN job = Workers /\ Moves("generator")
  BY EveryStepMoves DEF Workers, PipelineInv, TypeOK
<1> DEFINE j == job["generator"]
<1>1. CASE job'["generator"] = j BY <1>1 DEF Sending
<1>2. CASE j # Idle /\ Handler("generator")
  <2>1. CASE Generate
    <3>1. PICK e \in Drafts :
            /\ origin[e] = None
            /\ job' = [job EXCEPT !["generator"].at = After.generator.generate,
                                  !["generator"].draft = e]
      BY <2>1 DEF Generate
    <3>2. j \in Jobs("generator") BY <1>0, <1>2, Handling
    <3>3. job'["generator"].draft = e BY <1>0, <3>1, <3>2 DEF Jobs
    <3> QED BY <2>1, <3>1, <3>3 DEF Sending
  <2>2. CASE PublishDraftValidate
    <3>1. GoTo("generator", "ack") BY <2>2, NextWrite DEF PublishDraftValidate, Onward, At
    <3>2. job'["generator"].at = "ack" BY <1>0, <1>2, <3>1, Stepping, StepsOf
    <3> QED BY <3>2 DEF Sending
  <2> QED BY <1>2, <2>1, <2>2 DEF Handler
<1>3. CASE job'["generator"].at = First["generator"] BY <1>3 DEF First, Sending
<1> QED BY <1>0, <1>1, <1>2, <1>3, JobFrom DEF Sending, Idle

\* A draft nobody inserted is nobody's message.
LEMMA NoRowNoMessage ==
  ASSUME PipelineInv, NEW w \in Workers, w # "generator", NEW d, Names(w, d)
  PROVE  Inserted(d)
  BY DEF PipelineInv, Rows, Names, Awaiting, Handled, Waiting

LEMMA SentGrows == [Next]_vars => sent \subseteq sent'
  BY DEF Next, Work, Take, TakeDisabled, Ack, Rested, Fail, Retry, Stop, Restart,
       Disconnect, Heartbeat,
     Handler, Generate, PublishDraftValidate, Judge, TellProposal, Forward, Check,
     CreateMarket, Record, WriteLog, Propose, StartProcessing, PublishCandidate, Review,
     HourPasses, Expire, vars

LEMMA SingleCopiesStep == PipelineInv /\ SingleCopies /\ [Next]_vars => SingleCopies'
<1> SUFFICES ASSUME PipelineInv, SingleCopies, [Next]_vars PROVE SingleCopies' OBVIOUS
<1>0. /\ {"generator", "validator", "publisher"} \subseteq Workers /\ DOMAIN job = Workers
      /\ \A w \in Workers : Moves(w)
  BY EveryStepMoves DEF Workers, PipelineInv, TypeOK
<1>1. ASSUME NEW c, Receives("generator", c)
      PROVE  c \in Candidates /\ c \notin sent /\ sent' = sent \cup {c}
  BY <1>1 DEF Receives, PublishCandidate
<1>2. ASSUME NEW d, Receives("validator", d) PROVE d \in Drafts /\ Sending(d)
  BY <1>2 DEF Receives, PublishDraftValidate, At, Sending, Ids
<1>3. Once("generator")' BY <1>0, <1>1, OnceStays DEF SingleCopies
<1>4. Once("validator")' BY <1>0, <1>2, OnceStays DEF SingleCopies
<1>5. ASSUME NEW c \in Candidates, c \notin sent', Names("generator", c)' PROVE FALSE
  BY <1>0, <1>1, <1>5, NamesFrom, SentGrows DEF SingleCopies
<1>6. ASSUME NEW d \in Drafts, Sending(d)', Names("validator", d)' PROVE FALSE
  <2>1. CASE Generate /\ origin[d] = None
    <3>1. ~Names("validator", d) BY <1>0, <2>1, NoRowNoMessage,
        NoneAssumption DEF Inserted
    <3>2. ~Receives("validator", d)
      <4>1. job["generator"].at = "generate" BY <2>1 DEF Generate, At
      <4> QED BY <1>2, <4>1 DEF Sending
    <3> QED BY <1>0, <1>6, <3>1, <3>2, NamesFrom
  <2>2. CASE Sending(d) /\ job'["generator"] = job["generator"]
    <3>1. ~Names("validator", d) BY <2>2 DEF SingleCopies
    <3>2. ~Receives("validator", d)
      <4> SUFFICES ASSUME PublishDraftValidate PROVE FALSE BY DEF Receives
      <4>1. GoTo("generator", "ack") /\ job["generator"] # Idle
        BY NextWrite DEF PublishDraftValidate, Onward, At, Idle
      <4>2. job'["generator"].at = "ack" BY <1>0, <4>1, Stepping, StepsOf
      <4> QED BY <2>2, <4>2 DEF Sending
    <3> QED BY <1>0, <1>6, <3>1, <3>2, NamesFrom
  <2> QED BY <1>6, <2>1, <2>2, SendingFrom
<1> QED BY <1>3, <1>4, <1>5, <1>6 DEF SingleCopies

LEMMA InitSingleCopies == Init => SingleCopies
  BY DEF Init, SingleCopies, Once, Names, Awaiting, Handled, Waiting, Sending, Idle,
       Workers,
     EmptyBag, SetToBag, BagToSet

(***************************************************************************)
(* What the records say once a draft is published.  The argument follows   *)
(* the one copy of its message: a candidate the generator was not cut off  *)
(* with has one draft, and a draft the validator has yet to judge, and was *)
(* not cut off with, is neither published nor with the publisher.          *)
(***************************************************************************)

Undrafted(c) ==
  \/ Awaiting("generator", c)
  \/ job["generator"].at = "generate" /\ job["generator"].msg.id = c

OneDraft ==
  \A c \in Candidates \ redone["generator"] :
    /\ c \notin sent \/ Undrafted(c) => DraftsOf(c) = {}
    /\ \A d, e \in DraftsOf(c) : d = e

Unjudged(d) ==
  \/ Awaiting("validator", d)
  \/ job["validator"].at \in {"judge", "tell", "forward"} /\ job["validator"].msg.id = d
  \/ Sending(d)

Unpublished ==
  /\ \A d \in Drafts \ redone["validator"] :
       Unjudged(d) => d \notin published /\ ~Names("publisher", d)
  /\ \A d \in published : Inserted(d)

LEMMA RedoneGrows ==
  ASSUME PipelineInv, [Next]_vars, NEW w \in Workers
  PROVE  redone[w] \subseteq redone'[w]
<1>1. ASSUME NEW v \in Workers, CutOff(v) PROVE redone[w] \subseteq redone'[w]
  BY <1>1 DEF CutOff, PipelineInv, TypeOK
<1>2. CASE redone' = redone BY <1>2
<1> QED
  BY <1>1, <1>2 DEF Next, Work, Take, TakeDisabled, Ack, Rested, Fail, Retry, Stop,
       Restart,
     Disconnect, Heartbeat, Handler, Generate, PublishDraftValidate, Judge, TellProposal,
     Forward, Check,
     CreateMarket, Record, WriteLog, Propose, StartProcessing, PublishCandidate, Review,
     HourPasses, Expire, history, vars

\* A handler that is cut off too late leaves its message's id in redone.
LEMMA Redoing ==
  ASSUME PipelineInv, NEW w \in Workers, CutOff(w), TooLate(w)
  PROVE  job[w].msg.id \in redone'[w]
  BY DEF CutOff, PipelineInv, TypeOK

\* What is published, and by whom.
LEMMA PublishedFrom ==
  ASSUME PipelineInv, [Next]_vars, NEW d \in published', d \notin published
  PROVE  Record /\ Handled("publisher", d)
<1>1. CASE Record BY <1>1 DEF Record, Handled, At, Idle
<1> QED
  BY <1>1 DEF Next, Work, Take, TakeDisabled, Ack, Rested, Fail, Retry, Stop, Restart,
       Disconnect, Heartbeat,
     Handler, Generate, PublishDraftValidate, Judge, TellProposal, Forward, Check,
     CreateMarket, WriteLog, Propose, StartProcessing, PublishCandidate, Review,
     HourPasses, Expire, tables, vars

LEMMA PublishedGrows == [Next]_vars => published \subseteq published'
  BY DEF Next, Work, Take, TakeDisabled, Ack, Rested, Fail, Retry, Stop, Restart,
       Disconnect, Heartbeat,
     Handler, Generate, PublishDraftValidate, Judge, TellProposal, Forward, Check,
     CreateMarket, Record, WriteLog, Propose, StartProcessing, PublishCandidate, Review,
     HourPasses, Expire, tables, vars

LEMMA UndraftedFrom ==
  ASSUME PipelineInv, [Next]_vars, NEW c \in Candidates, Undrafted(c)'
  PROVE  Undrafted(c) \/ c \notin sent \/ c \in redone'["generator"]
<1>0. "generator" \in Workers /\ Moves("generator") BY EveryStepMoves DEF Workers
<1> DEFINE j == job["generator"]
<1>1. CASE Awaiting("generator", c)'
  <2>1. CASE Handled("generator", c) /\ CutOff("generator")
    <3>1. CASE j.at = "generate" BY <2>1, <3>1 DEF Undrafted, Handled
    <3>2. CASE j.at # "generate"
      <4>1. j.at \in {"send", "ack"} BY <1>0, <2>1, <3>2, Handling, StepsOf DEF Handled
      <4> QED BY <1>0, <2>1, <4>1, Redoing DEF TooLate, Handled
    <3> QED BY <3>1, <3>2
  <2> QED BY <1>0, <1>1, <2>1, AwaitingFrom DEF Undrafted, Receives, PublishCandidate
<1>2. CASE job'["generator"].at = "generate" /\ job'["generator"].msg.id = c
  <2>1. CASE job'["generator"] = j BY <1>2, <2>1 DEF Undrafted
  <2>2. CASE job'["generator"].at # First["generator"] BY <1>2, <2>2 DEF First
  <2>3. CASE job'["generator"].msg \in BagToSet(queue["generator"])
    BY <1>2, <2>3 DEF Undrafted, Awaiting, Waiting
  <2> QED BY <1>0, <1>2, <2>1, <2>2, <2>3, JobFrom DEF Idle
<1> QED BY <1>1, <1>2 DEF Undrafted

LEMMA OneDraftStep ==
  PipelineInv /\ SingleCopies /\ OneDraft /\ [Next]_vars => OneDraft'
<1> SUFFICES ASSUME PipelineInv, SingleCopies, OneDraft, [Next]_vars,
                    NEW c \in Candidates \ redone'["generator"]
             PROVE  /\ c \notin sent' \/ Undrafted(c)' => DraftsOf(c)' = {}
                    /\ \A d, e \in DraftsOf(c)' : d = e
  BY DEF OneDraft
<1>0. "generator" \in Workers /\ DOMAIN job = Workers /\ Moves("generator")
  BY EveryStepMoves DEF Workers, PipelineInv, TypeOK
<1>1. c \in Candidates \ redone["generator"] BY <1>0, RedoneGrows
<1>2. CASE DraftsOf(c)' = DraftsOf(c)
  BY <1>1, <1>2, SentGrows, UndraftedFrom DEF OneDraft
<1>3. CASE DraftsOf(c)' # DraftsOf(c)
  <2>1. PICK d \in Drafts : origin'[d] # origin[d] /\ (origin[d] = c \/ origin'[d] = c)
    BY <1>3 DEF DraftsOf
  <2>2. Generate /\ origin[d] = None /\ origin'[d] = c
    BY <2>1, OriginStays, NoneAssumption
  <2> DEFINE j == job["generator"]
  <2>3. /\ j # Idle /\ j.at = "generate"
        /\ UNCHANGED <<queue, timers, sent>>
    BY <2>2 DEF Generate, At, Idle, queues
  <2>4. PICK e \in Drafts :
          /\ origin' = [origin EXCEPT ![e] = j.msg.id]
          /\ job' = [job EXCEPT !["generator"].at = After.generator.generate,
                                !["generator"].draft = e]
    BY <2>2 DEF Generate
  <2>5. origin' = [origin EXCEPT ![d] = j.msg.id] /\ j.msg.id = c
    <3>1. d = e BY <2>1, <2>4 DEF PipelineInv, TypeOK
    <3> QED BY <2>2, <2>4, <3>1 DEF PipelineInv, TypeOK
  <2>6. Undrafted(c) /\ Names("generator", c) BY <2>3, <2>5 DEF Undrafted, Names, Handled
  <2>7. DraftsOf(c) = {} /\ c \in sent BY <1>1, <2>6 DEF OneDraft, SingleCopies
  <2>8. DraftsOf(c)' = {d}
    BY <2>2, <2>5, <2>7 DEF DraftsOf, PipelineInv, TypeOK
  <2>9. ~Undrafted(c)'
    <3>1. ~Awaiting("generator", c) BY <2>3, <2>5 DEF SingleCopies, Once
    <3>2. ~Awaiting("generator", c)' BY <2>3, <3>1 DEF Awaiting, Waiting
    <3>3. job'["generator"].at = "send"
      <4>1. j \in Jobs("generator") BY <1>0, <2>3, Handling
      <4> QED BY <1>0, <2>4, <4>1, NextWrite DEF Jobs
    <3> QED BY <3>2, <3>3 DEF Undrafted
  <2> QED BY <2>3, <2>7, <2>8, <2>9
<1> QED BY <1>2, <1>3

LEMMA UnjudgedFrom ==
  ASSUME PipelineInv, [Next]_vars, NEW d \in Drafts, Unjudged(d)'
  PROVE  Unjudged(d) \/ origin[d] = None \/ d \in redone'["validator"]
<1>0. "validator" \in Workers /\ Moves("validator") BY EveryStepMoves DEF Workers
<1> DEFINE j == job["validator"]
<1>1. CASE Awaiting("validator", d)'
  <2>1. CASE Handled("validator", d) /\ CutOff("validator")
    <3>1. CASE j.at = "ack" BY <1>0, <2>1, <3>1, Redoing DEF TooLate, Handled
    <3>2. CASE j.at # "ack"
      <4>1. j.at \in {"judge", "tell", "forward"}
        BY <1>0, <2>1, <3>2, Handling, StepsOf DEF Handled
      <4> QED BY <2>1, <4>1 DEF Unjudged, Handled
    <3> QED BY <3>1, <3>2
  <2>2. CASE Receives("validator", d)
    BY <2>2 DEF Receives, PublishDraftValidate, At, Unjudged, Sending
  <2> QED BY <1>0, <1>1, <2>1, <2>2, AwaitingFrom DEF Unjudged
<1>2. CASE job'["validator"].at \in {"judge", "tell", "forward"} /\ job'["validator"].msg.id = d
  <2>1. CASE job'["validator"] = j BY <1>2, <2>1 DEF Unjudged
  <2>2. CASE j # Idle /\ j.at # "ack" /\ job'["validator"].msg = j.msg
    <3>1. j.at \in {"judge", "tell", "forward"} BY <1>0, <2>2, Handling, StepsOf
    <3> QED BY <1>2, <2>2, <3>1 DEF Unjudged
  <2>3. CASE job'["validator"].msg \in BagToSet(queue["validator"])
    BY <1>2, <2>3 DEF Unjudged, Awaiting, Waiting
  <2> QED BY <1>0, <1>2, <2>1, <2>2, <2>3, JobFrom DEF Idle
<1>3. CASE Sending(d)' BY <1>3, SendingFrom DEF Unjudged
<1> QED BY <1>1, <1>2, <1>3 DEF Unjudged

LEMMA UnpublishedStep ==
  PipelineInv /\ SingleCopies /\ Unpublished /\ [Next]_vars => Unpublished'
<1> SUFFICES ASSUME PipelineInv, SingleCopies, Unpublished, [Next]_vars PROVE Unpublished'
  OBVIOUS
<1>0. /\ {"generator", "validator", "publisher"} \subseteq Workers /\ DOMAIN job = Workers
      /\ \A w \in Workers : Moves(w)
  BY EveryStepMoves DEF Workers, PipelineInv, TypeOK
<1>1. ASSUME NEW d \in published' PROVE Inserted(d)'
  <2>1. Inserted(d)
    <3>1. CASE d \in published BY <3>1 DEF Unpublished
    <3>2. CASE d \notin published
      BY <1>0, <3>2, PublishedFrom, NoRowNoMessage DEF Names
    <3> QED BY <3>1, <3>2
  <2> QED BY <2>1, OriginStays, NoneAssumption DEF Inserted
<1>2. ASSUME NEW d \in Drafts \ redone'["validator"], Unjudged(d)'
      PROVE  d \notin published' /\ ~Names("publisher", d)'
  <2>1. d \notin redone["validator"] BY <1>0, RedoneGrows
  <2>2. d \notin published /\ ~Names("publisher", d)
    <3>1. CASE Unjudged(d) BY <2>1, <3>1 DEF Unpublished
    <3>2. CASE origin[d] = None
      BY <1>0, <3>2, NoRowNoMessage, NoneAssumption DEF Unpublished, Inserted
    <3> QED BY <1>2, <3>1, <3>2, UnjudgedFrom
  <2>3. d \notin published' BY <2>2, PublishedFrom DEF Names
  <2>4. ~Receives("publisher", d)
    <3> SUFFICES ASSUME Forward, job["validator"].msg.id = d PROVE FALSE BY DEF Receives
    <3>1. GoTo("validator", "ack") /\ job["validator"] # Idle
      BY NextWrite DEF Forward, Onward, At, Idle
    <3>2. job'["validator"].at = "ack" /\ job'["validator"] # Idle
          /\ job'["validator"].msg.id = d
      BY <1>0, <3>1, Stepping, StepsOf
    <3>3. Names("validator", d) BY <3>1 DEF Names, Handled
    <3>4. ~Sending(d)'
      <4>1. ~Sending(d) BY <3>3 DEF SingleCopies
      <4>2. ~Generate
        <5> SUFFICES ASSUME Generate PROVE FALSE OBVIOUS
        <5>1. Inserted(d) BY <1>0, <3>3, NoRowNoMessage
        <5>2. job'["validator"] = job["validator"] BY <1>0 DEF Generate
        <5> QED BY <3>2, <5>2 DEF Forward, At
      <4> QED BY <4>1, <4>2, SendingFrom
    <3>5. ~Awaiting("validator", d)'
      <4>1. Once("validator")' BY SingleCopiesStep DEF SingleCopies
      <4> QED BY <3>2, <4>1 DEF Once
    <3> QED BY <1>2, <3>2, <3>4, <3>5 DEF Unjudged
  <2> QED BY <1>0, <2>2, <2>3, <2>4, NamesFrom
<1> QED BY <1>1, <1>2 DEF Unpublished

Agreed ==
  \A d \in published \ redone["validator"] :
    /\ status[d] \in {"active", "resolving"}
    /\ \/ IsAuto(d)
       \/ d \in redone["publisher"] \/ origin[d] \in redone["generator"]
       \/ job["publisher"].at = "tell" /\ job["publisher"].msg.id = d
       \/ proposal[origin[d]] = "published"

\* Who may change the status of a draft.
LEMMA StatusFrom ==
  ASSUME PipelineInv, [Next]_vars, NEW d \in Drafts
  PROVE  \/ status'[d] = status[d]
         \/ Record /\ status'[d] = "active"
         \/ status[d] = "active" /\ status'[d] = "resolving"
         \/ origin[d] = None
         \/ job["validator"].at = "judge" /\ job["validator"].msg.id = d
         \/ Check /\ d \notin published
<1>1. CASE Generate BY <1>1 DEF Generate, PipelineInv, TypeOK
<1>2. CASE Judge
  <2>1. PICK r \in Rulings :
          status' = [status EXCEPT ![job["validator"].msg.id] = StatusOf(r)]
    BY <1>2 DEF Judge
  <2> QED BY <1>2, <2>1 DEF Judge, At, PipelineInv, TypeOK
<1>3. CASE Check BY <1>3 DEF Check, PipelineInv, TypeOK
<1>4. CASE Record BY <1>4 DEF Record, PipelineInv, TypeOK
<1>5. ASSUME NEW e \in Drafts, Expire(e)
      PROVE  status'[d] = status[d] \/ (status[d] = "active" /\ status'[d] = "resolving")
  BY <1>5 DEF Expire, PipelineInv, TypeOK
<1>6. CASE status' = status BY <1>6
<1> QED
  BY <1>1, <1>2, <1>3, <1>4, <1>5, <1>6 DEF Next, Work, Take, TakeDisabled, Ack, Rested,
       Fail,
     Retry, Stop, Restart, Disconnect, Heartbeat, Handler, PublishDraftValidate,
     TellProposal, Forward,
     CreateMarket, WriteLog, Propose, StartProcessing, PublishCandidate, Review,
     HourPasses, Expire, tables, vars

\* Who may change a proposal that is published.
LEMMA ProposalFrom ==
  ASSUME PipelineInv, [Next]_vars, NEW c \in Candidates \ FromNews, proposal[c] = "published"
  PROVE  \/ proposal'[c] = "published"
         \/ job["validator"].at = "tell" /\ origin[job["validator"].msg.id] = c
<1>1. ASSUME NEW k \in Candidates, Propose(k) \/ StartProcessing(k) \/ Review(k)
      PROVE  proposal'[c] = "published"
  <2>1. CASE k = c BY <1>1, <2>1 DEF Propose, StartProcessing, Review
  <2>2. CASE k # c BY <1>1, <2>2 DEF Propose, StartProcessing, Review, PipelineInv, TypeOK
  <2> QED BY <2>1, <2>2
<1>2. CASE TellProposal("validator", job["validator"].ruling)
  BY <1>2 DEF TellProposal, At, PipelineInv, TypeOK
<1>3. CASE TellProposal("publisher", "published")
  BY <1>3 DEF TellProposal, PipelineInv, TypeOK
<1>4. CASE proposal' = proposal BY <1>4
<1> QED
  BY <1>1, <1>2, <1>3, <1>4 DEF Next, Work, Take, TakeDisabled, Ack, Rested, Fail,
     Retry, Stop, Restart, Disconnect, Heartbeat, Handler, Generate,
     PublishDraftValidate, Judge, Forward, Check,
     CreateMarket, Record, WriteLog, PublishCandidate, HourPasses, Expire, tables, vars

LEMMA AgreedStep ==
  /\ PipelineInv /\ SingleCopies /\ OneDraft /\ Unpublished /\ Agreed
  /\ [Next]_vars
  => Agreed'
<1> SUFFICES ASSUME PipelineInv, SingleCopies, OneDraft, Unpublished, Agreed, [Next]_vars,
                    NEW d \in published', d \notin redone'["validator"]
             PROVE  /\ status'[d] \in {"active", "resolving"}
                    /\ \/ IsAuto(d)'
                       \/ d \in redone'["publisher"] \/ origin'[d] \in redone'["generator"]
                       \/ job'["publisher"].at = "tell" /\ job'["publisher"].msg.id = d
                       \/ proposal'[origin'[d]] = "published"
  BY DEF Agreed
<1>0. /\ {"generator", "validator", "publisher"} \subseteq Workers /\ DOMAIN job = Workers
      /\ \A w \in Workers : Moves(w)
  BY EveryStepMoves DEF Workers, PipelineInv, TypeOK
<1> DEFINE j == job["publisher"]
<1>1. CASE d \notin published
  <2>1. Record /\ Handled("publisher", d) BY <1>1, PublishedFrom
  <2>2. d \in Drafts /\ GoTo("publisher", "tell")
    BY <1>0, <2>1, NextWrite, Handling DEF Handled, Record, Onward, At, Inserted
  <2>3. job'["publisher"].at = "tell" /\ job'["publisher"].msg.id = d
    BY <1>0, <2>1, <2>2, Stepping, StepsOf DEF Handled
  <2> QED BY <2>1, <2>2, <2>3 DEF Record, Handled, PipelineInv, TypeOK
<1>2. CASE d \in published
  <2>1. /\ d \in Drafts /\ Inserted(d) /\ d \notin redone["validator"]
        /\ origin[d] \in Candidates /\ origin'[d] = origin[d]
    <3>1. Inserted(d) BY <1>2 DEF Unpublished
    <3> QED BY <1>0, <3>1, RedoneGrows, OriginStays, NoneAssumption DEF Inserted
  <2>2. ~Unjudged(d) BY <1>2, <2>1 DEF Unpublished
  <2>3. status'[d] \in {"active", "resolving"}
    <3>1. ~(job["validator"].at = "judge" /\ job["validator"].msg.id = d)
      BY <2>2 DEF Unjudged
    <3> QED BY <1>2, <2>1, <3>1, StatusFrom, NoneAssumption DEF Agreed
  <2>4. CASE IsAuto(d) BY <2>1, <2>3, <2>4 DEF IsAuto
  <2>5. CASE d \in redone["publisher"] \/ origin[d] \in redone["generator"]
    BY <1>0, <2>1, <2>3, <2>5, RedoneGrows
  <2>6. CASE ~IsAuto(d) /\ j.at = "tell" /\ j.msg.id = d
    <3>0. j # Idle BY <2>6 DEF Idle
    <3>1. CASE job'["publisher"] = j BY <2>3, <2>6, <3>1
    <3>2. CASE Handler("publisher")
      <4>1. TellProposal("publisher", "published")
        BY <2>6, <3>2 DEF Handler, Check, CreateMarket, Record, WriteLog, At
      <4>2. origin[d] \in Candidates \ FromNews BY <2>1, <2>6 DEF IsAuto
      <4>3. proposal'[origin[d]] = "published"
        BY <2>6, <4>1, <4>2 DEF TellProposal, PipelineInv, TypeOK
      <4> QED BY <2>1, <2>3, <4>3
    <3>3. CASE job'["publisher"] = Idle /\ CutOff("publisher")
      BY <1>0, <2>3, <2>6, <3>3, Redoing DEF TooLate
    <3>4. Still("publisher") \/ Writes("publisher") \/ Acks("publisher")
            \/ (\E i : Receives("publisher", i)) \/ Take("publisher")
            \/ TakeDisabled("publisher") \/ Fail("publisher") \/ Retry("publisher")
            \/ Stop("publisher")
      BY <1>0 DEF Moves
    <3>5. CASE Fail("publisher") \/ Stop("publisher")
      BY <1>0, <3>3, <3>5 DEF Fail, Stop, Restart
    <3>6. CASE TakeDisabled("publisher") \/ Retry("publisher") \/ Still("publisher")
               \/ (\E i : Receives("publisher", i))
      BY <3>1, <3>6 DEF TakeDisabled, Retry, workers, Still, Receives
    <3>7. CASE Take("publisher") BY <3>0, <3>7 DEF Take
    <3>8. CASE Acks("publisher") BY <2>6, <3>8 DEF Acks
    <3>9. CASE Writes("publisher") BY <3>2, <3>9 DEF Writes
    <3> QED BY <3>4, <3>5, <3>6, <3>7, <3>8, <3>9
  <2>7. CASE ~IsAuto(d) /\ proposal[origin[d]] = "published"
             /\ origin[d] \notin redone["generator"]
    <3>1. origin[d] \in Candidates \ FromNews BY <2>1, <2>7 DEF IsAuto
    <3>2. ~(job["validator"].at = "tell" /\ origin[job["validator"].msg.id] = origin[d])
      <4> DEFINE e == job["validator"].msg.id
      <4> SUFFICES ASSUME job["validator"].at = "tell", origin[e] = origin[d] PROVE FALSE
        OBVIOUS
      <4>1. e \in Drafts BY <1>0, Handling DEF Idle, Inserted
      <4>2. e = d BY <2>1, <2>7, <4>1 DEF OneDraft, DraftsOf
      <4> QED BY <2>2, <4>2 DEF Unjudged
    <3>3. proposal'[origin[d]] = "published" BY <2>7, <3>1, <3>2, ProposalFrom
    <3> QED BY <2>1, <2>3, <3>3
  <2> QED BY <1>2, <2>1, <2>3, <2>4, <2>5, <2>6, <2>7 DEF Agreed
<1> QED BY <1>1, <1>2

RecordsInv == PipelineInv /\ SingleCopies /\ OneDraft /\ Unpublished /\ Agreed

LEMMA InitRecordsInv == Init => RecordsInv
<1> SUFFICES ASSUME Init PROVE RecordsInv OBVIOUS
<1>1. OneDraft /\ Unpublished /\ Agreed
  BY NoneAssumption
  DEF Init, OneDraft, Unpublished, Agreed, DraftsOf, Unjudged, Awaiting, Waiting, Sending,
      Idle, Workers, EmptyBag, SetToBag, BagToSet
<1> QED BY <1>1, InitPipelineInv, InitSingleCopies DEF RecordsInv

LEMMA RecordsStep == RecordsInv /\ [Next]_vars => RecordsInv'
  BY NextKeepsPipelineInv, SingleCopiesStep, OneDraftStep, UnpublishedStep, AgreedStep
  DEF RecordsInv

\* When the publisher is through with a draft, the draft is active, or was until it
\* expired, and its proposal published, unless an earlier handler ran again
\* afterwards: for every number of candidates, drafts, retries, deaths and lost
\* connections (the writes of the three handlers to ai_markets and proposals, in
\* their order).
THEOREM PublishedRecordsAgree == Spec => []RecordsAgree
<1>1. RecordsInv => RecordsAgree
  <2> SUFFICES ASSUME RecordsInv, NEW d \in published, d \notin redone["validator"]
               PROVE  /\ status[d] \in {"active", "resolving"}
                      /\ \/ IsAuto(d)
                         \/ d \in redone["publisher"] \/ origin[d] \in redone["generator"]
                         \/ job["publisher"] # Idle /\ job["publisher"].msg.id = d
                         \/ proposal[origin[d]] = "published"
    BY DEF RecordsAgree
  <2> QED BY DEF RecordsInv, Agreed, Idle
<1> QED BY <1>1, InitRecordsInv, RecordsStep, PTL DEF Spec

(***************************************************************************)
(* The hourly limit.  Only the publisher records, and it counts before it  *)
(* creates: what it counted can only have shrunk when it records, by age,  *)
(* by expiry or by a result.  That nothing but Record makes a published    *)
(* draft active rests on the records agreeing.                             *)
(***************************************************************************)

Counted == {d \in fresh \ redone["validator"] : IsAuto(d) /\ status[d] = "active"}

Room ==
  job["publisher"].at \in {"create", "record"} /\ IsAuto(job["publisher"].msg.id) =>
    Cardinality(Counted) < PublishLimit

LEMMA CountedFinite ==
  ASSUME PipelineInv
  PROVE  /\ IsFiniteSet(Drafts) /\ IsFiniteSet(fresh) /\ IsFiniteSet(Counted)
         /\ Cardinality(Counted) \in Nat
<1>1. IsFiniteSet(Drafts) BY BoundsAssumption, FS_Interval DEF Drafts
<1>2. fresh \subseteq Drafts /\ Counted \subseteq Drafts
  BY DEF PipelineInv, TypeOK, Counted
<1> QED BY <1>1, <1>2, FS_Subset, FS_CardinalityType

\* Every step but Record leaves fewer drafts in the count, or the same.
LEMMA CountedFrom ==
  ASSUME RecordsInv, [Next]_vars
  PROVE  \/ Counted' \subseteq Counted
         \/ /\ Record /\ IsAuto(job["publisher"].msg.id)
            /\ Counted' \subseteq Counted \cup {job["publisher"].msg.id}
<1>0. PipelineInv /\ "validator" \in Workers BY DEF RecordsInv, Workers
<1>1. redone["validator"] \subseteq redone'["validator"] BY <1>0, RedoneGrows
<1>2. \A d \in fresh : IsAuto(d)' = IsAuto(d)
  <2>1. \A d \in fresh : Inserted(d)
    BY DEF RecordsInv, PipelineInv, TypeOK, Unpublished
  <2> QED BY <1>0, <2>1, OriginStays, NoneAssumption DEF Inserted, IsAuto
<1>3. ASSUME ~Record, NEW d \in fresh, d \notin redone["validator"], status'[d] = "active"
      PROVE  status[d] = "active"
  <2>1. d \in published /\ d \in Drafts BY <1>0 DEF PipelineInv, TypeOK
  <2>2. Inserted(d) /\ ~Unjudged(d) BY <1>3, <2>1 DEF RecordsInv, Unpublished
  <2>3. ~(job["validator"].at = "judge" /\ job["validator"].msg.id = d)
    BY <2>2 DEF Unjudged
  <2> QED BY <1>0, <1>3, <2>1, <2>2, <2>3, StatusFrom, NoneAssumption DEF Inserted
<1>4. CASE Record
  <2>0. PICK k : k = job["publisher"].msg.id OBVIOUS
  <2>1. /\ fresh' = fresh \cup {k} /\ origin' = origin
        /\ status' = [status EXCEPT ![k] = "active"]
    BY <1>4, <2>0 DEF Record
  <2>2. IsAuto(k)' = IsAuto(k) BY <2>1 DEF IsAuto
  <2>3. \A d \in fresh : d # k => status'[d] = status[d]
    BY <1>0, <2>1 DEF PipelineInv, TypeOK
  <2>4. CASE IsAuto(k) BY <1>1, <1>2, <1>4, <2>0, <2>1, <2>3, <2>4 DEF Counted
  <2>5. CASE ~IsAuto(k)
    <3>1. \A d \in Counted' : d \in Counted
      BY <1>1, <1>2, <2>1, <2>2, <2>3, <2>5 DEF Counted, IsAuto
    <3> QED BY <3>1
  <2> QED BY <2>4, <2>5
<1>5. CASE fresh' \subseteq fresh /\ ~Record BY <1>1, <1>2, <1>3, <1>5 DEF Counted
<1> QED
  BY <1>4, <1>5 DEF Next, Work, Take, TakeDisabled, Ack, Rested, Fail, Retry, Stop,
       Restart,
     Disconnect, Heartbeat, Handler, Generate, PublishDraftValidate, Judge, TellProposal,
     Forward, Check,
     CreateMarket, WriteLog, Propose, StartProcessing, PublishCandidate, Review,
     HourPasses, Expire, tables, vars

LEMMA RoomStep ==
  RecordsInv /\ Room /\ HourlyLimit /\ [Next]_vars => (Room /\ HourlyLimit)'
<1> SUFFICES ASSUME RecordsInv, Room, HourlyLimit, [Next]_vars PROVE (Room /\ HourlyLimit)'
  OBVIOUS
<1> DEFINE j == job["publisher"]
           n == Cardinality(Counted)
<1>0. /\ PipelineInv /\ PipelineInv' /\ "publisher" \in Workers /\ DOMAIN job = Workers
      /\ Moves("publisher") /\ n \in Nat /\ n' \in Nat /\ PublishLimit \in Nat
      /\ IsFiniteSet(Counted) /\ IsFiniteSet(fresh) /\ IsFiniteSet(Counted') /\ n <= PublishLimit
  <2>1. PipelineInv /\ PipelineInv' BY RecordsStep DEF RecordsInv
  <2>2. "publisher" \in Workers BY DEF Workers
  <2>3. Moves("publisher") BY <2>1, <2>2, EveryStepMoves
  <2>4. n' \in Nat /\ IsFiniteSet(Counted')
    <3>1. IsFiniteSet(Drafts) /\ Counted' \subseteq Drafts
      BY <2>1, CountedFinite DEF PipelineInv, TypeOK, Counted
    <3> QED BY <3>1, FS_Subset, FS_CardinalityType
  <2>5. n <= PublishLimit BY DEF HourlyLimit, Counted
  <2> QED
    BY <2>1, <2>2, <2>3, <2>4, <2>5, CountedFinite, BoundsAssumption DEF PipelineInv,
         TypeOK
<1>1. Counted' \subseteq Counted => n' <= n BY <1>0, FS_Subset
<1>2. HourlyLimit'
  <2>1. CASE Counted' \subseteq Counted BY <1>0, <1>1, <2>1 DEF HourlyLimit, Counted
  <2>2. CASE Record /\ IsAuto(j.msg.id) /\ Counted' \subseteq Counted \cup {j.msg.id}
    <3> DEFINE more == Counted \cup {j.msg.id}
    <3>1. n < PublishLimit BY <2>2 DEF Record, At, Room
    <3>2. IsFiniteSet(more) /\ (Cardinality(more) = n \/ Cardinality(more) = n + 1)
      BY <1>0, FS_AddElement
    <3>3. n' <= Cardinality(more) BY <2>2, <3>2, FS_Subset
    <3>4. Cardinality(more) \in Nat BY <3>2, FS_CardinalityType
    <3> HIDE DEF more, n
    <3>5. n' <= PublishLimit BY <1>0, <3>1, <3>2, <3>3, <3>4
    <3> QED BY <3>5 DEF HourlyLimit, Counted, n
  <2> QED BY <2>1, <2>2, CountedFrom
<1>3. Room'
  <2> DEFINE k == job'["publisher"].msg.id
  <2> SUFFICES ASSUME job'["publisher"].at \in {"create", "record"}, origin'[k] \in FromNews
               PROVE  n' < PublishLimit
    BY DEF Room, IsAuto
  <2>1. ~Record
    <3> SUFFICES ASSUME Record PROVE FALSE OBVIOUS
    <3>1. GoTo("publisher", "tell") /\ j # Idle BY NextWrite DEF Record, Onward, At, Idle
    <3> QED BY <1>0, <3>1, Stepping, StepsOf
  <2>2. n' <= n BY <1>1, <2>1, CountedFrom
  <2>3. job'["publisher"] # Idle BY DEF Idle
  <2>4. ASSUME job'["publisher"].msg = j.msg, j # Idle PROVE IsAuto(k)
    <3>1. Inserted(k) BY <1>0, <2>4, Handling
    <3>2. origin'[k] = origin[k] BY <1>0, <3>1, OriginStays, NoneAssumption DEF Inserted
    <3> QED BY <3>2 DEF IsAuto
  <2>5. CASE job'["publisher"] = j
    <3>1. n < PublishLimit BY <2>3, <2>4, <2>5 DEF Room
    <3> QED BY <1>0, <2>2, <3>1
  <2>6. CASE j # Idle /\ job'["publisher"].msg = j.msg /\ Handler("publisher")
    <3>1. CASE CreateMarket
      <4>1. n < PublishLimit BY <2>4, <2>6, <3>1 DEF CreateMarket, At, Room
      <4> QED BY <1>0, <2>2, <4>1
    <3>2. CASE Check
      <4>1. ~GoTo("publisher", "ack")
        <5> SUFFICES ASSUME GoTo("publisher", "ack") PROVE FALSE OBVIOUS
        <5> QED BY <1>0, <2>6, Stepping, StepsOf
      <4>2. CanAutoPublish BY <2>4, <2>6, <3>2, <4>1 DEF Check
      <4>3. Counted \subseteq {d \in fresh : IsAuto(d) /\ status[d] = "active"}
        BY DEF Counted
      <4>4. IsFiniteSet({d \in fresh : IsAuto(d) /\ status[d] = "active"})
        BY <1>0, FS_Subset
      <4>5. n <= AutoPublishCount BY <4>3, <4>4, FS_Subset DEF AutoPublishCount
      <4>6. AutoPublishCount \in Nat BY <4>4, FS_CardinalityType DEF AutoPublishCount
      <4>7. AutoPublishCount < PublishLimit BY <4>2 DEF CanAutoPublish
      <4> HIDE DEF n
      <4> QED BY <1>0, <2>2, <4>5, <4>6, <4>7
    <3>3. CASE TellProposal("publisher", "published") \/ WriteLog
      <4>1. GoTo("publisher", "log") \/ GoTo("publisher", "ack")
        BY <3>3, NextWrite DEF TellProposal, WriteLog, Onward, At
      <4> QED BY <1>0, <2>6, <4>1, Stepping, StepsOf
    <3> QED BY <2>1, <2>6, <3>1, <3>2, <3>3 DEF Handler
  <2>7. CASE job'["publisher"].at = First["publisher"] BY <2>7 DEF First
  <2> QED BY <1>0, <2>3, <2>5, <2>6, <2>7, JobFrom
<1> QED BY <1>2, <1>3

\* Of the markets nobody proposed and the publisher put up within an hour, no more
\* than PublishLimit are active at once, leaving aside drafts judged again after
\* their publication, whatever fails, dies, expires or is resolved between the count
\* and the record (canAutoPublish of config.ts and processPublish of publisher.ts).
\* Publications are not limited: an expiry makes room for the next one.
THEOREM PublicationsLimited == Spec => []HourlyLimit
<1>1. Init => RecordsInv /\ Room /\ HourlyLimit
  <2> SUFFICES ASSUME Init PROVE Room /\ HourlyLimit BY InitRecordsInv
  <2>1. Room BY DEF Init, Room, Idle, Workers
  <2>2. {d \in fresh \ redone["validator"] : IsAuto(d) /\ status[d] = "active"} = {}
    BY DEF Init
  <2>3. HourlyLimit BY <2>2, FS_EmptySet, BoundsAssumption DEF HourlyLimit
  <2> QED BY <2>1, <2>3
<1>2. RecordsInv /\ Room /\ HourlyLimit /\ [Next]_vars
        => (RecordsInv /\ Room /\ HourlyLimit)'
  BY RecordsStep, RoomStep
<1> QED BY <1>1, <1>2, PTL DEF Spec
=============================================================================
