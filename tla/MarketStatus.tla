---------------------------- MODULE MarketStatus ----------------------------
(***************************************************************************)
(* What the status of a market promises those who look at it: it is only   *)
(* final when the dispute window of a resolution is over or a dispute has  *)
(* been reviewed, the clock alone never closes a disputed market, and what *)
(* is final is undone only by a dispute accepted before, or by reports     *)
(* that got in one another's way.  ResolutionLifecycle implements it.      *)
(***************************************************************************)
EXTENDS Naturals

CONSTANT Markets

VARIABLES
  status,    \* ai_markets.status
  over,      \* markets with a resolution whose dispute window is over
  filing,    \* markets somebody is disputing, accepted while they were resolved
  onRecord,  \* markets with a dispute on record
  hearing,   \* markets with a dispute under review
  raced      \* markets whose reports overlapped, or one of them was cut off

vars == <<status, over, filing, onRecord, hearing, raced>>

Unresolved == {"active", "resolving"}
Resolved == {"resolved", "disputed", "finalized"}

Init ==
  /\ status = [m \in Markets |-> "active"]
  /\ over = {} /\ filing = {} /\ onRecord = {} /\ hearing = {} /\ raced = {}

Become(m, s) == status' = [status EXCEPT ![m] = s]

\* The market has expired.
FallDue(m) ==
  /\ status[m] = "active" /\ Become(m, "resolving")
  /\ UNCHANGED <<over, filing, onRecord, hearing, raced>>

\* A report resolves it; a second one only if the two raced.
Resolve(m) ==
  /\ status[m] \in Unresolved \/ m \in raced
  /\ Become(m, "resolved")
  /\ UNCHANGED <<over, filing, onRecord, hearing, raced>>

Race(m) ==
  /\ status[m] \in Unresolved
  /\ raced' = raced \cup {m}
  /\ UNCHANGED <<status, over, filing, onRecord, hearing>>

EndWindow(m) ==
  /\ over' = over \cup {m}
  /\ UNCHANGED <<status, filing, onRecord, hearing, raced>>

\* A dispute is accepted, put on record, and marks its market, or is given up.
File(m) ==
  /\ status[m] = "resolved"
  /\ filing' = filing \cup {m}
  /\ UNCHANGED <<status, over, onRecord, hearing, raced>>

Record(m) ==
  /\ m \in filing
  /\ onRecord' = onRecord \cup {m}
  /\ UNCHANGED <<status, over, filing, hearing, raced>>

\* The market may have become final in the meantime.  Another dispute of it may
\* still be on its way.
Dispute(m) ==
  /\ m \in filing \cap onRecord /\ status[m] \in Resolved
  /\ Become(m, "disputed")
  /\ filing' \in {filing, filing \ {m}}
  /\ UNCHANGED <<over, onRecord, hearing, raced>>

GiveUp(m) ==
  /\ filing' = filing \ {m}
  /\ UNCHANGED <<status, over, onRecord, hearing, raced>>

\* Time closes a market that is resolved, not one that is disputed.
Close(m) ==
  /\ status[m] = "resolved" /\ m \in over
  /\ Become(m, "finalized")
  /\ UNCHANGED <<over, filing, onRecord, hearing, raced>>

\* A dispute on record is reviewed.  A review closes the market, whatever its status,
\* and may have more to write, or ends without.
Hear(m) ==
  /\ m \in onRecord
  /\ hearing' = hearing \cup {m}
  /\ UNCHANGED <<status, over, filing, onRecord, raced>>

Decide(m) ==
  /\ m \in hearing /\ status[m] \in Resolved
  /\ Become(m, "finalized")
  /\ hearing' \in {hearing, hearing \ {m}}
  /\ UNCHANGED <<over, filing, onRecord, raced>>

Adjourn(m) ==
  /\ hearing' = hearing \ {m}
  /\ UNCHANGED <<status, over, filing, onRecord, raced>>

Next ==
  \E m \in Markets :
    \/ FallDue(m) \/ Resolve(m) \/ Race(m) \/ EndWindow(m)
    \/ File(m) \/ Record(m) \/ Dispute(m) \/ GiveUp(m)
    \/ Close(m) \/ Hear(m) \/ Decide(m) \/ Adjourn(m)

Spec == Init /\ [][Next]_vars
=============================================================================
