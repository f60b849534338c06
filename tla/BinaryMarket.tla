---------------------------- MODULE BinaryMarket ----------------------------
(***************************************************************************)
(* What a prediction market promises its users, without pools, ledgers,    *)
(* fees or switches: tokens change hands for USDC until the market is      *)
(* closed with an outcome, each token then pays exactly its share of one   *)
(* USDC, an outcome can be replaced only while the market is not closed,   *)
(* and what is left is swept once.  MarketLedger implements it.            *)
(***************************************************************************)
EXTENDS Integers

CONSTANT BPS   \* the denominator of the payout of a token

VARIABLES
  stage,       \* "open", "ruled", "closed", "settled" or "swept"
  payout,      \* what a token of each side pays, in BPS
  held,        \* the users' tokens of each side
  cash         \* the USDC the market holds

vars == <<stage, payout, held, cash>>

Sides == {"yes", "no"}
Trading == {"open", "ruled"}
Closed == {"closed", "settled", "swept"}

Init ==
  /\ stage = "open"
  /\ payout = [s \in Sides |-> 0]
  /\ held = [s \in Sides |-> 0]
  /\ cash = 0

\* Users and liquidity providers deal with the market and with one another.
Deal ==
  /\ stage \in Trading
  /\ held' \in [Sides -> Nat] /\ cash' \in Nat
  /\ UNCHANGED <<stage, payout>>

\* The authority names an outcome: all of one USDC goes to the two sides.
Rule(next) ==
  /\ stage \in Trading
  /\ stage' = next
  /\ payout' \in [Sides -> 0 .. BPS]
  /\ payout'["yes"] + payout'["no"] = BPS
  /\ UNCHANGED <<held, cash>>

\* Holders turn tokens in and receive what the outcome says, no more, no less.
Collect ==
  /\ stage \in Closed
  /\ held' \in [Sides -> Nat]
  /\ \A s \in Sides : held'[s] <= held[s]
  /\ cash' = cash - ((held["yes"] - held'["yes"]) * payout["yes"]) \div BPS
                  - ((held["no"] - held'["no"]) * payout["no"]) \div BPS
  /\ cash' >= 0
  /\ UNCHANGED <<stage, payout>>

\* Liquidity providers leave with their part; the holders keep their tokens.
Leave ==
  /\ stage \in {"closed", "settled"}
  /\ cash' \in 0 .. cash
  /\ UNCHANGED <<stage, payout, held>>

Settle ==
  /\ stage = "closed" /\ stage' = "settled"
  /\ UNCHANGED <<payout, held, cash>>

Sweep ==
  /\ stage = "settled" /\ stage' = "swept"
  /\ cash' = 0
  /\ UNCHANGED <<payout, held>>

Next ==
  \/ Deal \/ Rule("ruled") \/ Rule("closed")
  \/ Collect \/ Leave \/ Settle \/ Sweep

Spec == Init /\ [][Next]_vars
=============================================================================
