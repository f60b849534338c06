--------------------------- MODULE Administration ---------------------------
(* The program's configuration, whitelist, NO tokens and markets as accounts *)
(* on the chain: who may change them, and the three instructions that make a *)
(* market (mint_no_token, create_market, set_mint_authority).  An            *)
(* instruction is a guard CanX, the constraints of its accounts and the      *)
(* require!s of its handler, and an action X.  Clients send instructions in  *)
(* module WalletSessions; the money of a market is module MarketLedger.      *)
EXTENDS Integers

CONSTANTS
  People,    \* the keys that sign
  Nobody,    \* Pubkey::default(), which cannot sign
  None,
  NoTokens,  \* the mints mint_no_token creates
  Markets,   \* markets, each named by its YES mint, a new key per creation
  BPS        \* basis points in the whole

ASSUME KeysDiffer ==
  /\ Nobody \notin People /\ None \notin Markets \cup NoTokens
  /\ {"unborn", "vault"} \cap Markets = {}
ASSUME WholeAssumption == BPS \in Nat

VARIABLES
  config,    \* the global config; live once the account exists
  listed,    \* the keys with a whitelist account
  mint,      \* of each NO token, who may mint it ("unborn" before it exists) and its supply
  market,    \* the market accounts, None before they exist
  appointed  \* history: who initialised the config or was nominated by its authority

chain == <<config, listed, mint, market, appointed>>

Settings == {"old", "new"}
Configs == [live : BOOLEAN, authority : People \cup {Nobody},
            pending : People \cup {Nobody}, paused : BOOLEAN, whitelist : BOOLEAN,
            minUsdc : Settings, minTrading : Settings]
Accounts == [creator : People, no : NoTokens, yesAt : {"vault", "market"},
             paused : BOOLEAN, fees : 0 .. 2 * BPS]

ASSUME NoneIsNoAccount == None \notin Accounts

ChainOK ==
  /\ config \in Configs
  /\ listed \subseteq People /\ appointed \subseteq People
  /\ mint \in [NoTokens -> [at : {"unborn", "vault"} \cup Markets, supply : 0 .. 1]]
  /\ market \in [Markets -> Accounts \cup {None}]

ChainInit ==
  /\ config = [live |-> FALSE, authority |-> Nobody, pending |-> Nobody, paused |-> FALSE,
               whitelist |-> FALSE, minUsdc |-> "old", minTrading |-> "old"]
  /\ listed = {} /\ appointed = {}
  /\ mint = [n \in NoTokens |-> [at |-> "unborn", supply |-> 0]]
  /\ market = [m \in Markets |-> None]

IsAuthority(p) == config.live /\ p = config.authority

-----------------------------------------------------------------------------
(* configure writes the whole configuration, whatever it holds; whoever comes *)
(* first initialises it, naming itself.                                       *)
CanConfigure(p, new) == IF config.live THEN p = config.authority ELSE p = new.authority
Configure(p, new) ==
  /\ CanConfigure(p, new)
  /\ config' = [new EXCEPT !.live = TRUE]
  /\ appointed' = IF config.live THEN appointed ELSE {p}
  /\ UNCHANGED <<listed, mint, market>>

\* The initialisation scripts: a configuration with their own key as authority.
Initialize(p) ==
  /\ ~config.live
  /\ \E w \in BOOLEAN : Configure(p, [config EXCEPT !.authority = p, !.whitelist = w])

NominateAuthority(p, q) ==
  /\ IsAuthority(p)
  /\ config' = [config EXCEPT !.pending = q] /\ appointed' = appointed \cup {q}
  /\ UNCHANGED <<listed, mint, market>>

IsNomineeUnchecked(p) == config.live   \* mutant
IsNominee(p) == config.live /\ p = config.pending
AcceptAuthority(p) ==
  /\ IsNominee(p)
  /\ config' = [config EXCEPT !.authority = p, !.pending = Nobody]
  /\ UNCHANGED <<listed, mint, market, appointed>>

CanAdd(p, q) == IsAuthority(p) /\ q \notin listed
AddToWhitelist(p, q) ==
  CanAdd(p, q) /\ listed' = listed \cup {q} /\ UNCHANGED <<config, mint, market, appointed>>

CanRemove(p, q) == IsAuthority(p) /\ q \in listed
RemoveFromWhitelist(p, q) ==
  CanRemove(p, q) /\ listed' = listed \ {q} /\ UNCHANGED <<config, mint, market, appointed>>

EmergencyPause(p) ==
  /\ IsAuthority(p) /\ config' = [config EXCEPT !.paused = TRUE]
  /\ UNCHANGED <<listed, mint, market, appointed>>
EmergencyUnpause(p) ==
  /\ IsAuthority(p) /\ config.paused /\ config' = [config EXCEPT !.paused = FALSE]
  /\ UNCHANGED <<listed, mint, market, appointed>>

\* Neither direction asks what the switch was.
PauseMarket(p, m) ==
  /\ IsAuthority(p) /\ market[m] # None
  /\ \E b \in BOOLEAN : market' = [market EXCEPT ![m].paused = b]
  /\ UNCHANGED <<config, listed, mint, appointed>>

\* Each rate is checked against the whole, their sum is not.
RatesUnchecked(platform, lp) == TRUE   \* mutant
RatesFit(platform, lp) == platform <= BPS /\ lp <= BPS
ConfigureMarketFees(p, m, platform, lp) ==
  /\ IsAuthority(p) /\ market[m] # None /\ RatesFit(platform, lp)
  /\ market' = [market EXCEPT ![m].fees = platform + lp]
  /\ UNCHANGED <<config, listed, mint, appointed>>

-----------------------------------------------------------------------------
\* Asks nothing about pauses or the whitelist.
CanMintNoToken(n) == config.live /\ mint[n].at = "unborn"
MintNoToken(n) ==
  /\ CanMintNoToken(n)
  /\ mint' = [mint EXCEPT ![n].at = "vault"]
  /\ UNCHANGED <<config, listed, market, appointed>>

\* create_market: shown says whether the whitelist account is among the
\* accounts passed (it must then exist), inTime whether the slots lie ahead.
UnusedUnchecked(n) == mint[n].at = "vault"     \* mutant
Unused(n) == mint[n].at = "vault" /\ mint[n].supply = 0
CanCreateMarket(p, shown, inTime, n, m) ==
  /\ config.live /\ ~config.paused
  /\ config.whitelist => shown
  /\ shown => p \in listed
  /\ Unused(n) /\ market[m] = None /\ inTime
CreateMarket(p, shown, inTime, n, m) ==
  /\ CanCreateMarket(p, shown, inTime, n, m)
  /\ mint' = [mint EXCEPT ![n].supply = 1]
  /\ market' = [market EXCEPT ![m] = [creator |-> p, no |-> n, yesAt |-> "vault",
                                      paused |-> FALSE, fees |-> 0]]
  /\ UNCHANGED <<config, listed, appointed>>

\* Both mints leave the global vault together, for the market of this pair.
CanSetMintAuthority(p, n, m) ==
  /\ market[m] # None /\ market[m].no = n
  /\ market[m].yesAt = "vault" /\ mint[n].at = "vault"
  /\ p \in {config.authority, market[m].creator}
SetMintAuthority(p, n, m) ==
  /\ CanSetMintAuthority(p, n, m)
  /\ mint' = [mint EXCEPT ![n].at = m]
  /\ market' = [market EXCEPT ![m].yesAt = "market"]
  /\ UNCHANGED <<config, listed, appointed>>

\* What it answers with InvalidMintAuthority: one of the mints has left the vault.
MintsMoved(n, m) ==
  market[m] # None /\ (market[m].yesAt # "vault" \/ mint[n].at # "vault")

\* The tokens of m are minted by m itself: liquidity can be added.
Usable(m) == market[m] # None /\ market[m].yesAt = "market" /\ mint[market[m].no].at = m

\* What the instructions on a market ask of the switches and of the mints.
\* mint and redeem work with either mint authority; add_liquidity looks at the
\* switch of the market and not at the one of the contract.
Open(kind, m) ==
  /\ market[m] # None
  /\ kind \in {"swap", "mintCompleteSet", "redeemCompleteSet", "withdrawLiquidity"} => ~config.paused
  /\ kind \in {"swap", "addLiquidity", "withdrawLiquidity"} => ~market[m].paused
  /\ kind \in {"addLiquidity", "withdrawLiquidity"} => Usable(m)
  /\ kind = "swap" => market[m].fees <= BPS
=============================================================================
