--------------------------- MODULE WalletSessions ---------------------------
(* What a click does: the web client's adapter (client.ts) and the           *)
(* configuration scripts, as sessions of steps that read the chain and send  *)
(* one transaction after another, while the chain, the network, the wallet   *)
(* and other sessions go on.  A mutation that fails is tried once more by    *)
(* the query client; what the first try sent may still land.                 *)
EXTENDS Administration, Sequences

CONSTANTS
  Sessions,
  Ops,         \* the operations users start, some of DOMAIN Steps
  MaxRetries,  \* mutations.retry
  MaxActs      \* bound on changes of the connected key and on direct acts of authorities,
               \* leaving aside the one that initialises the program

ASSUME SessionsAssumption == MaxRetries \in Nat /\ MaxActs \in Nat

VARIABLES
  wallet,   \* the key connected to the page; the adapter reads it at every step
  session,  \* per session the operation, its inputs, the current try and the report
  attempt,  \* per session and try: the next step, what it has read, its last transaction
  acts      \* such changes and acts so far

vars == <<chain, wallet, session, attempt, acts>>

Trades == {"swap", "mintCompleteSet", "redeemCompleteSet", "addLiquidity", "withdrawLiquidity"}
Scripts == {"setMinUsdc", "setMinTrading", "setBoth"}

\* The steps of each operation, in the order of its function.
Steps == [
  createMarket           |-> <<"permit", "readList", "mintNo", "readTeam", "create", "setAuthority">>,
  fixMarketMintAuthority |-> <<"readMarket", "setAuthority">>,
  addToWhitelist         |-> <<"add">>,
  removeFromWhitelist    |-> <<"remove">>,
  swap                   |-> <<"readMarket", "accounts", "simulate", "trade">>,
  mintCompleteSet        |-> <<"readMarket", "trade">>,
  redeemCompleteSet      |-> <<"readMarket", "trade">>,
  addLiquidity           |-> <<"readMarket", "accounts", "trade">>,
  withdrawLiquidity      |-> <<"readMarket", "position", "trade">>,
  setMinUsdc             |-> <<"readConfig", "configure">>,
  setMinTrading          |-> <<"readConfig", "configure">>,
  setBoth                |-> <<"readConfig", "configure">>]

\* sendTransaction with confirmTransaction, whose value.err nobody looks at;
\* the others go through rpc(), which throws it.
Unchecked == {"swap", "mintCompleteSet", "withdrawLiquidity"}
\* Hooks built on useMutation; whitelist page and scripts call directly.
Retries(op) == IF op \in Trades \cup {"createMarket"} THEN MaxRetries ELSE 0

NoAttempt == [at |-> 1, tx |-> "none", owner |-> Nobody, signer |-> Nobody,
              shown |-> FALSE, no |-> None, market |-> None, seen |-> None]
NoSession == [op |-> "none", try |-> 0, result |-> "none", key |-> Nobody,
              market |-> None, no |-> None, dated |-> FALSE]

TypeOK ==
  /\ ChainOK
  /\ wallet \in People /\ acts \in 0 .. MaxActs
  /\ session \in [Sessions ->
       [op : Ops \cup {"none"}, try : 0 .. MaxRetries, result : {"none", "success", "failure"},
        key : People \cup {Nobody}, market : Markets \cup {None},
        no : NoTokens \cup {None}, dated : BOOLEAN]]
  /\ \A s \in Sessions, k \in 0 .. MaxRetries : LET a == attempt[s][k] IN
       /\ a.at \in 1 .. 6 /\ a.tx \in {"none", "sent", "landed", "failed", "moved", "expired"}
       /\ a.seen \in Configs \cup {None}

Init ==
  /\ ChainInit
  /\ wallet \in People /\ acts = 0
  /\ session = [s \in Sessions |-> NoSession]
  /\ attempt = [s \in Sessions |-> [k \in 0 .. MaxRetries |-> NoAttempt]]

-----------------------------------------------------------------------------
Now(s) == attempt[s][session[s].try]
StepOf(s, k) == Steps[session[s].op][attempt[s][k].at]
Working(s) == session[s].op # "none" /\ session[s].result = "none"
At(s, step) == Working(s) /\ Now(s).tx = "none" /\ StepOf(s, session[s].try) = step

\* The step is done: the next one, or success.
Advance(s, a) ==
  IF a.at = Len(Steps[session[s].op])
  THEN session' = [session EXCEPT ![s].result = "success"]
       /\ attempt' = [attempt EXCEPT ![s][session[s].try] = a]
  ELSE attempt' = [attempt EXCEPT ![s][session[s].try] = [a EXCEPT !.at = @ + 1, !.tx = "none"]]
       /\ UNCHANGED session

\* Of a try that is over, only what is under way still matters, and which keys
\* have been used.
Left(a) == IF a.tx = "sent" THEN a ELSE [NoAttempt EXCEPT !.no = a.no, !.market = a.market]

\* The try has thrown: once more from the start of the mutation (the page's
\* own check is not part of it), or failure.
GiveUp(s) ==
  LET k == session[s].try IN
  IF k < Retries(session[s].op)
  THEN /\ session' = [session EXCEPT ![s].try = @ + 1]
       /\ attempt' = [attempt EXCEPT ![s][k] = Left(@),
                        ![s][k + 1].at = IF session[s].op = "createMarket" THEN 2 ELSE 1]
  ELSE /\ session' = [session EXCEPT ![s].result = "failure"]
       /\ attempt' = [attempt EXCEPT ![s][k] = Left(@)]

-----------------------------------------------------------------------------
Start(s, r) ==
  /\ session[s].op = "none"
  /\ r.op \in Ops
  /\ session' = [session EXCEPT ![s] = r]
  /\ UNCHANGED <<chain, wallet, attempt, acts>>

\* The create page, with or without dates, or with a NO token made before.
StartCreate(s) ==
  \E d \in BOOLEAN, n \in {None} \cup {x \in NoTokens : mint[x].at # "unborn"} :
    Start(s, [NoSession EXCEPT !.op = "createMarket", !.dated = d, !.no = n])
\* The panels of a market's page.  No page offers complete sets yet.
Shown == {m \in Markets : market[m] # None}
Sets == {"mintCompleteSet", "redeemCompleteSet"}
StartOn(s, op, m) == Start(s, [NoSession EXCEPT !.op = op, !.market = m])
StartTrade(s) == \E op \in {"swap"} \cup Sets, m \in Shown : StartOn(s, op, m)
StartLiquidity(s) ==
  \E op \in {"addLiquidity", "withdrawLiquidity"}, m \in Shown : StartOn(s, op, m)
\* The creator's panel, whose guess that the mints are still the vault's goes by
\* the liquidity displayed.
StartRepair(s) ==
  \E m \in Shown : market[m].creator = wallet /\ StartOn(s, "fixMarketMintAuthority", m)
StartWhitelisting(s) ==
  \E op \in {"addToWhitelist", "removeFromWhitelist"}, q \in People :
    Start(s, [NoSession EXCEPT !.op = op, !.key = q])
\* A script run with the key of p on disk.
StartScript(s) ==
  \E op \in Scripts, p \in People : Start(s, [NoSession EXCEPT !.op = op, !.key = p])

-----------------------------------------------------------------------------
(* Steps that read. *)

ReadFails(s) ==
  /\ \E step \in {"permit", "readList", "readTeam", "readMarket", "accounts",
                  "simulate", "position", "readConfig"} : At(s, step)
  /\ GiveUp(s) /\ UNCHANGED <<chain, wallet, acts>>

\* useIsAdmin: the authority may create too, the page says.
ReadPermission(s) ==
  /\ At(s, "permit") /\ (IsAuthority(wallet) \/ wallet \in listed)
  /\ Advance(s, Now(s)) /\ UNCHANGED <<chain, wallet, acts>>

\* isWhitelisted; a NO token given is not minted again.
ReadList(s) ==
  /\ At(s, "readList")
  /\ Advance(s, [Now(s) EXCEPT !.shown = wallet \in listed, !.no = session[s].no,
                               !.at = IF session[s].no = None THEN @ ELSE @ + 1])
  /\ UNCHANGED <<chain, wallet, acts>>

ReadTeamWallet(s) ==
  /\ At(s, "readTeam") /\ config.live
  /\ Advance(s, Now(s)) /\ UNCHANGED <<chain, wallet, acts>>

\* getMarket and getConfigData; the user's accounts are derived from the key
\* connected now.
ReadMarket(s) ==
  LET m == session[s].market IN
  /\ At(s, "readMarket") /\ market[m] # None
  /\ Advance(s, [Now(s) EXCEPT !.market = m, !.no = market[m].no, !.owner = wallet])
  /\ UNCHANGED <<chain, wallet, acts>>

\* Token accounts that are missing are created, a position must be there.
PrepareAccounts(s) ==
  /\ At(s, "accounts") \/ At(s, "position")
  /\ Advance(s, Now(s)) /\ UNCHANGED <<chain, wallet, acts>>

\* The swap runs against the present chain, with the key connected as payer.
Simulate(s) ==
  /\ At(s, "simulate") /\ Open("swap", Now(s).market) /\ wallet = Now(s).owner
  /\ Advance(s, Now(s)) /\ UNCHANGED <<chain, wallet, acts>>

ReadConfig(s) ==
  /\ At(s, "readConfig") /\ config.live
  /\ Advance(s, [Now(s) EXCEPT !.seen = config])
  /\ UNCHANGED <<chain, wallet, acts>>

-----------------------------------------------------------------------------
(* Steps that send. *)

Taken(field) == {attempt[s][k][field] : s \in Sessions, k \in 0 .. MaxRetries}

Send(s, a) ==
  /\ attempt' = [attempt EXCEPT ![s][session[s].try] = [a EXCEPT !.tx = "sent"]]
  /\ UNCHANGED <<chain, wallet, session, acts>>

SendMintNo(s) ==
  /\ At(s, "mintNo")
  /\ \E n \in NoTokens \ Taken("no") :
       Send(s, [Now(s) EXCEPT !.no = n, !.signer = wallet])
SendCreate(s) ==
  /\ At(s, "create")
  /\ \E m \in Markets \ Taken("market") :
       Send(s, [Now(s) EXCEPT !.market = m, !.signer = wallet])
SendByWallet(s) ==
  /\ \E step \in {"setAuthority", "add", "remove", "trade"} : At(s, step)
  /\ Send(s, [Now(s) EXCEPT !.signer = wallet])
\* The whole configuration as it was read, but for the fields to be changed.
Edited(c, op) ==
  [c EXCEPT !.minUsdc = IF op = "setMinTrading" THEN @ ELSE "new",
            !.minTrading = IF op = "setMinUsdc" THEN @ ELSE "new"]
SendConfigure(s) == At(s, "configure") /\ Send(s, [Now(s) EXCEPT !.signer = session[s].key])

-----------------------------------------------------------------------------
(* The chain executes, refuses or forgets what was sent, in any order. *)

\* The accounts of a trade are the ones of the key that signs.
Admitted(s, k) ==
  LET a == attempt[s][k]
      step == StepOf(s, k) IN
  /\ step = "mintNo" => CanMintNoToken(a.no)
  /\ step = "create" => CanCreateMarket(a.signer, a.shown, ~session[s].dated, a.no, a.market)
  /\ step = "setAuthority" => CanSetMintAuthority(a.signer, a.no, a.market)
  /\ step = "add" => CanAdd(a.signer, session[s].key)
  /\ step = "remove" => CanRemove(a.signer, session[s].key)
  /\ step = "configure" => CanConfigure(a.signer, Edited(a.seen, session[s].op))
  /\ step = "trade" => Open(session[s].op, a.market) /\ a.signer = a.owner

Execute(s, k) ==
  LET a == attempt[s][k]
      step == StepOf(s, k) IN
  \/ step = "mintNo" /\ MintNoToken(a.no)
  \/ step = "create" /\ CreateMarket(a.signer, a.shown, ~session[s].dated, a.no, a.market)
  \/ step = "setAuthority" /\ SetMintAuthority(a.signer, a.no, a.market)
  \/ step = "add" /\ AddToWhitelist(a.signer, session[s].key)
  \/ step = "remove" /\ RemoveFromWhitelist(a.signer, session[s].key)
  \/ step = "configure" /\ Configure(a.signer, Edited(a.seen, session[s].op))
  \/ step = "trade" /\ UNCHANGED chain

\* What the transaction carried is of no more use.
Over(s, k) == k < session[s].try \/ session[s].result # "none"
Settled(s, k, fate) ==
  LET a == [attempt[s][k] EXCEPT !.tx = fate, !.signer = Nobody, !.seen = None] IN
  IF Over(s, k) THEN Left(a) ELSE a

Land(s, k) ==
  /\ attempt[s][k].tx = "sent" /\ Admitted(s, k) /\ Execute(s, k)
  /\ attempt' = [attempt EXCEPT ![s][k] = Settled(s, k, "landed")]
  /\ UNCHANGED <<wallet, session, acts>>

\* set_mint_authority looks at the two mints before it looks at the signer.
Answer(s, k) ==
  IF StepOf(s, k) = "setAuthority" /\ MintsMoved(attempt[s][k].no, attempt[s][k].market)
  THEN "moved" ELSE "failed"

\* Refused by the program; a trade also for its price or the user's balance.
Refuse(s, k) ==
  /\ attempt[s][k].tx = "sent" /\ (Admitted(s, k) => StepOf(s, k) = "trade")
  /\ attempt' = [attempt EXCEPT ![s][k] = Settled(s, k, Answer(s, k))]
  /\ UNCHANGED <<chain, wallet, session, acts>>

Expire(s, k) ==
  /\ attempt[s][k].tx = "sent"
  /\ attempt' = [attempt EXCEPT ![s][k] = Settled(s, k, "expired")]
  /\ UNCHANGED <<chain, wallet, session, acts>>

\* What counts as confirmed to the client.
ConfirmedAnyway(s) == Now(s).tx \in {"landed", "failed"}   \* mutant
Confirmed(s) ==
  Now(s).tx = "landed" \/ (Now(s).tx = "failed" /\ session[s].op \in Unchecked)

Confirm(s) ==
  /\ Working(s) /\ Confirmed(s)
  /\ Advance(s, Now(s)) /\ UNCHANGED <<chain, wallet, acts>>

\* The creator's panel takes InvalidMintAuthority for a repair already made, if
\* the error it is given still has that name.
TakeForDone(s) ==
  /\ Working(s) /\ session[s].op = "fixMarketMintAuthority" /\ Now(s).tx = "moved"
  /\ session' = [session EXCEPT ![s].result = "success"]
  /\ UNCHANGED <<chain, wallet, attempt, acts>>

\* The error is thrown, or the wait is over: what was sent may have landed,
\* or land later.
Throw(s) ==
  /\ Working(s) /\ Now(s).tx # "none"
  /\ GiveUp(s) /\ UNCHANGED <<chain, wallet, acts>>

-----------------------------------------------------------------------------
\* Another key is connected to the page.
SwitchWallet ==
  /\ acts < MaxActs /\ acts' = acts + 1
  /\ \E p \in People \ {wallet} : wallet' = p
  /\ UNCHANGED <<chain, session, attempt>>

Begin ==
  /\ \E p \in People : Initialize(p)
  /\ UNCHANGED <<wallet, session, attempt, acts>>

Act ==
  /\ acts < MaxActs /\ acts' = acts + 1
  /\ \E p \in People :
       \/ \E q \in People : NominateAuthority(p, q)
       \/ AcceptAuthority(p)
       \/ EmergencyPause(p) \/ EmergencyUnpause(p)
       \/ \E m \in Markets : PauseMarket(p, m)
       \/ \E m \in Markets, x, y \in 0 .. BPS + 1 : ConfigureMarketFees(p, m, x, y)
  /\ UNCHANGED <<wallet, session, attempt>>

Client(s) ==
  \/ StartCreate(s) \/ StartTrade(s) \/ StartLiquidity(s) \/ StartRepair(s)
  \/ StartWhitelisting(s) \/ StartScript(s)
  \/ ReadFails(s) \/ ReadPermission(s) \/ ReadList(s) \/ ReadTeamWallet(s) \/ ReadMarket(s)
  \/ PrepareAccounts(s) \/ Simulate(s) \/ ReadConfig(s)
  \/ SendMintNo(s) \/ SendCreate(s) \/ SendByWallet(s) \/ SendConfigure(s)
  \/ Confirm(s) \/ TakeForDone(s) \/ Throw(s)

Network(s) == \E k \in 0 .. MaxRetries : Land(s, k) \/ Refuse(s, k) \/ Expire(s, k)

Next == (\E s \in Sessions : Client(s) \/ Network(s)) \/ SwitchWallet \/ Begin \/ Act
Spec == Init /\ [][Next]_vars

-----------------------------------------------------------------------------
\* A NO token serves one market, whatever creations run at once: the sentinel
\* create_market mints locks it before the mint authority moves.
SoleNoToken ==
  \A m1, m2 \in Markets :
    market[m1] # None /\ market[m2] # None /\ market[m1].no = market[m2].no => m1 = m2

\* A creation or a repair reported as successful has left a market whose two
\* mints belong to it, also when the repair's own transaction was refused because
\* another had moved them; every other operation sent through rpc() has taken
\* effect, whatever was switched, retried or lost on the way.
SuccessIsReal ==
  \A s \in Sessions : session[s].result = "success" =>
    /\ session[s].op \in {"createMarket", "fixMarketMintAuthority"} => Usable(Now(s).market)
    /\ \/ session[s].op \in Unchecked \/ Now(s).tx = "landed"
       \/ session[s].op = "fixMarketMintAuthority" /\ Now(s).tx = "moved"

\* The program is in the hands of somebody who initialised it or was nominated
\* by an authority, also when scripts write back configurations they read long ago.
AuthorityTraceable ==
  config.live => config.authority \in appointed /\ config.pending \in appointed \cup {Nobody}
=============================================================================
