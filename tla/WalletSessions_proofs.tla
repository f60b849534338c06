------------------------ MODULE WalletSessions_proofs ------------------------
(* What holds of any number of sessions, tries, keys and markets, whatever   *)
(* lands, fails or is lost between the page, the scripts and the program.    *)
EXTENDS WalletSessions, TLAPS

(***************************************************************************)
(* The inductive invariant: what the chain keeps whoever acts, what a      *)
(* session was started with, and what a try has gathered when it reaches a *)
(* step.                                                                   *)
(***************************************************************************)

Records ==
  [op : Ops \cup {"none"}, try : 0 .. MaxRetries, result : {"none", "success", "failure"},
   key : People \cup {Nobody}, market : Markets \cup {None},
   no : NoTokens \cup {None}, dated : BOOLEAN]

Fates == {"none", "sent", "landed", "failed", "moved", "expired"}

Attempts ==
  [at : 1 .. 6, tx : Fates,
   owner : People \cup {Nobody}, signer : People \cup {Nobody}, shown : BOOLEAN,
   no : NoTokens \cup {None}, market : Markets \cup {None}, seen : Configs \cup {None}]

Typed ==
  /\ TypeOK
  /\ attempt \in [Sessions -> [0 .. MaxRetries -> Attempts]]

\* create_market has minted the sentinel of every market's NO token.
Issued == \A m \in Markets : market[m] # None => mint[market[m].no].supply = 1

\* The two mints of a market leave the vault together.
Together(m) ==
  market[m] # None =>
    \/ market[m].yesAt = "vault" /\ mint[market[m].no].at = "vault"
    \/ market[m].yesAt = "market" /\ mint[market[m].no].at = m
Paired == \A m \in Markets : Together(m)

Trusted(c) == c.authority \in appointed /\ c.pending \in appointed \cup {Nobody}

Governed == IF config.live THEN Trusted(config) ELSE appointed = {} /\ config.pending = Nobody

\* A session that runs an operation has the inputs of its page or script.
Given(s) ==
  LET r == session[s] IN
  /\ r.op \in DOMAIN Steps \cup {"none"}
  /\ r.op = "none" => r.try = 0 /\ r.result = "none"
  /\ r.op \in {"addToWhitelist", "removeFromWhitelist"} \cup Scripts => r.key \in People
  /\ r.op \in Trades \cup {"fixMarketMintAuthority"} => r.market \in Markets

\* A try that has not begun has gathered nothing.
Unbegun(s) ==
  \A k \in 0 .. MaxRetries :
    k > session[s].try \/ session[s].op = "none" => attempt[s][k] = NoAttempt

Sending == {"mintNo", "create", "setAuthority", "add", "remove", "configure", "trade"}

\* What a try of op has in hand when it stands where a does.
Fit(op, a) ==
  /\ a.at <= Len(Steps[op])
  /\ a.tx # "none" => Steps[op][a.at] \in Sending
  /\ a.tx = "sent" => a.signer \in People
  /\ op = "createMarket" =>
       /\ a.at >= 4 \/ (a.at = 3 /\ a.tx # "none") => a.no \in NoTokens
       /\ a.at = 6 \/ (a.at = 5 /\ a.tx # "none") => a.market \in Markets
  /\ op = "fixMarketMintAuthority" /\ a.at = 2 =>
       /\ a.no \in NoTokens /\ a.market \in Markets
       /\ market[a.market] # None /\ market[a.market].no = a.no
  /\ op \in Scripts /\ a.at = 2 /\ a.tx \in {"none", "sent"} =>
       /\ a.seen \in Configs /\ a.seen.live /\ config.live /\ Trusted(a.seen)
  /\ Steps[op][a.at] = "setAuthority" /\ a.tx = "landed" => Usable(a.market)
  /\ op = "fixMarketMintAuthority" /\ a.tx = "moved" => Usable(a.market)

Prepared(s) ==
  session[s].op # "none" =>
    \A k \in 0 .. MaxRetries : Fit(session[s].op, attempt[s][k])

\* What the last transaction of op comes to when its page is content with it.
Done(op, a) ==
  \/ a.tx = "landed"
  \/ op \in Unchecked /\ a.tx = "failed"
  \/ op = "fixMarketMintAuthority" /\ a.tx = "moved"

\* Success is reported at the last step, and then only.
Reported(s) ==
  session[s].result = "success" =>
    Now(s).at = Len(Steps[session[s].op]) /\ Done(session[s].op, Now(s))

Sound(s) == Given(s) /\ Unbegun(s) /\ Prepared(s) /\ Reported(s)

SessionsInv ==
  Typed /\ Issued /\ SoleNoToken /\ Paired /\ Governed /\ \A s \in Sessions : Sound(s)

(***************************************************************************)
(* The chain's instructions.  Whatever arrives, the accounts keep their    *)
(* types, a NO token its one market and the program its hands; and what a  *)
(* session has learned stays true.                                         *)
(***************************************************************************)

ChainInv == ChainOK /\ Issued /\ SoleNoToken /\ Paired /\ Governed

\* What later instructions cannot undo.
Lasting ==
  /\ config.live => config'.live /\ appointed \subseteq appointed'
  /\ \A m \in Markets : Usable(m) => Usable(m)'
  /\ \A m \in Markets : market[m] # None => market'[m] # None /\ market'[m].no = market[m].no

Instruction ==
  \/ UNCHANGED chain
  \/ \E n \in NoTokens : MintNoToken(n)
  \/ \E p \in People, shown, inTime \in BOOLEAN, n \in NoTokens, m \in Markets :
       CreateMarket(p, shown, inTime, n, m)
  \/ \E p \in People, n \in NoTokens, m \in Markets : SetMintAuthority(p, n, m)
  \/ \E p, q \in People : AddToWhitelist(p, q) \/ RemoveFromWhitelist(p, q)
                          \/ NominateAuthority(p, q)
  \/ \E p \in People, new \in Configs :
       /\ Configure(p, new)
       /\ IF config.live THEN Trusted(new) ELSE new.pending = Nobody
  \/ \E p \in People : AcceptAuthority(p) \/ EmergencyPause(p) \/ EmergencyUnpause(p)
  \/ \E p \in People, m \in Markets : PauseMarket(p, m)
  \/ \E p \in People, m \in Markets, x, y \in 0 .. BPS + 1 : ConfigureMarketFees(p, m, x, y)

LEMMA ChainTypes ==
  ASSUME ChainOK
  PROVE  /\ config.live \in BOOLEAN /\ config.authority \in People \cup {Nobody}
         /\ config.pending \in People \cup {Nobody}
         /\ \A m \in Markets : market[m] # None => market[m] \in Accounts
  BY DEF ChainOK, Configs

\* Instructions on NO tokens and markets.
LEMMA MarketsKeep ==
  ASSUME ChainInv,
         \/ \E n \in NoTokens : MintNoToken(n)
         \/ \E p \in People, shown, inTime \in BOOLEAN, n \in NoTokens, m \in Markets :
              CreateMarket(p, shown, inTime, n, m)
         \/ \E p \in People, n \in NoTokens, m \in Markets : SetMintAuthority(p, n, m)
  PROVE  ChainInv' /\ Lasting
<1>1. CASE \E n \in NoTokens : MintNoToken(n)
  <2>1. PICK n \in NoTokens : MintNoToken(n) BY <1>1
  <2>2. /\ mint[n].at = "unborn" /\ mint' = [mint EXCEPT ![n].at = "vault"]
        /\ UNCHANGED <<config, listed, market, appointed>>
    BY <2>1 DEF MintNoToken, CanMintNoToken
  <2>3. mint' \in [NoTokens -> [at : {"unborn", "vault"} \cup Markets, supply : 0 .. 1]]
        /\ \A k \in NoTokens : mint'[k].supply = mint[k].supply /\ (k # n => mint'[k] = mint[k])
    BY <2>2 DEF ChainInv, ChainOK
  <2>4. \A m \in Markets : market[m] # None => market[m].no \in NoTokens
    BY ChainTypes DEF ChainInv, Accounts
  <2>5. Lasting
    BY <2>2, <2>3, KeysDiffer DEF Lasting, Usable, ChainInv, ChainOK
  <2>6. Paired'
    <3>1. SUFFICES ASSUME NEW m \in Markets PROVE Together(m)' BY DEF Paired
    <3>2. Together(m) BY DEF ChainInv, Paired
    <3>3. market[m] # None => market[m].no # n
      BY <2>2, <3>1, <3>2, KeysDiffer DEF Together
    <3> QED BY <2>2, <2>3, <2>4, <3>1, <3>2, <3>3 DEF Together
  <2> QED
    BY <2>2, <2>3, <2>4, <2>5, <2>6
    DEF ChainInv, ChainOK, Issued, SoleNoToken, Governed, Trusted
<1>2. CASE \E p \in People, shown, inTime \in BOOLEAN, n \in NoTokens, m \in Markets :
             CreateMarket(p, shown, inTime, n, m)
  <2>1. PICK p \in People, shown \in BOOLEAN, inTime \in BOOLEAN, n \in NoTokens, m \in Markets :
          CreateMarket(p, shown, inTime, n, m)
    BY <1>2
  <2> DEFINE new == [creator |-> p, no |-> n, yesAt |-> "vault", paused |-> FALSE,
      fees |-> 0]
  <2>2. /\ mint[n].at = "vault" /\ mint[n].supply = 0 /\ market[m] = None
        /\ mint' = [mint EXCEPT ![n].supply = 1]
        /\ market' = [market EXCEPT ![m] = new]
        /\ UNCHANGED <<config, listed, appointed>>
    BY <2>1 DEF CreateMarket, CanCreateMarket, Unused
  <2>3. new \in Accounts /\ new.no = n /\ new.yesAt = "vault"
    BY WholeAssumption DEF Accounts
  <2> HIDE DEF new
  <2>4. /\ mint' \in [NoTokens -> [at : {"unborn", "vault"} \cup Markets, supply : 0 .. 1]]
        /\ \A k \in NoTokens : mint'[k].at = mint[k].at
        /\ \A k \in NoTokens : k # n => mint'[k] = mint[k]
        /\ mint'[n].supply = 1
    BY <2>2 DEF ChainInv, ChainOK
  <2>5. /\ market' \in [Markets -> Accounts \cup {None}] /\ market'[m] = new
        /\ \A k \in Markets : k # m => market'[k] = market[k]
    BY <2>2, <2>3 DEF ChainInv, ChainOK
  <2>6. \A k \in Markets : market[k] # None => market[k].no \in NoTokens
    BY ChainTypes DEF ChainInv, Accounts
  <2>7. Issued' BY <2>3, <2>4, <2>5, <2>6 DEF ChainInv, Issued
  <2>8. Lasting BY <2>2, <2>4, <2>5, <2>6 DEF Lasting, Usable
  <2>9. \A k \in Markets : market[k] # None => market[k].no # n
    BY <2>2 DEF ChainInv, Issued
  <2>10. SoleNoToken' BY <2>3, <2>5, <2>9 DEF ChainInv, SoleNoToken
  <2>11. Paired'
    <3>1. SUFFICES ASSUME NEW k \in Markets PROVE Together(k)' BY DEF Paired
    <3>2. CASE k = m BY <2>2, <2>3, <2>4, <2>5, <3>2 DEF Together
    <3>3. CASE k # m
      <4>1. Together(k) BY DEF ChainInv, Paired
      <4> QED BY <2>4, <2>5, <2>6, <3>3, <4>1 DEF Together
    <3> QED BY <3>2, <3>3
  <2> QED
    BY <2>2, <2>4, <2>5, <2>7, <2>8, <2>10, <2>11 DEF ChainInv, ChainOK, Governed, Trusted
<1>3. CASE \E p \in People, n \in NoTokens, m \in Markets : SetMintAuthority(p, n, m)
  <2>1. PICK p \in People, n \in NoTokens, m \in Markets : SetMintAuthority(p, n, m)
    BY <1>3
  <2>2. /\ market[m] # None /\ market[m].no = n /\ mint[n].at = "vault"
        /\ mint' = [mint EXCEPT ![n].at = m]
        /\ market' = [market EXCEPT ![m].yesAt = "market"]
        /\ UNCHANGED <<config, listed, appointed>>
    BY <2>1 DEF SetMintAuthority, CanSetMintAuthority
  <2>3. market[m] \in Accounts BY <2>2, ChainTypes DEF ChainInv
  <2>4. /\ mint' \in [NoTokens -> [at : {"unborn", "vault"} \cup Markets, supply : 0 .. 1]]
        /\ \A k \in NoTokens : mint'[k].supply = mint[k].supply
        /\ \A k \in NoTokens : k # n => mint'[k] = mint[k]
    BY <2>2 DEF ChainInv, ChainOK
  <2>5. /\ market' \in [Markets -> Accounts \cup {None}] /\ market'[m].no = n
        /\ market'[m] \in Accounts /\ market'[m].yesAt = "market" /\ mint'[n].at = m
        /\ \A k \in Markets : k # m => market'[k] = market[k]
    BY <2>2, <2>3 DEF ChainInv, ChainOK, Accounts
  <2>6. \A k \in Markets : market[k] # None => market[k].no \in NoTokens
    BY ChainTypes DEF ChainInv, Accounts
  <2>7. Issued' BY <2>2, <2>4, <2>5, <2>6 DEF ChainInv, Issued
  <2>8. ASSUME NEW k \in Markets, Usable(k) PROVE Usable(k)'
    <3>1. mint[market[k].no].at = k /\ market[k] # None BY <2>8 DEF Usable
    <3>2. market[k].no # n BY <2>2, <3>1, KeysDiffer
    <3>3. k # m BY <2>2, <3>2
    <3> QED BY <2>4, <2>5, <2>6, <2>8, <3>2, <3>3 DEF Usable
  <2>9. SoleNoToken' BY <2>2, <2>5 DEF ChainInv, SoleNoToken
  <2>10. Paired'
    <3>1. SUFFICES ASSUME NEW k \in Markets PROVE Together(k)' BY DEF Paired
    <3>2. CASE k = m BY <2>5, <3>2 DEF Together
    <3>3. CASE k # m
      <4>1. Together(k) BY DEF ChainInv, Paired
      <4>2. market[k] # None => market[k].no # n BY <2>2, <3>3 DEF ChainInv, SoleNoToken
      <4> QED BY <2>4, <2>5, <2>6, <3>3, <4>1, <4>2 DEF Together
    <3> QED BY <3>2, <3>3
  <2>11. \A k \in Markets : market[k] # None =>
           market'[k] # None /\ market'[k].no = market[k].no
    BY <2>2, <2>5, NoneIsNoAccount
  <2> QED
    BY <2>2, <2>4, <2>5, <2>7, <2>8, <2>9, <2>10, <2>11
    DEF ChainInv, ChainOK, Governed, Trusted, Lasting
<1> QED BY <1>1, <1>2, <1>3

\* Instructions on the configuration and the whitelist.
LEMMA ConfigKeeps ==
  ASSUME ChainInv, UNCHANGED <<mint, market>>,
         config' \in Configs, listed' \subseteq People, appointed' \subseteq People,
         config.live => config'.live /\ appointed \subseteq appointed',
         Governed'
  PROVE  ChainInv' /\ Lasting
  BY DEF ChainInv, ChainOK, Issued, SoleNoToken, Paired, Together, Lasting, Usable

\* Instructions on one market's switch or fees.
LEMMA MarketKeeps ==
  ASSUME ChainInv, UNCHANGED <<config, listed, mint, appointed>>,
         NEW m \in Markets, market[m] # None, NEW new \in Accounts,
         market' = [market EXCEPT ![m] = new],
         new.no = market[m].no, new.yesAt = market[m].yesAt
  PROVE  ChainInv' /\ Lasting
<1>1. /\ market' \in [Markets -> Accounts \cup {None}] /\ market'[m] = new /\ new # None
      /\ \A k \in Markets : k # m => market'[k] = market[k]
  BY NoneIsNoAccount DEF ChainInv, ChainOK
<1> QED
  BY <1>1
  DEF ChainInv, ChainOK, Issued, SoleNoToken, Paired, Together, Governed, Trusted,
      Lasting, Usable

LEMMA InstructionKeeps == ASSUME ChainInv, Instruction PROVE ChainInv' /\ Lasting
<1>0. /\ config \in Configs /\ listed \subseteq People /\ appointed \subseteq People
      /\ Nobody \notin People
  BY KeysDiffer DEF ChainInv, ChainOK
<1>1. CASE UNCHANGED chain
  BY <1>1
  DEF chain, ChainInv, ChainOK, Issued, SoleNoToken, Paired, Together, Governed, Trusted,
      Lasting, Usable
<1>2. CASE \E p \in People, q \in People : AddToWhitelist(p, q) \/ RemoveFromWhitelist(p, q)
  <2>1. UNCHANGED <<config, mint, market, appointed>> /\ listed' \subseteq People
    BY <1>0, <1>2 DEF AddToWhitelist, RemoveFromWhitelist
  <2> QED BY <1>0, <2>1, ConfigKeeps DEF ChainInv, Governed, Trusted
<1>3. CASE \E p \in People, q \in People : NominateAuthority(p, q)
  <2>1. PICK p \in People, q \in People : NominateAuthority(p, q) BY <1>3
  <2>2. /\ config.live /\ config' = [config EXCEPT !.pending = q]
        /\ appointed' = appointed \cup {q} /\ UNCHANGED <<listed, mint, market>>
    BY <2>1 DEF NominateAuthority, IsAuthority
  <2>3. /\ config' \in Configs /\ config'.live /\ config'.pending = q
        /\ config'.authority = config.authority
    BY <1>0, <2>2 DEF Configs
  <2>4. Governed' BY <2>2, <2>3 DEF ChainInv, Governed, Trusted
  <2> QED BY <1>0, <2>2, <2>3, <2>4, ConfigKeeps
<1>4. CASE \E p \in People, new \in Configs :
             /\ Configure(p, new)
             /\ IF config.live THEN Trusted(new) ELSE new.pending = Nobody
  <2>1. PICK p \in People, new \in Configs :
          /\ Configure(p, new)
          /\ IF config.live THEN Trusted(new) ELSE new.pending = Nobody
    BY <1>4
  <2>2. /\ CanConfigure(p, new) /\ config' = [new EXCEPT !.live = TRUE]
        /\ appointed' = IF config.live THEN appointed ELSE {p}
        /\ UNCHANGED <<listed, mint, market>>
    BY <2>1 DEF Configure
  <2>3. /\ config' \in Configs /\ config'.live /\ config'.pending = new.pending
        /\ config'.authority = new.authority
    BY <2>2 DEF Configs
  <2>4. Governed' /\ appointed' \subseteq People
    BY <1>0, <2>1, <2>2, <2>3 DEF Governed, Trusted, CanConfigure
  <2> QED BY <1>0, <2>2, <2>3, <2>4, ConfigKeeps
<1>5. CASE \E p \in People : AcceptAuthority(p)
  <2>1. PICK p \in People : AcceptAuthority(p) BY <1>5
  <2>2. /\ config.live /\ p = config.pending
        /\ config' = [config EXCEPT !.authority = p, !.pending = Nobody]
        /\ UNCHANGED <<listed, mint, market, appointed>>
    BY <2>1 DEF AcceptAuthority, IsNominee
  <2>3. /\ config' \in Configs /\ config'.live /\ config'.pending = Nobody
        /\ config'.authority = p
    BY <1>0, <2>2 DEF Configs
  <2>4. Governed' BY <1>0, <2>2, <2>3 DEF ChainInv, Governed, Trusted
  <2> QED BY <1>0, <2>2, <2>3, <2>4, ConfigKeeps
<1>6. CASE \E p \in People : EmergencyPause(p) \/ EmergencyUnpause(p)
  <2>1. /\ config.live /\ (\E b \in BOOLEAN : config' = [config EXCEPT !.paused = b])
        /\ UNCHANGED <<listed, mint, market, appointed>>
    BY <1>6 DEF EmergencyPause, EmergencyUnpause, IsAuthority
  <2>2. /\ config' \in Configs /\ config'.live /\ config'.pending = config.pending
        /\ config'.authority = config.authority
    BY <1>0, <2>1 DEF Configs
  <2>3. Governed' BY <2>1, <2>2 DEF ChainInv, Governed, Trusted
  <2> QED BY <1>0, <2>1, <2>2, <2>3, ConfigKeeps
<1>7. CASE \E p \in People, m \in Markets : PauseMarket(p, m)
  <2>1. PICK p \in People, m \in Markets : PauseMarket(p, m) BY <1>7
  <2>2. PICK b \in BOOLEAN : market' = [market EXCEPT ![m].paused = b]
    BY <2>1 DEF PauseMarket
  <2>3. market[m] \in Accounts BY <2>1, ChainTypes DEF ChainInv, PauseMarket
  <2> DEFINE new == [market[m] EXCEPT !.paused = b]
  <2>4. new \in Accounts /\ new.no = market[m].no /\ new.yesAt = market[m].yesAt
    BY <2>3 DEF Accounts
  <2>5. market' = [market EXCEPT ![m] = new] BY <2>2
  <2> HIDE DEF new
  <2> QED BY <2>1, <2>4, <2>5, MarketKeeps DEF PauseMarket
<1>8. CASE \E p \in People, m \in Markets, x \in 0 .. BPS + 1, y \in 0 .. BPS + 1 :
             ConfigureMarketFees(p, m, x, y)
  <2>1. PICK p \in People, m \in Markets, x \in 0 .. BPS + 1, y \in 0 .. BPS + 1 :
          ConfigureMarketFees(p, m, x, y)
    BY <1>8
  <2>2. x + y \in 0 .. 2 * BPS
    BY <2>1, WholeAssumption DEF ConfigureMarketFees, RatesFit
  <2>3. market[m] \in Accounts BY <2>1, ChainTypes DEF ChainInv, ConfigureMarketFees
  <2> DEFINE new == [market[m] EXCEPT !.fees = x + y]
  <2>4. new \in Accounts /\ new.no = market[m].no /\ new.yesAt = market[m].yesAt
    BY <2>2, <2>3 DEF Accounts
  <2>5. market' = [market EXCEPT ![m] = new] BY <2>1 DEF ConfigureMarketFees
  <2> HIDE DEF new
  <2> QED BY <2>1, <2>4, <2>5, MarketKeeps DEF ConfigureMarketFees
<1> QED
  BY <1>1, <1>2, <1>3, <1>4, <1>5, <1>6, <1>7, <1>8, MarketsKeep DEF Instruction

(***************************************************************************)
(* The operations' steps, and what may stand where.                        *)
(***************************************************************************)

LEMMA Programs ==
  /\ DOMAIN Steps = Trades \cup Scripts \cup {"createMarket", "fixMarketMintAuthority",
                                             "addToWhitelist", "removeFromWhitelist"}
  /\ Steps["createMarket"] =
       <<"permit", "readList", "mintNo", "readTeam", "create", "setAuthority">>
  /\ Steps["fixMarketMintAuthority"] = <<"readMarket", "setAuthority">>
  /\ Steps["addToWhitelist"] = <<"add">>
  /\ Steps["removeFromWhitelist"] = <<"remove">>
  /\ Steps["swap"] = <<"readMarket", "accounts", "simulate", "trade">>
  /\ Steps["mintCompleteSet"] = <<"readMarket", "trade">>
  /\ Steps["redeemCompleteSet"] = <<"readMarket", "trade">>
  /\ Steps["addLiquidity"] = <<"readMarket", "accounts", "trade">>
  /\ Steps["withdrawLiquidity"] = <<"readMarket", "position", "trade">>
  /\ \A op \in Scripts : Steps[op] = <<"readConfig", "configure">>
  BY DEF Steps, Trades, Scripts

\* Where each step stands.
Stands(op, i) ==
  LET step == Steps[op][i] IN
  /\ step = "permit" => op = "createMarket" /\ i = 1
  /\ step = "readList" => op = "createMarket" /\ i = 2
  /\ step = "mintNo" => op = "createMarket" /\ i = 3
  /\ step = "readTeam" => op = "createMarket" /\ i = 4
  /\ step = "create" => op = "createMarket" /\ i = 5
  /\ step = "setAuthority" =>
       (op = "createMarket" /\ i = 6) \/ (op = "fixMarketMintAuthority" /\ i = 2)
  /\ step = "readMarket" => op \in Trades \cup {"fixMarketMintAuthority"} /\ i = 1
  /\ step \in {"accounts", "simulate", "position"} => op \in Trades
  /\ step = "readConfig" => op \in Scripts /\ i = 1
  /\ step = "configure" => op \in Scripts /\ i = 2
  /\ step = "add" => op = "addToWhitelist"
  /\ step = "remove" => op = "removeFromWhitelist"
  /\ step = "trade" => op \in Trades
  /\ step \notin Sending => i < Len(Steps[op])
  /\ step \in Sending => i = Len(Steps[op]) \/ (op = "createMarket" /\ i \in {3, 5})

LEMMA StepsStand ==
  ASSUME NEW op \in DOMAIN Steps
  PROVE  /\ Len(Steps[op]) \in 1 .. 6
         /\ op = "createMarket" <=> Len(Steps[op]) = 6
         /\ op \in {"fixMarketMintAuthority"} \cup Scripts => Len(Steps[op]) = 2
         /\ \A i \in 1 .. Len(Steps[op]) : Stands(op, i)
<1>1. CASE op = "createMarket" BY <1>1, Programs DEF Stands, Sending, Trades, Scripts
<1>2. CASE op = "fixMarketMintAuthority"
  BY <1>2, Programs DEF Stands, Sending, Trades, Scripts
<1>3. CASE op = "addToWhitelist" BY <1>3, Programs DEF Stands, Sending, Trades, Scripts
<1>4. CASE op = "removeFromWhitelist" BY <1>4, Programs DEF Stands, Sending, Trades,
    Scripts
<1>5. CASE op = "swap" BY <1>5, Programs DEF Stands, Sending, Trades, Scripts
<1>6. CASE op = "mintCompleteSet" BY <1>6, Programs DEF Stands, Sending, Trades, Scripts
<1>7. CASE op = "redeemCompleteSet" BY <1>7, Programs DEF Stands, Sending, Trades, Scripts
<1>8. CASE op = "addLiquidity" BY <1>8, Programs DEF Stands, Sending, Trades, Scripts
<1>9. CASE op = "withdrawLiquidity" BY <1>9, Programs DEF Stands, Sending, Trades, Scripts
<1>10. CASE op \in Scripts
  <2>1. Steps[op] = <<"readConfig", "configure">> BY <1>10, Programs
  <2> QED BY <1>10, <2>1 DEF Stands, Sending, Trades, Scripts
<1> QED
  BY <1>1, <1>2, <1>3, <1>4, <1>5, <1>6, <1>7, <1>8, <1>9, <1>10, Programs DEF Trades

(***************************************************************************)
(* A session's own steps.                                                  *)
(***************************************************************************)

LEMMA Invariants ==
  ASSUME SessionsInv, NEW s \in Sessions
  PROVE  /\ ChainInv /\ Sound(s)
         /\ session \in [Sessions -> Records]
         /\ attempt \in [Sessions -> [0 .. MaxRetries -> Attempts]]
         /\ wallet \in People /\ acts \in 0 .. MaxActs /\ MaxRetries \in Nat
         /\ session[s].try \in 0 .. MaxRetries /\ Now(s) \in Attempts
  BY SessionsAssumption DEF SessionsInv, ChainInv, Typed, TypeOK, Now, Records

\* The try of a session at work.
LEMMA AtWork ==
  ASSUME SessionsInv, NEW s \in Sessions, Working(s)
  PROVE  LET op == session[s].op  a == Now(s) IN
         /\ op \in DOMAIN Steps /\ a \in Attempts /\ Fit(op, a)
         /\ a.at \in 1 .. Len(Steps[op]) /\ Stands(op, a.at)
<1> DEFINE op == session[s].op
           a == Now(s)
<1>1. op \in DOMAIN Steps /\ a \in Attempts /\ Fit(op, a)
  BY Invariants DEF Working, Sound, Given, Prepared, Now
<1>2. a.at \in 1 .. Len(Steps[op]) BY <1>1, StepsStand DEF Attempts, Fit
<1> QED BY <1>1, <1>2, StepsStand

\* What a try has in hand stays good, whatever the chain does.
LEMMA FitLasts ==
  ASSUME Lasting, NEW op \in DOMAIN Steps, NEW a \in Attempts, Fit(op, a)
  PROVE  Fit(op, a)'
<1>1. Steps[op][a.at] = "setAuthority" /\ a.tx = "landed" => Usable(a.market)'
  <2>1. SUFFICES ASSUME Steps[op][a.at] = "setAuthority", a.tx = "landed"
                 PROVE  Usable(a.market)'
    OBVIOUS
  <2>2. a.at \in 1 .. Len(Steps[op]) BY StepsStand DEF Fit, Attempts
  <2>3. Stands(op, a.at) BY <2>2, StepsStand
  <2>4. a.market \in Markets BY <2>1, <2>3 DEF Stands, Fit
  <2>5. Usable(a.market) BY <2>1 DEF Fit
  <2>6. PICK m \in Markets : m = a.market BY <2>4
  <2>7. Usable(m)' BY <2>5, <2>6 DEF Lasting
  <2> QED BY <2>6, <2>7
<1>2. op \in Scripts /\ a.at = 2 /\ a.tx \in {"none", "sent"} =>
        /\ a.seen \in Configs /\ a.seen.live /\ config'.live /\ Trusted(a.seen)'
  BY DEF Lasting, Trusted, Fit
<1>3. op = "fixMarketMintAuthority" /\ a.at = 2 =>
        market'[a.market] # None /\ market'[a.market].no = a.no
  BY DEF Lasting, Fit
<1>4. op = "fixMarketMintAuthority" /\ a.tx = "moved" => Usable(a.market)'
  <2>1. SUFFICES ASSUME op = "fixMarketMintAuthority", a.tx = "moved" PROVE Usable(a.market)'
    OBVIOUS
  <2>2. a.at \in 1 .. Len(Steps[op]) /\ Steps[op][a.at] \in Sending
    BY <2>1, StepsStand DEF Fit, Attempts
  <2>3. a.at = 2 BY <2>1, <2>2, Programs DEF Sending
  <2>4. PICK m \in Markets : m = a.market BY <2>1, <2>3 DEF Fit
  <2>5. Usable(m) BY <2>1, <2>4 DEF Fit
  <2> QED BY <2>4, <2>5 DEF Lasting
<1> QED BY <1>1, <1>2, <1>3, <1>4 DEF Fit

\* A session that nothing touches.
LEMMA SoundStays ==
  ASSUME SessionsInv, Lasting, NEW q \in Sessions,
         session'[q] = session[q], attempt'[q] = attempt[q]
  PROVE  Sound(q)'
<1>1. Sound(q) BY DEF SessionsInv
<1>2. Given(q)' /\ Unbegun(q)' /\ Reported(q)'
  BY <1>1 DEF Sound, Given, Unbegun, Reported, Now
<1>3. Prepared(q)'
  <2>1. PICK o, g : o = session[q].op /\ g = attempt[q] OBVIOUS
  <2>2. g \in [0 .. MaxRetries -> Attempts] BY <2>1, Invariants
  <2>3. o # "none" => o \in DOMAIN Steps /\ \A k \in 0 .. MaxRetries : Fit(o, g[k])
    BY <1>1, <2>1 DEF Sound, Given, Prepared
  <2>4. o # "none" => \A k \in 0 .. MaxRetries : Fit(o, g[k])' BY <2>2, <2>3, FitLasts
  <2> QED BY <2>1, <2>4 DEF Prepared
<1> QED BY <1>2, <1>3 DEF Sound

\* The types, and nothing left to show but that each session is sound.
LEMMA AllGoOn ==
  ASSUME ChainInv', wallet' \in People, acts' \in 0 .. MaxActs,
         session' \in [Sessions -> Records],
         attempt' \in [Sessions -> [0 .. MaxRetries -> Attempts]],
         \A q \in Sessions : Sound(q)'
  PROVE  SessionsInv'
<1>1. ASSUME NEW q \in Sessions, NEW k \in 0 .. MaxRetries
      PROVE  attempt'[q][k] \in Attempts
  <2>1. attempt'[q] \in [0 .. MaxRetries -> Attempts] OBVIOUS
  <2> QED BY <2>1
<1>2. \A q \in Sessions, k \in 0 .. MaxRetries : LET a == attempt'[q][k] IN
        /\ a.at \in 1 .. 6 /\ a.tx \in Fates
        /\ a.seen \in Configs \cup {None}
  BY <1>1 DEF Attempts
<1>3. Typed' BY <1>2 DEF Typed, TypeOK, Records, ChainInv, Fates
<1> QED BY <1>3 DEF SessionsInv, ChainInv

\* One session goes on with some of its tries.
LEMMA TriesGoOn ==
  ASSUME SessionsInv, ChainInv', Lasting, wallet' \in People, acts' \in 0 .. MaxActs,
         NEW s \in Sessions, NEW op, op # "none", NEW r \in Records,
         NEW f \in [0 .. MaxRetries -> Attempts],
         session[s].op = op, r.op = op, r.key = session[s].key, r.market = session[s].market,
         session' = [session EXCEPT ![s] = r], attempt' = [attempt EXCEPT ![s] = f],
         \A j \in 0 .. MaxRetries : j > r.try => f[j] = NoAttempt,
         \A j \in 0 .. MaxRetries : Fit(op, f[j])',
         Reported(s)'
  PROVE  SessionsInv'
<1>1. /\ session \in [Sessions -> Records]
      /\ attempt \in [Sessions -> [0 .. MaxRetries -> Attempts]]
      /\ Sound(s)
  BY Invariants DEF Records
<1>2. /\ session' \in [Sessions -> Records] /\ session'[s] = r
      /\ attempt' \in [Sessions -> [0 .. MaxRetries -> Attempts]] /\ attempt'[s] = f
      /\ \A q \in Sessions : q # s => session'[q] = session[q] /\ attempt'[q] = attempt[q]
  BY <1>1
<1>3. Given(s)' BY <1>1, <1>2 DEF Sound, Given
<1>4. Unbegun(s)' BY <1>2 DEF Unbegun
<1>5. Prepared(s)' BY <1>2 DEF Prepared
<1>6. ASSUME NEW q \in Sessions PROVE Sound(q)'
  <2>1. CASE q = s BY <1>3, <1>4, <1>5, <2>1 DEF Sound
  <2>2. CASE q # s BY <1>2, <2>2, SoundStays
  <2> QED BY <2>1, <2>2
<1> QED BY <1>2, <1>6, AllGoOn

\* One session goes on with one of its tries.
LEMMA TryGoesOn ==
  ASSUME SessionsInv, ChainInv', Lasting, wallet' \in People, acts' \in 0 .. MaxActs,
         NEW s \in Sessions, NEW op, op # "none", NEW r \in Records,
         NEW k \in 0 .. MaxRetries, NEW b \in Attempts,
         session[s].op = op, r.op = op, r.key = session[s].key,
         r.market = session[s].market, r.try >= session[s].try, k <= r.try,
         session' = [session EXCEPT ![s] = r],
         attempt' = [attempt EXCEPT ![s][k] = b],
         Fit(op, b)', Reported(s)'
  PROVE  SessionsInv'
<1>1. /\ session \in [Sessions -> Records]
      /\ attempt \in [Sessions -> [0 .. MaxRetries -> Attempts]]
      /\ Sound(s)
  BY Invariants DEF Records
<1>2. PICK g : g = attempt[s] OBVIOUS
<1>3. PICK f : f = [g EXCEPT ![k] = b] OBVIOUS
<1>4. g \in [0 .. MaxRetries -> Attempts] BY <1>1, <1>2
<1>5. f \in [0 .. MaxRetries -> Attempts] /\ f[k] = b
      /\ \A j \in 0 .. MaxRetries : j # k => f[j] = g[j]
  BY <1>3, <1>4
<1>6. attempt' = [attempt EXCEPT ![s] = f] BY <1>1, <1>2, <1>3
<1>7. ASSUME NEW j \in 0 .. MaxRetries, j > r.try PROVE f[j] = NoAttempt
  <2>1. r.try \in 0 .. MaxRetries /\ session[s].try \in 0 .. MaxRetries
    BY <1>1 DEF Records
  <2>2. j # k /\ j > session[s].try BY <1>7, <2>1, SessionsAssumption
  <2> QED BY <1>1, <1>2, <1>5, <2>2 DEF Sound, Unbegun
<1>8. ASSUME NEW j \in 0 .. MaxRetries PROVE Fit(op, f[j])'
  <2>1. CASE j = k
    <3>1. f[j] = b BY <1>5, <2>1
    <3> QED BY <3>1
  <2>2. CASE j # k
    <3>1. f[j] = g[j] BY <1>5, <2>2
    <3>2. op \in DOMAIN Steps /\ Fit(op, g[j])
      BY <1>1, <1>2 DEF Sound, Given, Prepared
    <3>3. Fit(op, g[j])' BY <1>4, <3>2, FitLasts
    <3> QED BY <3>1, <3>3
  <2> QED BY <2>1, <2>2
<1> QED BY <1>5, <1>6, <1>7, <1>8, TriesGoOn

\* The chain as it was.
LEMMA ChainRests == ASSUME SessionsInv, UNCHANGED chain PROVE ChainInv' /\ Lasting
  BY InstructionKeeps DEF SessionsInv, Typed, TypeOK, ChainInv, Instruction

\* A step done: what the try has in hand must fit where it goes on, or the
\* success that is reported.
LEMMA AdvanceKeeps ==
  ASSUME SessionsInv, NEW s \in Sessions, Working(s), NEW a \in Attempts,
         Advance(s, a), UNCHANGED <<chain, wallet, acts>>,
         LET op == session[s].op IN
           IF a.at = Len(Steps[op])
           THEN Fit(op, a) /\ Done(op, a)
           ELSE a.at < 6 /\ Fit(op, [a EXCEPT !.at = @ + 1, !.tx = "none"])
  PROVE  SessionsInv'
<1>1. /\ session \in [Sessions -> Records]
      /\ attempt \in [Sessions -> [0 .. MaxRetries -> Attempts]]
      /\ session[s].op \in DOMAIN Steps /\ session[s].op # "none"
      /\ session[s].result = "none" /\ session[s].try \in 0 .. MaxRetries
      /\ wallet' \in People /\ acts' \in 0 .. MaxActs
  BY Invariants, AtWork DEF Records, Working
<1>2. PICK op, t, last : op = session[s].op /\ t = session[s].try /\ last = Len(Steps[op])
  OBVIOUS
<1>3. ChainInv' /\ Lasting BY ChainRests
<1>4. CASE a.at = last
  <2>1. PICK r : r = [session[s] EXCEPT !.result = "success"] OBVIOUS
  <2>2. /\ r \in Records /\ r.op = op /\ r.key = session[s].key
        /\ r.market = session[s].market /\ r.try = t
    BY <1>1, <1>2, <2>1 DEF Records
  <2>3. session' = [session EXCEPT ![s] = r] /\ attempt' = [attempt EXCEPT ![s][t] = a]
    BY <1>1, <1>2, <1>4, <2>1 DEF Advance
  <2>4. Fit(op, a)' BY <1>1, <1>2, <1>3, <1>4, FitLasts
  <2>5. session'[s] = r /\ attempt'[s][t] = a BY <1>1, <1>2, <2>3
  <2>6. Reported(s)' BY <1>2, <1>4, <2>2, <2>5 DEF Reported, Now
  <2>7. t >= t /\ t <= t BY <1>1, <1>2, SessionsAssumption
  <2> QED BY <1>1, <1>2, <1>3, <2>2, <2>3, <2>4, <2>6, <2>7, TryGoesOn
<1>5. CASE a.at # last
  <2>1. PICK b : b = [a EXCEPT !.at = @ + 1, !.tx = "none"] OBVIOUS
  <2>2. a.at \in 1 .. 6 /\ a.at < 6 BY <1>2, <1>5 DEF Attempts
  <2>3. a.at + 1 \in 1 .. 6 BY <2>2
  <2>4. b \in Attempts BY <2>1, <2>3 DEF Attempts, Fates
  <2>5. PICK r : r = session[s] OBVIOUS
  <2>6. r \in Records BY <1>1, <2>5
  <2>7. session' = [session EXCEPT ![s] = r] /\ attempt' = [attempt EXCEPT ![s][t] = b]
    BY <1>1, <1>2, <1>5, <2>1, <2>5 DEF Advance
  <2>8. Fit(op, b)' BY <1>1, <1>2, <1>3, <1>5, <2>1, <2>4, FitLasts
  <2>9. session'[s].result = "none" BY <1>1, <2>5, <2>7
  <2>10. Reported(s)' BY <2>9 DEF Reported
  <2>11. t >= t /\ t <= t BY <1>1, <1>2, SessionsAssumption
  <2> QED BY <1>1, <1>2, <1>3, <2>4, <2>5, <2>6, <2>7, <2>8, <2>10, <2>11, TryGoesOn
<1> QED BY <1>4, <1>5

\* What is left of a try asks nothing.
LEMMA LeftFits ==
  ASSUME SessionsInv, NEW op \in DOMAIN Steps, NEW a \in Attempts, Fit(op, a)
  PROVE  Left(a) \in Attempts /\ Fit(op, Left(a))
<1>1. CASE a.tx = "sent" BY <1>1 DEF Left
<1>2. CASE a.tx # "sent"
  <2>1. PICK b : b = Left(a) OBVIOUS
  <2>2. b = [at |-> 1, tx |-> "none", owner |-> Nobody, signer |-> Nobody,
             shown |-> FALSE, no |-> a.no, market |-> a.market, seen |-> None]
    BY <1>2, <2>1 DEF Left, NoAttempt
  <2>3. b \in Attempts BY <2>2 DEF Attempts, Fates
  <2>4. PICK n : n = Len(Steps[op]) OBVIOUS
  <2>5. n \in 1 .. 6 BY <2>4, StepsStand
  <2>6. 1 <= n BY <2>5
  <2>7. 1 <= Len(Steps[op]) BY <2>4, <2>6, Zenon
  <2>8. Fit(op, b) BY <2>2, <2>7 DEF Fit, Scripts
  <2> QED BY <2>1, <2>3, <2>8
<1> QED BY <1>1, <1>2

\* The try is over: the next one begins with nothing in hand.
LEMMA GiveUpKeeps ==
  ASSUME SessionsInv, NEW s \in Sessions, Working(s),
         GiveUp(s), UNCHANGED <<chain, wallet, acts>>
  PROVE  SessionsInv'
<1>1. /\ session \in [Sessions -> Records]
      /\ attempt \in [Sessions -> [0 .. MaxRetries -> Attempts]] /\ Sound(s)
      /\ session[s].op \in DOMAIN Steps /\ session[s].op # "none"
      /\ session[s].result = "none" /\ session[s].try \in 0 .. MaxRetries
      /\ wallet' \in People /\ acts' \in 0 .. MaxActs /\ MaxRetries \in Nat
  BY Invariants, AtWork DEF Records, Working
<1>2. PICK op, t, g : op = session[s].op /\ t = session[s].try /\ g = attempt[s] OBVIOUS
<1>3. ChainInv' /\ Lasting BY ChainRests
<1>4. PICK l : l = Left(g[t]) OBVIOUS
<1>5. g \in [0 .. MaxRetries -> Attempts] /\ t \in 0 .. MaxRetries BY <1>1, <1>2
<1>6. \A j \in 0 .. MaxRetries : g[j] \in Attempts /\ Fit(op, g[j])
  BY <1>1, <1>2, <1>5 DEF Sound, Prepared
<1>7. l \in Attempts /\ Fit(op, l) BY <1>1, <1>2, <1>4, <1>5, <1>6, LeftFits
<1>8. ASSUME NEW f \in [0 .. MaxRetries -> Attempts],
             \A j \in 0 .. MaxRetries : Fit(op, f[j])
      PROVE  \A j \in 0 .. MaxRetries : Fit(op, f[j])'
  BY <1>1, <1>2, <1>3, <1>8, FitLasts
<1>9. CASE t < Retries(op)
  <2>1. t + 1 \in 0 .. MaxRetries BY <1>1, <1>2, <1>9 DEF Retries
  <2>2. g[t + 1] = NoAttempt BY <1>1, <1>2, <2>1 DEF Sound, Unbegun
  <2>3. PICK i : i = (IF op = "createMarket" THEN 2 ELSE 1) OBVIOUS
  <2>4. PICK b : b = [NoAttempt EXCEPT !.at = i] OBVIOUS
  <2>5. b = [at |-> i, tx |-> "none", owner |-> Nobody, signer |-> Nobody,
             shown |-> FALSE, no |-> None, market |-> None, seen |-> None]
    BY <2>4 DEF NoAttempt
  <2>6. b \in Attempts BY <2>3, <2>5 DEF Attempts, Fates
  <2>7. i \in 1 .. Len(Steps[op])
    <3>1. op \in DOMAIN Steps BY <1>1, <1>2
    <3>2. Len(Steps[op]) \in 1 .. 6 /\ (op = "createMarket" => Len(Steps[op]) = 6)
      BY <3>1, StepsStand
    <3>3. PICK n : n = Len(Steps[op]) OBVIOUS
    <3>4. n \in 1 .. 6 /\ (op = "createMarket" => n = 6) BY <3>2, <3>3
    <3>5. i \in 1 .. n BY <2>3, <3>4
    <3> QED BY <3>3, <3>5
  <2>8. Fit(op, b) BY <2>3, <2>5, <2>7, StepsStand DEF Fit, Scripts
  <2>9. PICK r : r = [session[s] EXCEPT !.try = t + 1] OBVIOUS
  <2>10. /\ r \in Records /\ r.op = op /\ r.key = session[s].key
         /\ r.market = session[s].market /\ r.try = t + 1 /\ r.result = "none"
    BY <1>1, <1>2, <2>1, <2>9 DEF Records
  <2>11. PICK f : f = [g EXCEPT ![t] = l, ![t + 1] = b] OBVIOUS
  <2>12. t # t + 1 BY <1>5
  <2>13. /\ f \in [0 .. MaxRetries -> Attempts] /\ f[t] = l /\ f[t + 1] = b
         /\ \A j \in 0 .. MaxRetries : j # t /\ j # t + 1 => f[j] = g[j]
    BY <1>5, <1>7, <2>1, <2>6, <2>11, <2>12
  <2>14. session' = [session EXCEPT ![s] = r] /\ attempt' = [attempt EXCEPT ![s] = f]
    <3>1. /\ session' = [session EXCEPT ![s].try = @ + 1]
          /\ attempt' = [attempt EXCEPT ![s][t] = Left(@), ![s][t + 1].at = i]
      BY <1>2, <1>9, <2>3 DEF GiveUp
    <3>2. session' = [session EXCEPT ![s] = r] BY <1>1, <1>2, <2>9, <3>1
    <3>3. PICK h : h = [g EXCEPT ![t] = Left(@), ![t + 1].at = i] OBVIOUS
    <3>4. attempt' = [attempt EXCEPT ![s] = h] BY <1>1, <1>2, <3>1, <3>3
    <3>5. h = f
      <4>1. h = [[g EXCEPT ![t] = l] EXCEPT ![t + 1] = [NoAttempt EXCEPT !.at = i]]
        BY <1>4, <1>5, <2>1, <2>2, <2>12, <3>3
      <4> QED BY <2>4, <2>11, <4>1
    <3> QED BY <3>2, <3>4, <3>5
  <2>15. ASSUME NEW j \in 0 .. MaxRetries, j > r.try PROVE f[j] = NoAttempt
    <3>1. j > t /\ j # t /\ j # t + 1 BY <1>5, <2>10, <2>15
    <3>2. g[j] = NoAttempt BY <1>1, <1>2, <3>1 DEF Sound, Unbegun
    <3> QED BY <2>13, <3>1, <3>2
  <2>16. ASSUME NEW j \in 0 .. MaxRetries PROVE Fit(op, f[j])
    <3>1. CASE j = t
      <4>1. f[j] = l BY <2>13, <3>1
      <4> QED BY <1>7, <4>1
    <3>2. CASE j = t + 1
      <4>1. f[j] = b BY <2>13, <3>2
      <4> QED BY <2>8, <4>1
    <3>3. CASE j # t /\ j # t + 1
      <4>1. f[j] = g[j] BY <2>13, <3>3
      <4> QED BY <1>6, <4>1
    <3> QED BY <3>1, <3>2, <3>3
  <2>17. \A j \in 0 .. MaxRetries : Fit(op, f[j])' BY <1>8, <2>13, <2>16
  <2>18. Reported(s)' BY <1>1, <2>10, <2>14 DEF Reported
  <2> QED BY <1>1, <1>2, <1>3, <2>10, <2>13, <2>14, <2>15, <2>17, <2>18, TriesGoOn
<1>10. CASE ~(t < Retries(op))
  <2>1. PICK r : r = [session[s] EXCEPT !.result = "failure"] OBVIOUS
  <2>2. /\ r \in Records /\ r.op = op /\ r.key = session[s].key
        /\ r.market = session[s].market /\ r.try = t /\ r.result = "failure"
    BY <1>1, <1>2, <2>1 DEF Records
  <2>3. /\ session' = [session EXCEPT ![s] = r]
        /\ attempt' = [attempt EXCEPT ![s][t] = l]
    <3>1. /\ session' = [session EXCEPT ![s].result = "failure"]
          /\ attempt' = [attempt EXCEPT ![s][t] = Left(@)]
      BY <1>2, <1>10 DEF GiveUp
    <3> QED BY <1>1, <1>2, <1>4, <2>1, <3>1
  <2>4. Fit(op, l)' BY <1>1, <1>2, <1>3, <1>7, FitLasts
  <2>5. Reported(s)' BY <1>1, <2>2, <2>3 DEF Reported
  <2>6. t >= t /\ t <= t BY <1>1, <1>2
  <2> QED BY <1>1, <1>2, <1>3, <1>5, <1>7, <2>2, <2>3, <2>4, <2>5, <2>6, TryGoesOn
<1> QED BY <1>9, <1>10

\* A transaction is sent.
LEMMA SendKeeps ==
  ASSUME SessionsInv, NEW s \in Sessions, Working(s), NEW a \in Attempts, Send(s, a),
         Fit(session[s].op, [a EXCEPT !.tx = "sent"])
  PROVE  SessionsInv'
<1>1. /\ session \in [Sessions -> Records]
      /\ attempt \in [Sessions -> [0 .. MaxRetries -> Attempts]] /\ Sound(s)
      /\ session[s].op \in DOMAIN Steps /\ session[s].op # "none"
      /\ session[s].result = "none" /\ session[s].try \in 0 .. MaxRetries
      /\ wallet' \in People /\ acts' \in 0 .. MaxActs /\ MaxRetries \in Nat
      /\ UNCHANGED chain
  BY Invariants, AtWork DEF Records, Working, Send
<1>2. PICK op, t, r : op = session[s].op /\ t = session[s].try /\ r = session[s] OBVIOUS
<1>3. ChainInv' /\ Lasting BY <1>1, ChainRests
<1>4. PICK b : b = [a EXCEPT !.tx = "sent"] OBVIOUS
<1>5. b \in Attempts BY <1>4 DEF Attempts, Fates
<1>6. Fit(op, b)' BY <1>1, <1>2, <1>3, <1>4, <1>5, FitLasts
<1>7. session' = [session EXCEPT ![s] = r] /\ attempt' = [attempt EXCEPT ![s][t] = b]
  BY <1>1, <1>2, <1>4 DEF Send
<1>8. Reported(s)' BY <1>1, <1>2, <1>7 DEF Reported
<1>9. r \in Records BY <1>1, <1>2
<1>10. t >= t /\ t <= t BY <1>1, <1>2
<1> QED BY <1>1, <1>2, <1>3, <1>5, <1>6, <1>7, <1>8, <1>9, <1>10, TryGoesOn

\* A session begins, with the inputs of its page.
LEMMA StartKeeps ==
  ASSUME SessionsInv, NEW s \in Sessions, NEW r \in Records, Start(s, r),
         r.op \in DOMAIN Steps, r.result = "none", r.try = 0,
         r.op \in {"addToWhitelist", "removeFromWhitelist"} \cup Scripts => r.key \in People,
         r.op \in Trades \cup {"fixMarketMintAuthority"} => r.market \in Markets
  PROVE  SessionsInv'
<1>1. /\ session \in [Sessions -> Records]
      /\ attempt \in [Sessions -> [0 .. MaxRetries -> Attempts]] /\ Sound(s)
      /\ wallet' \in People /\ acts' \in 0 .. MaxActs
      /\ attempt' = attempt /\ UNCHANGED chain /\ session[s].op = "none"
      /\ session' = [session EXCEPT ![s] = r]
  BY Invariants DEF Records, Start
<1>2. ChainInv' /\ Lasting BY <1>1, ChainRests
<1>3. session' \in [Sessions -> Records] /\ session'[s] = r
      /\ \A q \in Sessions : q # s => session'[q] = session[q]
  BY <1>1
<1>4. \A k \in 0 .. MaxRetries : attempt[s][k] = NoAttempt BY <1>1 DEF Sound, Unbegun
<1>5. PICK op : op = r.op OBVIOUS
<1>6. NoAttempt \in Attempts BY DEF Attempts, NoAttempt, Fates
<1>7. Fit(op, NoAttempt)
  <2>1. op \in DOMAIN Steps BY <1>5
  <2>2. PICK n : n = Len(Steps[op]) OBVIOUS
  <2>3. n \in 1 .. 6 BY <2>1, <2>2, StepsStand
  <2>4. 1 <= n BY <2>3
  <2>5. 1 <= Len(Steps[op]) BY <2>2, <2>4, Zenon
  <2> QED BY <2>5 DEF Fit, NoAttempt, Scripts
<1>8. Fit(op, NoAttempt)' BY <1>2, <1>5, <1>6, <1>7, FitLasts
<1>9. Sound(s)'
  <2>1. Prepared(s)' BY <1>1, <1>3, <1>4, <1>5, <1>8 DEF Prepared
  <2>2. Given(s)' /\ Unbegun(s)' /\ Reported(s)'
    BY <1>1, <1>3, <1>4 DEF Given, Unbegun, Reported
  <2> QED BY <2>1, <2>2 DEF Sound
<1>10. ASSUME NEW q \in Sessions PROVE Sound(q)'
  <2>1. CASE q = s BY <1>9, <2>1
  <2>2. CASE q # s BY <1>1, <1>2, <1>3, <2>2, SoundStays
  <2> QED BY <2>1, <2>2
<1> QED BY <1>1, <1>2, <1>3, <1>10, AllGoOn

(***************************************************************************)
(* What a session does, action by action.                                  *)
(***************************************************************************)

LEMMA StartsKeep ==
  ASSUME SessionsInv, NEW s \in Sessions,
         \/ StartCreate(s) \/ StartTrade(s) \/ StartLiquidity(s) \/ StartRepair(s)
         \/ StartWhitelisting(s) \/ StartScript(s)
  PROVE  SessionsInv'
<1>1. CASE StartCreate(s)
  <2>1. PICK d \in BOOLEAN, n \in {None} \cup {x \in NoTokens : mint[x].at # "unborn"} :
          Start(s, [NoSession EXCEPT !.op = "createMarket", !.dated = d, !.no = n])
    BY <1>1 DEF StartCreate
  <2>2. PICK r : r = [NoSession EXCEPT !.op = "createMarket", !.dated = d, !.no = n] OBVIOUS
  <2>3. r = [op |-> "createMarket", try |-> 0, result |-> "none", key |-> Nobody,
             market |-> None, no |-> n, dated |-> d]
    BY <2>2 DEF NoSession
  <2>4. Start(s, r) BY <2>1, <2>2
  <2>5. r \in Records BY <2>3, <2>4, SessionsAssumption DEF Start, Records
  <2> QED BY <2>3, <2>4, <2>5, StartKeeps, Programs DEF Trades, Scripts
<1>2. CASE \E op \in Trades \cup {"fixMarketMintAuthority"}, m \in Markets : StartOn(s, op, m)
  <2>1. PICK op \in Trades \cup {"fixMarketMintAuthority"}, m \in Markets : StartOn(s, op, m)
    BY <1>2
  <2>2. PICK r : r = [NoSession EXCEPT !.op = op, !.market = m] OBVIOUS
  <2>3. r = [op |-> op, try |-> 0, result |-> "none", key |-> Nobody,
             market |-> m, no |-> None, dated |-> FALSE]
    BY <2>2 DEF NoSession
  <2>4. Start(s, r) BY <2>1, <2>2 DEF StartOn
  <2>5. r \in Records BY <2>3, <2>4, SessionsAssumption DEF Start, Records
  <2>6. op \in DOMAIN Steps /\ op \notin {"addToWhitelist", "removeFromWhitelist"} \cup Scripts
    BY <2>1, Programs DEF Trades, Scripts
  <2> QED BY <2>3, <2>4, <2>5, <2>6, StartKeeps
<1>3. CASE \E op \in {"addToWhitelist", "removeFromWhitelist"} \cup Scripts, q \in People :
             Start(s, [NoSession EXCEPT !.op = op, !.key = q])
  <2>1. PICK op \in {"addToWhitelist", "removeFromWhitelist"} \cup Scripts, q \in People :
          Start(s, [NoSession EXCEPT !.op = op, !.key = q])
    BY <1>3
  <2>2. PICK r : r = [NoSession EXCEPT !.op = op, !.key = q] OBVIOUS
  <2>3. r = [op |-> op, try |-> 0, result |-> "none", key |-> q,
             market |-> None, no |-> None, dated |-> FALSE]
    BY <2>2 DEF NoSession
  <2>4. Start(s, r) BY <2>1, <2>2
  <2>5. r \in Records BY <2>3, <2>4, SessionsAssumption DEF Start, Records
  <2>6. op \in DOMAIN Steps /\ op \notin Trades \cup {"fixMarketMintAuthority"}
    BY <2>1, Programs DEF Trades, Scripts
  <2> QED BY <2>3, <2>4, <2>5, <2>6, StartKeeps
<1>4. StartTrade(s) \/ StartLiquidity(s) \/ StartRepair(s) =>
        \E op \in Trades \cup {"fixMarketMintAuthority"}, m \in Markets : StartOn(s, op, m)
  BY DEF StartTrade, StartLiquidity, StartRepair, Shown, Sets, Trades
<1>5. StartWhitelisting(s) \/ StartScript(s) =>
        \E op \in {"addToWhitelist", "removeFromWhitelist"} \cup Scripts, q \in People :
          Start(s, [NoSession EXCEPT !.op = op, !.key = q])
  BY DEF StartWhitelisting, StartScript
<1> QED BY <1>1, <1>2, <1>3, <1>4, <1>5

\* A session about to take a step.
LEMMA AtAStep ==
  ASSUME SessionsInv, NEW s \in Sessions, NEW step, At(s, step)
  PROVE  LET op == session[s].op  a == Now(s) IN
         /\ Working(s) /\ op \in DOMAIN Steps /\ a \in Attempts /\ Fit(op, a)
         /\ a.tx = "none" /\ Steps[op][a.at] = step
         /\ a.at \in 1 .. Len(Steps[op]) /\ Stands(op, a.at)
<1>1. Working(s) /\ Now(s).tx = "none" /\ Steps[session[s].op][Now(s).at] = step
  BY DEF At, StepOf, Now
<1> QED BY <1>1, AtWork

\* A try one step on.
Onward(a) == [a EXCEPT !.at = @ + 1, !.tx = "none"]

LEMMA OneOn ==
  ASSUME NEW a \in Attempts, a.at < 6
  PROVE  /\ Onward(a) \in Attempts /\ Onward(a).at = a.at + 1 /\ Onward(a).tx = "none"
         /\ Onward(a).no = a.no /\ Onward(a).market = a.market /\ Onward(a).seen = a.seen
<1>1. a.at \in 1 .. 6 /\ a.at < 6 BY DEF Attempts
<1>2. a.at + 1 \in 1 .. 6 BY <1>1
<1> QED BY <1>2 DEF Attempts, Onward, Fates

\* A step that reads is never the last.
LEMMA GoesOn ==
  ASSUME SessionsInv, NEW s \in Sessions, Working(s), NEW a \in Attempts,
         Advance(s, a), UNCHANGED <<chain, wallet, acts>>,
         NEW b \in Attempts, b = Onward(a),
         a.at < Len(Steps[session[s].op]), Fit(session[s].op, b)
  PROVE  SessionsInv'
<1>1. PICK n : n = Len(Steps[session[s].op]) OBVIOUS
<1>2. n \in 1 .. 6 BY <1>1, AtWork, StepsStand
<1>3. a.at \in 1 .. 6 /\ a.at < n BY <1>1 DEF Attempts
<1>4. a.at # n /\ a.at < 6 BY <1>2, <1>3
<1> QED BY <1>1, <1>4, AdvanceKeeps DEF Onward

LEMMA ReadsKeep ==
  ASSUME SessionsInv, NEW s \in Sessions,
         \/ ReadPermission(s) \/ ReadList(s) \/ ReadTeamWallet(s) \/ ReadMarket(s)
         \/ PrepareAccounts(s) \/ Simulate(s) \/ ReadConfig(s)
  PROVE  SessionsInv'
<1> DEFINE op == session[s].op
<1>1. CASE ReadPermission(s)
  <2>1. /\ At(s, "permit") /\ Advance(s, Now(s)) /\ UNCHANGED <<chain, wallet, acts>>
    BY <1>1 DEF ReadPermission
  <2>2. PICK a : a = Now(s) OBVIOUS
  <2>3. /\ Working(s) /\ a \in Attempts /\ op = "createMarket" /\ a.at = 1
    BY <2>1, <2>2, AtAStep DEF Stands
  <2>4. PICK b : b = Onward(a) OBVIOUS
  <2>5. b \in Attempts /\ b.at = 2 /\ b.tx = "none" BY <2>3, <2>4, OneOn
  <2>6. a.at < Len(Steps[op]) /\ Fit(op, b) BY <2>3, <2>5, Programs DEF Fit, Scripts
  <2> QED BY <2>1, <2>2, <2>3, <2>4, <2>5, <2>6, GoesOn
<1>2. CASE ReadList(s)
  <2>1. PICK a : a = [Now(s) EXCEPT !.shown = wallet \in listed, !.no = session[s].no,
                                    !.at = IF session[s].no = None THEN @ ELSE @ + 1]
    OBVIOUS
  <2>2. /\ At(s, "readList") /\ Advance(s, a) /\ UNCHANGED <<chain, wallet, acts>>
    BY <1>2, <2>1 DEF ReadList
  <2>3. /\ Working(s) /\ Now(s) \in Attempts /\ op = "createMarket" /\ Now(s).at = 2
    BY <2>2, AtAStep DEF Stands
  <2>4. session[s].no \in NoTokens \cup {None} BY Invariants DEF Records
  <2>5. /\ a \in Attempts /\ a.no = session[s].no
        /\ a.at = IF session[s].no = None THEN 2 ELSE 3
    <3>1. PICK i : i = IF session[s].no = None THEN 2 ELSE 3 OBVIOUS
    <3>2. i \in 1 .. 6 BY <3>1
    <3>3. PICK shown : shown = (wallet \in listed) OBVIOUS
    <3>5. shown \in BOOLEAN
      <4>1. (wallet \in listed) \in BOOLEAN OBVIOUS
      <4> QED BY <3>3, <4>1
    <3>4. a = [Now(s) EXCEPT !.shown = shown, !.no = session[s].no, !.at = i]
      BY <2>1, <2>3, <3>1, <3>3 DEF Attempts
    <3> QED BY <2>3, <2>4, <3>1, <3>2, <3>4, <3>5 DEF Attempts
  <2>6. PICK b : b = Onward(a) OBVIOUS
  <2>7. /\ b \in Attempts /\ b.no = session[s].no /\ b.tx = "none"
        /\ b.at = IF session[s].no = None THEN 3 ELSE 4
    BY <2>5, <2>6, OneOn
  <2>8. a.at < Len(Steps[op]) /\ Fit(op, b)
    BY <2>3, <2>4, <2>5, <2>7, Programs DEF Fit, Scripts
  <2> QED BY <2>2, <2>3, <2>5, <2>6, <2>7, <2>8, GoesOn
<1>3. CASE ReadTeamWallet(s)
  <2>1. /\ At(s, "readTeam") /\ Advance(s, Now(s)) /\ UNCHANGED <<chain, wallet, acts>>
    BY <1>3 DEF ReadTeamWallet
  <2>2. PICK a : a = Now(s) OBVIOUS
  <2>3. /\ Working(s) /\ a \in Attempts /\ op = "createMarket" /\ a.at = 4 /\ Fit(op, a)
    BY <2>1, <2>2, AtAStep DEF Stands
  <2>4. a.no \in NoTokens BY <2>3 DEF Fit
  <2>5. PICK b : b = Onward(a) OBVIOUS
  <2>6. b \in Attempts /\ b.at = 5 /\ b.tx = "none" /\ b.no = a.no
    BY <2>3, <2>5, OneOn
  <2>7. a.at < Len(Steps[op]) /\ Fit(op, b)
    BY <2>3, <2>4, <2>6, Programs DEF Fit, Scripts
  <2> QED BY <2>1, <2>2, <2>3, <2>5, <2>6, <2>7, GoesOn
<1>4. CASE ReadMarket(s)
  <2> DEFINE m == session[s].market
  <2>1. PICK a : a = [Now(s) EXCEPT !.market = m, !.no = market[m].no, !.owner = wallet]
    OBVIOUS
  <2>2. /\ At(s, "readMarket") /\ market[m] # None
        /\ Advance(s, a) /\ UNCHANGED <<chain, wallet, acts>>
    BY <1>4, <2>1 DEF ReadMarket
  <2>3. /\ Working(s) /\ Now(s) \in Attempts /\ op \in Trades \cup {"fixMarketMintAuthority"}
        /\ Now(s).at = 1 /\ Now(s).at < Len(Steps[op]) /\ op \in DOMAIN Steps
    BY <2>2, AtAStep DEF Stands, Sending
  <2>4. m \in Markets /\ wallet \in People BY <2>3, Invariants DEF Sound, Given
  <2>5. market[m].no \in NoTokens
    BY <2>2, <2>4, Invariants, ChainTypes DEF ChainInv, Accounts
  <2>6. /\ a \in Attempts /\ a.no \in NoTokens /\ a.market \in Markets /\ a.at = 1
        /\ a.market = m /\ a.no = market[m].no
    BY <2>1, <2>3, <2>4, <2>5 DEF Attempts
  <2>7. PICK b : b = Onward(a) OBVIOUS
  <2>8. /\ b \in Attempts /\ b.no \in NoTokens /\ b.market \in Markets /\ b.at = 2
        /\ b.tx = "none" /\ market[b.market] # None /\ market[b.market].no = b.no
    BY <2>2, <2>6, <2>7, OneOn
  <2>9. Len(Steps[op]) \in 1 .. 6 BY <2>3, StepsStand
  <2>10. PICK n : n = Len(Steps[op]) OBVIOUS
  <2>11. n \in 1 .. 6 /\ 1 < n BY <2>3, <2>9, <2>10
  <2>12. 2 <= n BY <2>11
  <2>13. a.at < n /\ b.at <= n BY <2>6, <2>8, <2>11, <2>12
  <2>14. Fit(op, b) BY <2>3, <2>8, <2>10, <2>13 DEF Fit, Trades, Scripts
  <2> QED BY <2>2, <2>3, <2>6, <2>7, <2>8, <2>10, <2>13, <2>14, GoesOn
<1>5. CASE PrepareAccounts(s) \/ Simulate(s)
  <2>1. /\ \E step \in {"accounts", "position", "simulate"} : At(s, step)
        /\ Advance(s, Now(s)) /\ UNCHANGED <<chain, wallet, acts>>
    BY <1>5 DEF PrepareAccounts, Simulate
  <2>2. PICK a : a = Now(s) OBVIOUS
  <2>3. /\ Working(s) /\ a \in Attempts /\ op \in Trades /\ op \in DOMAIN Steps
        /\ a.at < Len(Steps[op])
    BY <2>1, <2>2, AtAStep DEF Stands, Sending
  <2>4. PICK n : n = Len(Steps[op]) OBVIOUS
  <2>5. n \in 1 .. 6 /\ a.at \in 1 .. 6 /\ a.at < n BY <2>3, <2>4, StepsStand DEF Attempts
  <2>6. PICK b : b = Onward(a) OBVIOUS
  <2>7. a.at + 1 \in 1 .. 6 /\ a.at + 1 <= n BY <2>5
  <2>8. b \in Attempts /\ b.at <= n /\ b.tx = "none" BY <2>3, <2>6, <2>7 DEF Attempts,
      Onward, Fates
  <2>9. Fit(op, b) BY <2>3, <2>4, <2>8 DEF Fit, Trades, Scripts
  <2> QED BY <2>1, <2>2, <2>3, <2>6, <2>8, <2>9, GoesOn
<1>6. CASE ReadConfig(s)
  <2>1. PICK a : a = [Now(s) EXCEPT !.seen = config] OBVIOUS
  <2>2. /\ At(s, "readConfig") /\ config.live
        /\ Advance(s, a) /\ UNCHANGED <<chain, wallet, acts>>
    BY <1>6, <2>1 DEF ReadConfig
  <2>3. /\ Working(s) /\ Now(s) \in Attempts /\ op \in Scripts
        /\ Now(s).at = 1 /\ op \in DOMAIN Steps
    BY <2>2, AtAStep DEF Stands
  <2>5. config \in Configs /\ Trusted(config)
    BY <2>2, Invariants DEF ChainInv, ChainOK, Governed
  <2>6. a \in Attempts /\ a.seen = config /\ a.at = 1
    BY <2>1, <2>3, <2>5 DEF Attempts
  <2>7. PICK b : b = Onward(a) OBVIOUS
  <2>8. b \in Attempts /\ b.seen = config /\ b.at = 2 /\ b.tx = "none"
    BY <2>6, <2>7, OneOn
  <2>9. Steps[op] = <<"readConfig", "configure">> BY <2>3, Programs
  <2>10. a.at < Len(Steps[op]) /\ b.at <= Len(Steps[op]) /\ Steps[op][2] = "configure"
    BY <2>6, <2>8, <2>9
  <2>11. Fit(op, b) BY <2>2, <2>3, <2>5, <2>8, <2>10 DEF Fit, Scripts
  <2> QED BY <2>2, <2>3, <2>6, <2>7, <2>8, <2>10, <2>11, GoesOn
<1> QED BY <1>1, <1>2, <1>3, <1>4, <1>5, <1>6

LEMMA SendsKeep ==
  ASSUME SessionsInv, NEW s \in Sessions,
         \/ SendMintNo(s) \/ SendCreate(s) \/ SendByWallet(s) \/ SendConfigure(s)
  PROVE  SessionsInv'
<1> DEFINE op == session[s].op
<1>0. wallet \in People BY Invariants
<1>1. CASE SendMintNo(s)
  <2>1. At(s, "mintNo") BY <1>1 DEF SendMintNo
  <2>2. PICK n \in NoTokens : Send(s, [Now(s) EXCEPT !.no = n, !.signer = wallet])
    BY <1>1 DEF SendMintNo
  <2>3. PICK a : a = [Now(s) EXCEPT !.no = n, !.signer = wallet] OBVIOUS
  <2>4. /\ Working(s) /\ Now(s) \in Attempts /\ op = "createMarket" /\ Now(s).at = 3
    BY <2>1, AtAStep DEF Stands
  <2>5. a \in Attempts /\ a.at = 3 /\ a.no = n /\ a.signer \in People
    BY <1>0, <2>3, <2>4 DEF Attempts
  <2>6. PICK b : b = [a EXCEPT !.tx = "sent"] OBVIOUS
  <2>7. b.at = 3 /\ b.no = n /\ b.signer \in People /\ b.tx = "sent"
    BY <2>5, <2>6 DEF Attempts
  <2>8. Fit(op, b) BY <2>4, <2>7, Programs DEF Fit, Scripts, Sending
  <2> QED BY <2>2, <2>3, <2>4, <2>5, <2>6, <2>8, SendKeeps
<1>2. CASE SendCreate(s)
  <2>1. At(s, "create") BY <1>2 DEF SendCreate
  <2>2. PICK m \in Markets : Send(s, [Now(s) EXCEPT !.market = m, !.signer = wallet])
    BY <1>2 DEF SendCreate
  <2>3. PICK a : a = [Now(s) EXCEPT !.market = m, !.signer = wallet] OBVIOUS
  <2>4. /\ Working(s) /\ Now(s) \in Attempts /\ op = "createMarket" /\ Now(s).at = 5
        /\ Fit(op, Now(s))
    BY <2>1, AtAStep DEF Stands
  <2>5. Now(s).no \in NoTokens BY <2>4 DEF Fit
  <2>6. /\ a \in Attempts /\ a.at = 5 /\ a.market = m /\ a.signer \in People
        /\ a.no \in NoTokens
    BY <1>0, <2>3, <2>4, <2>5 DEF Attempts
  <2>7. PICK b : b = [a EXCEPT !.tx = "sent"] OBVIOUS
  <2>8. /\ b.at = 5 /\ b.market = m /\ b.signer \in People /\ b.tx = "sent"
        /\ b.no \in NoTokens
    BY <2>6, <2>7 DEF Attempts
  <2>9. Fit(op, b) BY <2>4, <2>8, Programs DEF Fit, Scripts, Sending
  <2> QED BY <2>2, <2>3, <2>4, <2>6, <2>7, <2>9, SendKeeps
<1>3. CASE SendByWallet(s) \/ SendConfigure(s)
  <2>1. PICK step \in {"setAuthority", "add", "remove", "trade", "configure"},
             p \in {wallet, session[s].key} :
          /\ At(s, step) /\ Send(s, [Now(s) EXCEPT !.signer = p])
          /\ step # "configure" => p = wallet
    BY <1>3 DEF SendByWallet, SendConfigure
  <2>2. /\ Working(s) /\ Now(s) \in Attempts /\ Fit(op, Now(s)) /\ Now(s).tx = "none"
        /\ op \in DOMAIN Steps /\ Steps[op][Now(s).at] = step /\ Stands(op, Now(s).at)
    BY <2>1, AtAStep
  <2>3. p \in People
    <3>1. CASE step = "configure"
      <4>1. op \in Scripts BY <2>2, <3>1 DEF Stands
      <4>2. session[s].key \in People BY <4>1, Invariants DEF Sound, Given
      <4> QED BY <1>0, <2>1, <4>2
    <3>2. CASE step # "configure" BY <1>0, <2>1, <3>2
    <3> QED BY <3>1, <3>2
  <2>4. PICK a : a = [Now(s) EXCEPT !.signer = p] OBVIOUS
  <2>5. a \in Attempts BY <2>2, <2>3, <2>4 DEF Attempts
  <2>6. PICK b : b = [a EXCEPT !.tx = "sent"] OBVIOUS
  <2>7. /\ b.at = Now(s).at /\ b.signer = p /\ b.tx = "sent" /\ b.no = Now(s).no
        /\ b.market = Now(s).market /\ b.seen = Now(s).seen
    BY <2>2, <2>4, <2>5, <2>6 DEF Attempts
  <2>8. step \in Sending BY DEF Sending
  <2>9. op = "createMarket" => Now(s).at # 3 /\ Now(s).at # 5
    BY <2>1, <2>2, Programs
  <2>10. Fit(op, b) BY <2>2, <2>3, <2>7, <2>8, <2>9 DEF Fit
  <2> QED BY <2>1, <2>2, <2>4, <2>5, <2>6, <2>10, SendKeeps
<1> QED BY <1>1, <1>2, <1>3

LEMMA ConfirmKeeps == ASSUME SessionsInv, NEW s \in Sessions, Confirm(s) PROVE SessionsInv'
<1> DEFINE op == session[s].op
<1>1. /\ Working(s) /\ Confirmed(s) /\ Advance(s, Now(s)) /\ UNCHANGED <<chain, wallet, acts>>
  BY DEF Confirm
<1>2. PICK a : a = Now(s) OBVIOUS
<1>3. /\ op \in DOMAIN Steps /\ a \in Attempts /\ Fit(op, a)
      /\ a.at \in 1 .. Len(Steps[op]) /\ Stands(op, a.at)
      /\ a.tx # "none" /\ Done(op, a)
  BY <1>1, <1>2, AtWork DEF Confirmed, Done
<1>4. CASE a.at = Len(Steps[op]) BY <1>1, <1>2, <1>3, <1>4, AdvanceKeeps
<1>5. CASE a.at # Len(Steps[op])
  <2>1. op = "createMarket" /\ a.at \in {3, 5} BY <1>3, <1>5 DEF Fit, Stands
  <2>2. PICK b : b = Onward(a) OBVIOUS
  <2>3. /\ b \in Attempts /\ b.at = a.at + 1 /\ b.tx = "none" /\ b.no = a.no
        /\ b.market = a.market
    BY <1>3, <2>1, <2>2, OneOn
  <2>4. a.no \in NoTokens /\ (a.at = 5 => a.market \in Markets) BY <1>3, <2>1 DEF Fit
  <2>5. a.at < Len(Steps[op]) /\ Fit(op, b)
    BY <2>1, <2>3, <2>4, Programs DEF Fit, Scripts
  <2> QED BY <1>1, <1>2, <1>3, <2>2, <2>3, <2>5, GoesOn
<1> QED BY <1>4, <1>5

\* The repair's page takes another's transaction for its own.
LEMMA TakeForDoneKeeps ==
  ASSUME SessionsInv, NEW s \in Sessions, TakeForDone(s) PROVE SessionsInv'
<1>1. /\ session \in [Sessions -> Records]
      /\ attempt \in [Sessions -> [0 .. MaxRetries -> Attempts]]
      /\ session[s].try \in 0 .. MaxRetries /\ MaxRetries \in Nat
      /\ wallet' \in People /\ acts' \in 0 .. MaxActs
  BY Invariants DEF TakeForDone, Records
<1>2. /\ Working(s) /\ session[s].op = "fixMarketMintAuthority" /\ Now(s).tx = "moved"
      /\ session' = [session EXCEPT ![s].result = "success"]
      /\ UNCHANGED <<chain, wallet, attempt, acts>>
  BY DEF TakeForDone
<1>3. PICK op, t, a : op = session[s].op /\ t = session[s].try /\ a = Now(s) OBVIOUS
<1>4. op \in DOMAIN Steps /\ op # "none" /\ a \in Attempts /\ Fit(op, a)
      /\ a = attempt[s][t] /\ t \in 0 .. MaxRetries
  BY <1>1, <1>2, <1>3, AtWork DEF Now, Working
<1>5. a.at = Len(Steps[op])
  <2>1. a.at \in 1 .. Len(Steps[op]) /\ Steps[op][a.at] \in Sending
    BY <1>2, <1>3, AtWork DEF Fit
  <2> QED BY <1>2, <1>3, <2>1, Programs DEF Sending
<1>6. PICK r : r = [session[s] EXCEPT !.result = "success"] OBVIOUS
<1>7. /\ r \in Records /\ r.op = op /\ r.key = session[s].key
      /\ r.market = session[s].market /\ r.try = t
  BY <1>1, <1>3, <1>6 DEF Records
<1>8. session' = [session EXCEPT ![s] = r] /\ attempt' = [attempt EXCEPT ![s][t] = a]
  BY <1>1, <1>2, <1>4, <1>6
<1>9. ChainInv' /\ Lasting BY <1>2, ChainRests
<1>10. Fit(op, a)' BY <1>4, <1>9, FitLasts
<1>11. session'[s] = r /\ attempt'[s][t] = a BY <1>1, <1>2, <1>4, <1>8
<1>12. Reported(s)' BY <1>2, <1>3, <1>5, <1>7, <1>11 DEF Reported, Now, Done
<1>13. t >= t /\ t <= t BY <1>1, <1>3
<1> QED BY <1>1, <1>3, <1>4, <1>7, <1>8, <1>9, <1>10, <1>12, <1>13, TryGoesOn

LEMMA ClientKeeps == ASSUME SessionsInv, NEW s \in Sessions, Client(s) PROVE SessionsInv'
<1>1. ReadFails(s) \/ Throw(s) => Working(s) /\ GiveUp(s) /\ UNCHANGED <<chain, wallet, acts>>
  BY DEF ReadFails, Throw, At
<1>2. CASE ReadFails(s) \/ Throw(s) BY <1>1, <1>2, GiveUpKeeps
<1> QED
  BY <1>2, StartsKeep, ReadsKeep, SendsKeep, ConfirmKeeps, TakeForDoneKeeps DEF Client

(***************************************************************************)
(* What the network does with what was sent, and what others do.           *)
(***************************************************************************)

\* A transaction that was sent, from a session begun and a try not to come.
LEMMA OnItsWay ==
  ASSUME SessionsInv, NEW s \in Sessions, NEW k \in 0 .. MaxRetries,
         attempt[s][k].tx = "sent"
  PROVE  LET op == session[s].op  a == attempt[s][k] IN
         /\ op # "none" /\ op \in DOMAIN Steps /\ k <= session[s].try
         /\ a \in Attempts /\ Fit(op, a) /\ a.signer \in People
         /\ Stands(op, a.at) /\ Steps[op][a.at] \in Sending
<1>1. Sound(s) /\ attempt[s][k] \in Attempts /\ session[s].try \in 0 .. MaxRetries
  BY Invariants
<1>2. attempt[s][k] # NoAttempt BY DEF NoAttempt
<1>3. session[s].op # "none" /\ k <= session[s].try
  BY <1>1, <1>2, SessionsAssumption DEF Sound, Unbegun
<1>4. session[s].op \in DOMAIN Steps /\ Fit(session[s].op, attempt[s][k])
  BY <1>1, <1>3 DEF Sound, Given, Prepared
<1>5. attempt[s][k].at \in 1 .. Len(Steps[session[s].op])
  BY <1>1, <1>4, StepsStand DEF Fit, Attempts
<1> QED BY <1>1, <1>3, <1>4, <1>5, StepsStand DEF Fit

\* Its fate, whatever it is.
LEMMA FateKeeps ==
  ASSUME SessionsInv, NEW s \in Sessions, NEW k \in 0 .. MaxRetries,
         attempt[s][k].tx = "sent", NEW fate \in {"landed", "failed", "moved", "expired"},
         attempt' = [attempt EXCEPT ![s][k] = Settled(s, k, fate)],
         UNCHANGED <<wallet, session, acts>>, ChainInv', Lasting,
         NEW m, m = attempt[s][k].market,
         fate = "landed" /\ StepOf(s, k) = "setAuthority" => Usable(m)',
         fate = "moved" /\ session[s].op = "fixMarketMintAuthority" => Usable(m)'
  PROVE  SessionsInv'
<1>1. /\ session \in [Sessions -> Records]
      /\ attempt \in [Sessions -> [0 .. MaxRetries -> Attempts]] /\ Sound(s)
      /\ wallet' \in People /\ acts' \in 0 .. MaxActs
  BY Invariants DEF Records
<1>2. PICK op, a, r : op = session[s].op /\ a = attempt[s][k] /\ r = session[s] OBVIOUS
<1>3. /\ op # "none" /\ op \in DOMAIN Steps /\ k <= r.try /\ a \in Attempts /\ Fit(op, a)
      /\ Steps[op][a.at] \in Sending /\ a.tx = "sent" /\ a.market = m
  BY <1>2, OnItsWay
<1>4. PICK c : c = [a EXCEPT !.tx = fate, !.signer = Nobody, !.seen = None] OBVIOUS
<1>5. /\ c \in Attempts /\ c.at = a.at /\ c.no = a.no /\ c.market = a.market /\ c.tx = fate
  BY <1>3, <1>4 DEF Attempts, Fates
<1>6. PICK b : b = Settled(s, k, fate) OBVIOUS
<1>7. b = IF Over(s, k) THEN Left(c) ELSE c BY <1>2, <1>4, <1>6 DEF Settled
<1>8. attempt' = [attempt EXCEPT ![s][k] = b] /\ session' = [session EXCEPT ![s] = r]
  BY <1>1, <1>2, <1>6
<1>9. Fit(op, a)' BY <1>3, FitLasts
<1>10. Steps[op][c.at] = "setAuthority" /\ c.tx = "landed" => Usable(c.market)'
  BY <1>2, <1>3, <1>5 DEF StepOf
<1>11. op = "fixMarketMintAuthority" /\ c.tx = "moved" => Usable(c.market)'
  BY <1>2, <1>3, <1>5
<1>12. Fit(op, c)' BY <1>3, <1>5, <1>9, <1>10, <1>11 DEF Fit
<1>13. b \in Attempts /\ Fit(op, b)'
  <2>1. CASE Over(s, k)
    <3>1. b = [at |-> 1, tx |-> "none", owner |-> Nobody, signer |-> Nobody,
               shown |-> FALSE, no |-> c.no, market |-> c.market, seen |-> None]
      BY <1>5, <1>7, <2>1 DEF Left, NoAttempt
    <3>2. b \in Attempts BY <1>5, <3>1 DEF Attempts, Fates
    <3>3. PICK n : n = Len(Steps[op]) OBVIOUS
    <3>4. n \in 1 .. 6 BY <1>3, <3>3, StepsStand
    <3>5. 1 <= n BY <3>4
    <3>6. 1 <= Len(Steps[op]) BY <3>3, <3>5, Zenon
    <3> QED BY <3>1, <3>2, <3>6 DEF Fit, Scripts
  <2>2. CASE ~Over(s, k)
    <3>1. b = c BY <1>7, <2>2
    <3> QED BY <1>5, <1>12, <3>1
  <2> QED BY <2>1, <2>2
<1>14. Reported(s)'
  <2>1. CASE session[s].try = k
    <3>1. Now(s) = a BY <1>2, <2>1 DEF Now
    <3>2. session[s].result # "success"
      BY <1>1, <1>3, <3>1 DEF Sound, Reported, Done
    <3> QED BY <1>1, <3>2 DEF Reported
  <2>2. CASE session[s].try # k
    <3>1. Now(s)' = Now(s) BY <1>1, <1>8, <2>2 DEF Now, Records
    <3> QED BY <1>1, <3>1 DEF Sound, Reported
  <2> QED BY <2>1, <2>2
<1>15. r \in Records /\ r.try >= r.try BY <1>1, <1>2, SessionsAssumption DEF Records
<1> QED BY <1>1, <1>2, <1>3, <1>8, <1>13, <1>14, <1>15, TryGoesOn

\* What a session sends is an instruction of the program.
LEMMA SentIsInstruction ==
  ASSUME SessionsInv, NEW s \in Sessions, NEW k \in 0 .. MaxRetries,
         attempt[s][k].tx = "sent", Execute(s, k)
  PROVE  /\ Instruction
         /\ StepOf(s, k) = "setAuthority" =>
              LET a == attempt[s][k] IN
              /\ a.signer \in People /\ a.no \in NoTokens /\ a.market \in Markets
              /\ SetMintAuthority(a.signer, a.no, a.market)
<1> DEFINE op == session[s].op
           a == attempt[s][k]
           step == StepOf(s, k)
<1>1. /\ op \in DOMAIN Steps /\ a \in Attempts /\ Fit(op, a) /\ a.signer \in People
      /\ Stands(op, a.at) /\ Steps[op][a.at] \in Sending /\ a.tx = "sent"
  BY OnItsWay
<1>2. step = Steps[op][a.at] BY DEF StepOf
<1>3. Sound(s) /\ session[s].dated \in BOOLEAN BY Invariants DEF Records
<1> HIDE DEF op, a, step
<1>4. CASE step = "mintNo"
  <2>1. a.no \in NoTokens BY <1>1, <1>2, <1>4 DEF Stands, Fit
  <2>2. MintNoToken(a.no) BY <1>4 DEF Execute, step, a
  <2> QED BY <1>4, <2>1, <2>2 DEF Instruction, step
<1>5. CASE step = "create"
  <2>1. a.no \in NoTokens /\ a.market \in Markets /\ a.shown \in BOOLEAN
    BY <1>1, <1>2, <1>5 DEF Stands, Fit, Attempts
  <2>2. CreateMarket(a.signer, a.shown, ~session[s].dated, a.no, a.market)
    BY <1>5 DEF Execute, step, a
  <2>3. PICK b \in BOOLEAN : b = ~session[s].dated BY <1>3
  <2> QED BY <1>1, <1>5, <2>1, <2>2, <2>3 DEF Instruction, step
<1>6. CASE step = "setAuthority"
  <2>1. a.no \in NoTokens /\ a.market \in Markets
    BY <1>1, <1>2, <1>6 DEF Stands, Fit
  <2>2. SetMintAuthority(a.signer, a.no, a.market) BY <1>6 DEF Execute, step, a
  <2> QED BY <1>1, <2>1, <2>2 DEF Instruction, a
<1>7. CASE step = "add" \/ step = "remove"
  <2>1. op \in {"addToWhitelist", "removeFromWhitelist"} BY <1>1, <1>2, <1>7 DEF Stands
  <2>2. session[s].key \in People BY <1>3, <2>1 DEF Sound, Given, op
  <2>3. \/ AddToWhitelist(a.signer, session[s].key)
        \/ RemoveFromWhitelist(a.signer, session[s].key)
    BY <1>7 DEF Execute, step, a
  <2> QED BY <1>1, <1>7, <2>2, <2>3 DEF Instruction, step
<1>8. CASE step = "configure"
  <2>1. op \in Scripts /\ a.at = 2 BY <1>1, <1>2, <1>8 DEF Stands
  <2>2. a.seen \in Configs /\ config.live /\ Trusted(a.seen) BY <1>1, <2>1 DEF Fit
  <2>3. PICK new : new = Edited(a.seen, op) OBVIOUS
  <2>4. new \in Configs /\ Trusted(new)
    BY <2>2, <2>3 DEF Edited, Configs, Settings, Trusted
  <2>5. Configure(a.signer, new) BY <1>8, <2>3 DEF Execute, step, a, op
  <2> QED BY <1>1, <1>8, <2>2, <2>4, <2>5 DEF Instruction, step
<1>9. CASE step = "trade" BY <1>9 DEF Execute, Instruction, step
<1> QED BY <1>1, <1>2, <1>4, <1>5, <1>6, <1>7, <1>8, <1>9 DEF Sending

LEMMA NetworkKeeps == ASSUME SessionsInv, NEW s \in Sessions, Network(s) PROVE SessionsInv'
<1>1. PICK k \in 0 .. MaxRetries : Land(s, k) \/ Refuse(s, k) \/ Expire(s,
    k) BY DEF Network
<1>2. PICK m : m = attempt[s][k].market OBVIOUS
<1>3. CASE Land(s, k)
  <2>1. /\ attempt[s][k].tx = "sent" /\ Execute(s, k) /\ UNCHANGED <<wallet, session, acts>>
        /\ attempt' = [attempt EXCEPT ![s][k] = Settled(s, k, "landed")]
    BY <1>3 DEF Land
  <2>2. Instruction BY <2>1, SentIsInstruction
  <2>3. ChainInv BY Invariants
  <2>4. ChainInv' /\ Lasting BY <2>2, <2>3, InstructionKeeps
  <2>5. StepOf(s, k) = "setAuthority" => Usable(m)'
    <3>1. SUFFICES ASSUME StepOf(s, k) = "setAuthority" PROVE Usable(m)'
      OBVIOUS
    <3>2. PICK p \in People, n \in NoTokens : m \in Markets /\ SetMintAuthority(p, n, m)
      BY <1>2, <2>1, <3>1, SentIsInstruction
    <3>3. /\ market[m] # None /\ market[m].no = n
          /\ mint' = [mint EXCEPT ![n].at = m]
          /\ market' = [market EXCEPT ![m].yesAt = "market"]
      BY <3>2 DEF SetMintAuthority, CanSetMintAuthority
    <3>4. market[m] \in Accounts BY <2>3, <3>2, <3>3, ChainTypes DEF ChainInv
    <3>5. market'[m] \in Accounts /\ market'[m].no = n /\ market'[m].yesAt = "market"
      BY <2>3, <3>2, <3>3, <3>4 DEF ChainInv, ChainOK, Accounts
    <3>6. mint'[n].at = m BY <2>3, <3>2, <3>3 DEF ChainInv, ChainOK
    <3> QED BY <3>5, <3>6, NoneIsNoAccount DEF Usable
  <2> QED BY <1>2, <2>1, <2>4, <2>5, FateKeeps
<1>4. CASE Refuse(s, k) \/ Expire(s, k)
  <2>1. PICK fate \in {"failed", "moved", "expired"} :
          /\ attempt[s][k].tx = "sent" /\ UNCHANGED <<chain, wallet, session, acts>>
          /\ attempt' = [attempt EXCEPT ![s][k] = Settled(s, k, fate)]
          /\ fate = "moved" => /\ StepOf(s, k) = "setAuthority"
                               /\ MintsMoved(attempt[s][k].no, attempt[s][k].market)
    <3>1. CASE Refuse(s, k)
      <4>1. /\ attempt[s][k].tx = "sent" /\ UNCHANGED <<chain, wallet, session, acts>>
            /\ attempt' = [attempt EXCEPT ![s][k] = Settled(s, k, Answer(s, k))]
        BY <3>1 DEF Refuse
      <4>2. /\ Answer(s, k) \in {"failed", "moved"}
            /\ Answer(s, k) = "moved" =>
                 /\ StepOf(s, k) = "setAuthority"
                 /\ MintsMoved(attempt[s][k].no, attempt[s][k].market)
        BY DEF Answer
      <4> QED BY <4>1, <4>2
    <3>2. CASE Expire(s, k) BY <3>2 DEF Expire
    <3> QED BY <1>4, <3>1, <3>2
  <2>2. ChainInv' /\ Lasting BY <2>1, ChainRests
  <2>3. fate = "moved" /\ session[s].op = "fixMarketMintAuthority" => Usable(m)'
    <3>1. SUFFICES ASSUME fate = "moved", session[s].op = "fixMarketMintAuthority"
                   PROVE  Usable(m)'
      OBVIOUS
    <3>2. PICK a : a = attempt[s][k] OBVIOUS
    <3>3. a.at = 2
      <4>1. StepOf(s, k) = Steps["fixMarketMintAuthority"][a.at] BY <3>1, <3>2 DEF StepOf
      <4>2. Stands("fixMarketMintAuthority", a.at) BY <2>1, <3>1, <3>2, OnItsWay
      <4> QED BY <2>1, <3>1, <4>1, <4>2 DEF Stands
    <3>4. /\ m \in Markets /\ market[m] # None /\ market[m].no = a.no
      BY <1>2, <2>1, <3>1, <3>2, <3>3, OnItsWay DEF Fit
    <3>5. Together(m) /\ MintsMoved(market[m].no, m)
      BY <1>2, <2>1, <3>1, <3>2, <3>4, Invariants DEF ChainInv, Paired
    <3>6. Usable(m) BY <3>4, <3>5 DEF Together, MintsMoved, Usable
    <3> QED BY <2>2, <3>4, <3>6 DEF Lasting
  <2> QED BY <1>2, <2>1, <2>2, <2>3, FateKeeps
<1> QED BY <1>1, <1>3, <1>4

\* The sessions rest while others act.
LEMMA OthersKeep == ASSUME SessionsInv, SwitchWallet \/ Begin \/ Act PROVE SessionsInv'
<1>1. /\ session \in [Sessions -> Records] /\ ChainInv
      /\ attempt \in [Sessions -> [0 .. MaxRetries -> Attempts]]
      /\ wallet \in People /\ acts \in 0 .. MaxActs
  BY DEF SessionsInv, Typed, TypeOK, Records, ChainInv
<1>2. UNCHANGED <<session, attempt>> /\ wallet' \in People BY <1>1 DEF SwitchWallet,
    Begin, Act
<1>3. acts' \in 0 .. MaxActs BY <1>1, SessionsAssumption DEF SwitchWallet, Begin, Act
<1>4. Instruction
  <2>1. CASE SwitchWallet BY <2>1 DEF SwitchWallet, Instruction
  <2>2. CASE Begin
    <3>1. PICK p \in People : Initialize(p) BY <2>2 DEF Begin
    <3>2. PICK w \in BOOLEAN : Configure(p, [config EXCEPT !.authority = p, !.whitelist = w])
      BY <3>1 DEF Initialize
    <3>3. PICK new : new = [config EXCEPT !.authority = p, !.whitelist = w] OBVIOUS
    <3>4. ~config.live /\ config \in Configs /\ config.pending = Nobody
      BY <1>1, <3>1 DEF Initialize, ChainInv, ChainOK, Governed
    <3>5. new \in Configs /\ new.pending = Nobody BY <3>3, <3>4 DEF Configs
    <3> QED BY <3>2, <3>3, <3>4, <3>5 DEF Instruction
  <2>3. CASE Act
    <3>1. PICK p \in People :
            \/ \E q \in People : NominateAuthority(p, q)
            \/ AcceptAuthority(p)
            \/ EmergencyPause(p) \/ EmergencyUnpause(p)
            \/ \E m \in Markets : PauseMarket(p, m)
            \/ \E m \in Markets, x, y \in 0 .. BPS + 1 : ConfigureMarketFees(p, m, x, y)
      BY <2>3 DEF Act
    <3> QED BY <3>1 DEF Instruction
  <2> QED BY <2>1, <2>2, <2>3
<1>5. ChainInv' /\ Lasting BY <1>1, <1>4, InstructionKeeps
<1>6. \A q \in Sessions : Sound(q)' BY <1>2, <1>5, SoundStays
<1> QED BY <1>1, <1>2, <1>3, <1>5, <1>6, AllGoOn

(***************************************************************************)
(* Every run.                                                              *)
(***************************************************************************)

LEMMA SessionsInvHolds == Spec => []SessionsInv
<1>1. Init => SessionsInv
  <2> SUFFICES ASSUME Init PROVE SessionsInv OBVIOUS
  <2>1. NoAttempt \in Attempts BY DEF NoAttempt, Attempts, Fates
  <2>2. /\ session = [s \in Sessions |-> NoSession] /\ wallet \in People /\ acts = 0
        /\ attempt = [s \in Sessions |-> [k \in 0 .. MaxRetries |-> NoAttempt]] /\ ChainInit
    BY DEF Init
  <2>3. ChainOK /\ Issued /\ SoleNoToken /\ Paired /\ Governed
    BY <2>2, KeysDiffer
    DEF ChainInit, ChainOK, Configs, Settings, Issued, SoleNoToken, Paired, Together,
        Governed
  <2>4. session \in [Sessions -> Records] /\ \A s \in Sessions : session[s] = NoSession
    BY <2>2, SessionsAssumption DEF NoSession, Records
  <2>5. \A s \in Sessions, k \in 0 .. MaxRetries : attempt[s][k] = NoAttempt BY <2>2
  <2>6. attempt \in [Sessions -> [0 .. MaxRetries -> Attempts]] BY <2>1, <2>2
  <2>7. acts \in 0 .. MaxActs BY <2>2, SessionsAssumption
  <2>8. Typed
    <3>1. \A s \in Sessions, k \in 0 .. MaxRetries : LET a == attempt[s][k] IN
            /\ a.at \in 1 .. 6 /\ a.tx \in Fates
            /\ a.seen \in Configs \cup {None}
      BY <2>1, <2>5 DEF Attempts
    <3> QED BY <2>2, <2>3, <2>4, <2>6, <2>7, <3>1 DEF Typed, TypeOK, Records, Fates
  <2>9. \A s \in Sessions : Sound(s)
    BY <2>4, <2>5 DEF Sound, Given, Unbegun, Prepared, Reported, NoSession, Trades,
         Scripts
  <2> QED BY <2>3, <2>8, <2>9 DEF SessionsInv
<1>2. SessionsInv /\ [Next]_vars => SessionsInv'
  <2> SUFFICES ASSUME SessionsInv, [Next]_vars PROVE SessionsInv' OBVIOUS
  <2>1. CASE Next BY <2>1, ClientKeeps, NetworkKeeps, OthersKeep DEF Next
  <2>2. CASE UNCHANGED vars
    <3>1. UNCHANGED <<chain, wallet, session, attempt, acts>> BY <2>2 DEF vars
    <3>2. ChainInv' /\ Lasting BY <3>1, ChainRests
    <3>3. \A q \in Sessions : Sound(q)' BY <3>1, <3>2, SoundStays
    <3>4. /\ session \in [Sessions -> Records]
          /\ attempt \in [Sessions -> [0 .. MaxRetries -> Attempts]]
          /\ wallet \in People /\ acts \in 0 .. MaxActs
      BY DEF SessionsInv, Typed, TypeOK, Records
    <3> QED BY <3>1, <3>2, <3>3, <3>4, AllGoOn
  <2> QED BY <2>1, <2>2
<1> QED BY <1>1, <1>2, PTL DEF Spec

\* Every session, try and account keeps its type, whatever is read, sent or lost.
THEOREM SessionsTyped == Spec => []TypeOK
<1>1. SessionsInv => TypeOK BY DEF SessionsInv, Typed
<1> QED BY <1>1, SessionsInvHolds, PTL

\* No two markets share a NO token, however many creations run at once and
\* whichever of their transactions land late.
THEOREM NoTokensAreSole == Spec => []SoleNoToken
<1>1. SessionsInv => SoleNoToken BY DEF SessionsInv
<1> QED BY <1>1, SessionsInvHolds, PTL

\* The program stays in the hands of somebody who initialised it or was
\* nominated, whatever a script has read before it writes.
THEOREM AuthorityKept == Spec => []AuthorityTraceable
<1>1. SessionsInv => AuthorityTraceable
  BY DEF SessionsInv, Governed, Trusted, AuthorityTraceable
<1> QED BY <1>1, SessionsInvHolds, PTL

\* A creation or a repair reported as successful has left a market whose two
\* mints are its own, also when the repair was refused because another had moved
\* them; every other operation sent through rpc() has landed, for any number of
\* sessions, tries and markets.
THEOREM SuccessMeansDone == Spec => []SuccessIsReal
<1>1. SessionsInv => SuccessIsReal
  <2> SUFFICES ASSUME SessionsInv, NEW s \in Sessions, session[s].result = "success"
               PROVE  /\ session[s].op \in {"createMarket", "fixMarketMintAuthority"} =>
                           Usable(Now(s).market)
                      /\ \/ session[s].op \in Unchecked \/ Now(s).tx = "landed"
                         \/ session[s].op = "fixMarketMintAuthority" /\ Now(s).tx = "moved"
    BY DEF SuccessIsReal
  <2>1. Sound(s) /\ session[s].try \in 0 .. MaxRetries BY Invariants
  <2>2. session[s].op \in DOMAIN Steps /\ Fit(session[s].op, Now(s))
    BY <2>1 DEF Sound, Given, Prepared, Now
  <2>3. Now(s).at = Len(Steps[session[s].op]) /\ Done(session[s].op, Now(s))
    BY <2>1 DEF Sound, Reported
  <2>4. ASSUME session[s].op \in {"createMarket", "fixMarketMintAuthority"}
        PROVE  Usable(Now(s).market)
    <3>1. Steps[session[s].op][Now(s).at] = "setAuthority"
      <4>1. CASE session[s].op = "createMarket" BY <2>3, <4>1, Programs
      <4>2. CASE session[s].op = "fixMarketMintAuthority" BY <2>3, <4>2, Programs
      <4> QED BY <2>4, <4>1, <4>2
    <3> QED BY <2>2, <2>3, <2>4, <3>1 DEF Fit, Done, Unchecked
  <2> QED BY <2>3, <2>4 DEF Done
<1> QED BY <1>1, SessionsInvHolds, PTL
=============================================================================
