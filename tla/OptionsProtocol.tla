-------------------------- MODULE OptionsProtocol ---------------------------
(***************************************************************************)
(* The options protocol: options between a writer and a holder that only   *)
(* record their terms, and collateralised European ones whose writer locks *)
(* margin in a shared account, is margin-called by the oracle price and    *)
(* pays the holder at expiry.  Premiums go from holder to writer and are   *)
(* left out.  Beside it the options contract, whose options are covered by *)
(* all of the writer's margin and are exercised for cash.  An action is a  *)
(* call that succeeds.                                                     *)
(***************************************************************************)
EXTENDS Integers, Sequences, FiniteSetsExt

CONSTANTS Contract,       \* "options-protocol" or "options"
          Writer,
          Scale,          \* SCALE of fixed point numbers
          Bps,            \* 10_000
          Margin,         \* maintenance margins, at most Bps
          MinMargin,      \* MIN_MARGIN_BPS, of the options contract
          MaxAge,         \* max_price_age of the configuration
          Price, Amount, Payout, Deposit, Premium,  \* arguments of the calls
          MaxOptions, MaxBalance, MaxTime  \* bounds

VARIABLES initialized, paused,
          config,     \* maintenance margin, or None
          price,      \* price and time, or None
          options,    \* id -> option, with its margin position or None
          accounts,   \* writer -> balance and locked part
          held,       \* settlement tokens held by the contract, its total margin
          now

vars == <<initialized, paused, config, price, options, accounts, held, now>>

None == [none |-> TRUE]
OptionKind == {"Call", "Put"}
OptionStatus == {"Active", "MarginCalled", "Exercised", "Expired", "Cancelled"}

Init ==
  /\ initialized = FALSE /\ paused = FALSE
  /\ config = None /\ price = None
  /\ options = <<>>
  /\ accounts = [w \in Writer |-> [balance |-> 0, locked |-> 0]]
  /\ held = 0 /\ now = 0

Initialize ==
  /\ ~initialized /\ initialized' = TRUE
  /\ UNCHANGED <<paused, config, price, options, accounts, held, now>>

SetPaused(p) ==
  /\ initialized /\ paused' = p
  /\ UNCHANGED <<initialized, config, price, options, accounts, held, now>>

Tick ==
  /\ now < MaxTime /\ now' = now + 1
  /\ UNCHANGED <<initialized, paused, config, price, options, accounts, held>>

ConfigureMarginPool(m) ==
  /\ initialized /\ config = None
  /\ config' = [margin |-> m]
  /\ UNCHANGED <<initialized, paused, price, options, accounts, held, now>>

UpdatePrice(p) ==
  /\ ~paused /\ config # None
  /\ price' = [value |-> p, at |-> now]
  /\ UNCHANGED <<initialized, paused, config, options, accounts, held, now>>

DepositMargin(w, n) ==
  /\ ~paused /\ config # None /\ accounts[w].balance + n <= MaxBalance
  /\ accounts' = [accounts EXCEPT ![w].balance = @ + n]
  /\ held' = held + n
  /\ UNCHANGED <<initialized, paused, config, price, options, now>>

Unlocked(w) == accounts[w].balance - accounts[w].locked

WithdrawMargin(w, n) ==
  /\ ~paused /\ config # None /\ n <= Unlocked(w)
  /\ accounts' = [accounts EXCEPT ![w].balance = @ - n]
  /\ held' = held - n
  /\ UNCHANGED <<initialized, paused, config, price, options, now>>

-----------------------------------------------------------------------------
(* Options *)

FreshPrice == config # None /\ price # None /\ now - price.at <= MaxAge

Intrinsic(o) ==
  (Max({0, IF o.kind = "Call" THEN price.value - o.strike ELSE o.strike - price.value})
     * o.amount) \div Scale

RequiredMargin(o, payout) ==
  Min({Intrinsic(o) + (((price.value * o.amount) \div Scale) * config.margin) \div Bps, payout})

Written(w, kind, strike, amount, expiry, margin) ==
  [writer |-> w, kind |-> kind, strike |-> strike, amount |-> amount, expiry |-> expiry,
   status |-> "Active", margin |-> margin]

WriteOption(w, kind, strike, amount, expiry) ==
  /\ initialized /\ ~paused /\ Len(options) < MaxOptions /\ expiry > now
  /\ options' = Append(options, Written(w, kind, strike, amount, expiry, None))
  /\ UNCHANGED <<initialized, paused, config, price, accounts, held, now>>

WriteCollateralizedOption(w, kind, strike, amount, expiry, payout) ==
  LET o == Written(w, kind, strike, amount, expiry, None)
      required == RequiredMargin(o, payout)
  IN /\ initialized /\ ~paused /\ Len(options) < MaxOptions /\ expiry > now
     /\ FreshPrice /\ Unlocked(w) >= required
     /\ options' = Append(options, [o EXCEPT !.margin = [locked |-> required, max |-> payout]])
     /\ accounts' = [accounts EXCEPT ![w].locked = @ + required]
     /\ UNCHANGED <<initialized, paused, config, price, held, now>>

\* The end of an option without margin: cancel_option(), exercise(), expire_option().
Ended(id, status) ==
  /\ options[id].status = "Active" /\ options[id].margin = None
  /\ options' = [options EXCEPT ![id].status = status]
  /\ UNCHANGED <<initialized, paused, config, price, accounts, held, now>>

CancelOption(id) == Ended(id, "Cancelled")
Exercise(id) == ~paused /\ now <= options[id].expiry /\ Ended(id, "Exercised")
ExpireOption(id) == now > options[id].expiry /\ Ended(id, "Expired")

\* Only an active option, not a margin-called one, and with both signatures.
CancelCollateralizedOption(id) ==
  LET o == options[id]
  IN /\ ~paused /\ o.status = "Active" /\ now < o.expiry /\ o.margin # None
     /\ accounts' = [accounts EXCEPT ![o.writer].locked = @ - o.margin.locked]
     /\ options' = [options EXCEPT ![id].status = "Cancelled", ![id].margin = None]
     /\ UNCHANGED <<initialized, paused, config, price, held, now>>

\* The margin follows the price both ways; cure_margin_call() is the same call
\* for an option already called, and fails where this one calls the margin.
CheckMargin(id) ==
  LET o == options[id]
      required == RequiredMargin(o, o.margin.max)
      additional == required - o.margin.locked
  IN /\ ~paused /\ o.status \in {"Active", "MarginCalled"} /\ FreshPrice /\ o.margin # None
     /\ IF additional > Unlocked(o.writer)
        THEN /\ options' = [options EXCEPT ![id].status = "MarginCalled"]
             /\ UNCHANGED accounts
        ELSE /\ options' = [options EXCEPT ![id].status = "Active",
                                           ![id].margin.locked = required]
             /\ accounts' = [accounts EXCEPT ![o.writer].locked = @ + additional]
     /\ UNCHANGED <<initialized, paused, config, price, held, now>>

\* An option whose margin does not cover the payout cannot be settled at all.
SettleOption(id) ==
  LET o == options[id]
      payout == Min({Intrinsic(o), o.margin.max})
  IN /\ ~paused /\ o.status \in {"Active", "MarginCalled"}
     /\ now >= o.expiry /\ FreshPrice /\ o.margin # None /\ payout <= o.margin.locked
     /\ accounts' = [accounts EXCEPT ![o.writer].locked = @ - o.margin.locked,
                                     ![o.writer].balance = @ - payout]
     /\ options' = [options EXCEPT ![id].margin = None,
                                   ![id].status = IF payout > 0 THEN "Exercised" ELSE "Expired"]
     /\ held' = held - payout
     /\ UNCHANGED <<initialized, paused, config, price, now>>

-----------------------------------------------------------------------------
(* The options contract *)

CreateOption(w, kind, strike, size, premium, expiry, margin) ==
  /\ initialized /\ ~paused /\ Len(options) < MaxOptions /\ expiry > now
  /\ margin >= (((strike * size) \div Scale) * MinMargin) \div Bps
  /\ accounts[w].balance + margin <= MaxBalance
  /\ options' = Append(options, [writer |-> w, kind |-> kind, strike |-> strike,
                                 amount |-> size, expiry |-> expiry, status |-> "Active",
                                 margin |-> None, premium |-> premium, holder |-> None])
  /\ accounts' = [accounts EXCEPT ![w].balance = @ + margin]
  /\ held' = held + margin
  /\ UNCHANGED <<initialized, paused, config, price, now>>

\* The premium is credited to the writer, but not to the total margin.
BuyOption(h, id) ==
  LET o == options[id]
  IN /\ ~paused /\ o.status = "Active" /\ now < o.expiry /\ o.holder = None
     /\ options' = [options EXCEPT ![id].holder = h]
     /\ accounts' = [accounts EXCEPT ![o.writer].balance = @ + o.premium]
     /\ UNCHANGED <<initialized, paused, config, price, held, now>>

\* The holder names the price; the writer pays as far as the margin goes.
ExerciseForCash(id, settlement) ==
  LET o == options[id]
      intrinsic == Max({0, IF o.kind = "Call" THEN settlement - o.strike
                           ELSE o.strike - settlement})
      payout == Min({(intrinsic * o.amount) \div Scale, accounts[o.writer].balance})
  IN /\ ~paused /\ o.status = "Active" /\ now >= o.expiry /\ o.holder # None
     /\ accounts' = [accounts EXCEPT ![o.writer].balance = @ - payout]
     /\ held' = Max({0, held - payout})
     /\ options' = [options EXCEPT ![id].status = "Exercised"]
     /\ UNCHANGED <<initialized, paused, config, price, now>>

\* By the writer, bought or not; no margin is tied to the option.
LetExpire(id) ==
  /\ ~paused /\ options[id].status = "Active" /\ now >= options[id].expiry
  /\ options' = [options EXCEPT ![id].status = "Expired"]
  /\ UNCHANGED <<initialized, paused, config, price, accounts, held, now>>

AddMargin(w, n) ==
  /\ initialized /\ ~paused /\ accounts[w].balance + n <= MaxBalance
  /\ accounts' = [accounts EXCEPT ![w].balance = @ + n]
  /\ held' = held + n
  /\ UNCHANGED <<initialized, paused, config, price, options, now>>

\* Whatever options the margin should cover.
TakeMargin(w, n) ==
  /\ initialized /\ ~paused /\ n <= accounts[w].balance
  /\ accounts' = [accounts EXCEPT ![w].balance = @ - n]
  /\ held' = Max({0, held - n})
  /\ UNCHANGED <<initialized, paused, config, price, options, now>>

ProtocolNext ==
  \/ \E m \in Margin : ConfigureMarginPool(m)
  \/ \E p \in Price : UpdatePrice(p)
  \/ \E w \in Writer :
       \/ \E n \in Deposit : DepositMargin(w, n) \/ WithdrawMargin(w, n)
       \/ \E kind \in OptionKind, strike \in Price, n \in Amount, e \in 1..MaxTime :
            \/ WriteOption(w, kind, strike, n, e)
            \/ \E max \in Payout : WriteCollateralizedOption(w, kind, strike, n, e, max)
  \/ \E id \in DOMAIN options :
       \/ CancelOption(id) \/ Exercise(id) \/ ExpireOption(id)
       \/ CancelCollateralizedOption(id) \/ CheckMargin(id) \/ SettleOption(id)

OptionsNext ==
  \/ \E w \in Writer, n \in Deposit :
       \/ AddMargin(w, n) \/ TakeMargin(w, n)
       \/ \E kind \in OptionKind, strike \in Price, size \in Amount, premium \in Premium,
             e \in 1..MaxTime : CreateOption(w, kind, strike, size, premium, e, n)
  \/ \E id \in DOMAIN options :
       \/ LetExpire(id)
       \/ \E h \in Writer : BuyOption(h, id)
       \/ \E p \in Price : ExerciseForCash(id, p)

Next ==
  \/ Initialize \/ Tick
  \/ \E p \in BOOLEAN : SetPaused(p)
  \/ Contract = "options-protocol" /\ ProtocolNext
  \/ Contract = "options" /\ OptionsNext

Spec == Init /\ [][Next]_vars

-----------------------------------------------------------------------------
(* Properties *)

Total(f, S) == MapThenSumSet(LAMBDA x : f[x], S)

Balances == Total([w \in Writer |-> accounts[w].balance], Writer)

\* The options that lock margin of writer w, and those that are sold.
Open(w) == {id \in DOMAIN options : options[id].writer = w /\ options[id].margin # None}
Sold == {id \in DOMAIN options : options[id].holder # None}

\* The locked part of an account is exactly the margin of its writer's options,
\* never more than the balance, and the contract holds all the balances: one
\* writer's options never draw on another writer's margin.  In the options
\* contract nobody is paid beyond the margin of the writer, and the total margin
\* is short of the balances by no more than the premiums it leaves out.
MarginBacked ==
  /\ \A w \in Writer :
       /\ accounts[w].locked = Total([id \in Open(w) |-> options[id].margin.locked], Open(w))
       /\ accounts[w].locked >= 0 /\ accounts[w].locked <= accounts[w].balance
  /\ Contract = "options-protocol" => held = Balances
  /\ Contract = "options" =>
       Balances - held \in 0..Total([id \in Sold |-> options[id].premium], Sold)

\* An option that ended stays as it ended, holds no margin, and the margin of an
\* option never exceeds the largest payout agreed.
EndsOnce ==
  \A id \in DOMAIN options :
    /\ options[id].status \in {"Exercised", "Expired", "Cancelled"} =>
         options'[id] = options[id] /\ options[id].margin = None
    /\ options'[id].margin # None => options'[id].margin.locked <= options[id].margin.max
=============================================================================
