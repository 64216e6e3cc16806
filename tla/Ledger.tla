-------------------------------- MODULE Ledger --------------------------------
(***************************************************************************)
(* The double-entry ledger (pkg/ledger, cmd/ledger) in PostgreSQL: the     *)
(* balances and reserves of the ledger accounts, the postings and the      *)
(* holds. A ledger account is a trading account and an asset.              *)
(*                                                                         *)
(* A database transaction is one step where the locks it takes make it one *)
(* for everybody else: SettleTrade, SettleFaucet and ReserveIfAvailable.   *)
(* ReleaseReserveByOrder reads the holds without locking them and updates  *)
(* them later, so it is two steps. A transaction that fails is rolled back *)
(* and leaves nothing, which is no step at all; trades and credits are     *)
(* delivered at least once, so the same one may be settled again.          *)
(*                                                                         *)
(* Operators named Wrong... are seeded faults, used only to test that the  *)
(* properties notice them.                                                 *)
(***************************************************************************)
EXTENDS Money, FiniteSets, Functions

CONSTANTS
  TradingAccounts,  \* of the users
  Sink,             \* trading account 0, the counter-account of emissions
  Opening,          \* the seeded balances
  Trades,           \* [id, buyer, seller, price, qty]: trade.executed
  Credits,          \* [id, account, asset, amount]: faucet.credit
  Reservations,     \* [order, account, asset, amount]: orders asking for a hold
  Callers,          \* who releases holds at the same time
  NoRelease         \* a caller that is not releasing any

Assets == {"base", "quote"}
LedgerAccounts == (TradingAccounts \cup {Sink}) \X Assets

ASSUME SinkAssumption == Sink \notin TradingAccounts
ASSUME OpeningAssumption == Opening \in [LedgerAccounts -> Int]
\* The engine never lets an account trade with itself.
ASSUME TradesAssumption ==
  \A t \in Trades :
    /\ {t.buyer, t.seller} \subseteq TradingAccounts /\ t.buyer # t.seller
    /\ t.price \in Nat /\ t.qty \in Nat
ASSUME CreditsAssumption ==
  \A c \in Credits : c.account \in TradingAccounts /\ c.asset \in Assets /\ c.amount \in Int
\* Trade ids and envelope ids are unique.
ASSUME IdsAssumption ==
  /\ \A t, u \in Trades : t.id = u.id => t = u
  /\ \A c, d \in Credits : c.id = d.id => c = d
  /\ \A t \in Trades, c \in Credits : t.id # c.id
ASSUME ReservationsAssumption ==
  \A r \in Reservations :
    r.account \in TradingAccounts /\ r.asset \in Assets /\ r.amount \in Nat

VARIABLES balance,   \* accounts.balance
          reserved,  \* accounts.reserved
          posted,    \* postings: <<ledger account, reference>> -> amount
          hold,      \* holds: <<ledger account, order>> -> amount and whether active
          releasing  \* ReleaseReserveByOrder of each caller, between read and write

vars == <<balance, reserved, posted, hold, releasing>>

Available(a) == balance[a] - reserved[a]

\* What a trade costs its buyer.
Paid(t) == Notional(t.price, t.qty).amount

Init ==
  /\ balance = Opening
  /\ reserved = [a \in LedgerAccounts |-> 0]
  /\ posted = <<>>
  /\ hold = <<>>
  /\ releasing = [c \in Callers |-> NoRelease]

-----------------------------------------------------------------------------
(* Postings. *)

\* The rows of table p with new ones (a function of their keys) that do not
\* replace rows already there: INSERT ... ON CONFLICT DO NOTHING.
InsertNew(p, new) ==
  [k \in DOMAIN p \cup DOMAIN new |-> IF k \in DOMAIN p THEN p[k] ELSE new[k]]

\* ledger.postEntryTx, on the state db of the postings and balances: nothing if
\* the debit's reference is there already.
Applied(db, debit, ref) == <<debit, ref>> \in DOMAIN db.posted

Entry(db, debit, credit, amount, ref) ==
  IF Applied(db, debit, ref) THEN db
  ELSE [posted |-> InsertNew(db.posted,
                     [k \in {<<debit, ref>>, <<credit, ref>>} |->
                        IF k = <<debit, ref>> THEN amount ELSE -amount]),
        balance |-> [db.balance EXCEPT ![debit] = @ + amount, ![credit] = @ - amount]]

Books == [posted |-> posted, balance |-> balance]
Commit(db) == posted' = db.posted /\ balance' = db.balance

\* The references of a trade's two legs (the second has the suffix "-q") and of
\* a faucet credit.
BaseRef(t) == <<t.id, "base">>
QuoteRef(t) == <<t.id, "quote">>
FaucetRef(c) == <<c.id, "faucet">>

BaseLeg(db, t) == Entry(db, <<t.buyer, "base">>, <<t.seller, "base">>, t.qty, BaseRef(t))

WrongQuoteLeg(db, t) ==
  Entry(db, <<t.buyer, "quote">>, <<t.seller, "quote">>, Paid(t), QuoteRef(t))

QuoteLeg(db, t) ==
  Entry(db, <<t.seller, "quote">>, <<t.buyer, "quote">>, Paid(t), QuoteRef(t))

\* SettleTrade: both legs in one transaction, unless the base leg is there or the
\* notional is no int64.
SettleTrade(t) ==
  /\ ~Notional(t.price, t.qty).err
  /\ ~Applied(Books, <<t.buyer, "base">>, BaseRef(t))
  /\ Commit(QuoteLeg(BaseLeg(Books, t), t))
  /\ UNCHANGED <<reserved, hold, releasing>>

WrongSettleFaucet(c) ==
  /\ ~Applied(Books, <<c.account, c.asset>>, FaucetRef(c))
  /\ posted' = InsertNew(posted, [k \in {<<<<c.account, c.asset>>, FaucetRef(c)>>} |-> c.amount])
  /\ balance' = [balance EXCEPT ![<<c.account, c.asset>>] = @ + c.amount]
  /\ UNCHANGED <<reserved, hold, releasing>>

\* SettleFaucet: against the sink, once. A withdrawal is a negative credit.
SettleFaucet(c) ==
  /\ Commit(Entry(Books, <<c.account, c.asset>>, <<Sink, c.asset>>, c.amount, FaucetRef(c)))
  /\ UNCHANGED <<reserved, hold, releasing>>

-----------------------------------------------------------------------------
(* Holds. *)

HoldKey(r) == <<<<r.account, r.asset>>, r.order>>

\* ReserveIfAvailable answers that the amount is reserved: nothing to reserve,
\* a hold of this order is there (active or not), or the UPDATE found enough.
Reservable(r) ==
  \/ r.amount = 0
  \/ HoldKey(r) \in DOMAIN hold
  \/ Available(<<r.account, r.asset>>) >= r.amount

\* The hold and the reserve that make it so; otherwise nothing changes.
Reserve(r) ==
  /\ Reservable(r)
  /\ IF r.amount = 0 \/ HoldKey(r) \in DOMAIN hold
     THEN UNCHANGED <<hold, reserved>>
     ELSE /\ hold' = InsertNew(hold, [k \in {HoldKey(r)} |-> [amount |-> r.amount, active |-> TRUE]])
          /\ reserved' = [reserved EXCEPT ![<<r.account, r.asset>>] = @ + r.amount]
  /\ UNCHANGED <<balance, posted, releasing>>

\* The amount each hold was made for, active or not.
Held == [k \in DOMAIN hold |-> hold[k].amount]

\* ReleaseReserveByOrder selects the order's active holds ...
WrongReleaseRead(c, o) ==
  /\ releasing[c] = NoRelease
  /\ releasing' = [releasing EXCEPT ![c] = {k \in DOMAIN hold : k[2] = o}]
  /\ UNCHANGED <<balance, reserved, posted, hold>>

ReleaseRead(c, o) ==
  /\ releasing[c] = NoRelease
  /\ releasing' = [releasing EXCEPT ![c] = {k \in DOMAIN hold : k[2] = o /\ hold[k].active}]
  /\ UNCHANGED <<balance, reserved, posted, hold>>

\* ... and later releases them, subtracting what it selected (at most one hold
\* of an order per account).
WrongReleaseWrite(c) ==
  /\ releasing[c] # NoRelease
  /\ hold' = [k \in DOMAIN hold |-> IF k \in releasing[c] THEN [hold[k] EXCEPT !.active = FALSE]
                                    ELSE hold[k]]
  /\ releasing' = [releasing EXCEPT ![c] = NoRelease]
  /\ UNCHANGED <<balance, reserved, posted>>

ReleaseWrite(c) ==
  /\ releasing[c] # NoRelease
  /\ hold' = [k \in DOMAIN hold |-> IF k \in releasing[c] THEN [hold[k] EXCEPT !.active = FALSE]
                                    ELSE hold[k]]
  /\ reserved' = [a \in LedgerAccounts |->
                    reserved[a] - SumFunctionOnSet(Held, {k \in releasing[c] : k[1] = a})]
  /\ releasing' = [releasing EXCEPT ![c] = NoRelease]
  /\ UNCHANGED <<balance, posted>>

OrderIds == {r.order : r \in Reservations}

Next ==
  \/ \E t \in Trades : SettleTrade(t)
  \/ \E c \in Credits : SettleFaucet(c)
  \/ \E r \in Reservations : Reserve(r)
  \/ \E c \in Callers, o \in OrderIds : ReleaseRead(c, o)
  \/ \E c \in Callers : ReleaseWrite(c)

Spec == Init /\ [][Next]_vars
-----------------------------------------------------------------------------
(* Properties. *)

References == {BaseRef(t) : t \in Trades} \cup {QuoteRef(t) : t \in Trades}
                \cup {FaucetRef(c) : c \in Credits}

\* The shape of the tables. A reserve is never negative.
TypeOK ==
  /\ balance \in [LedgerAccounts -> Int]
  /\ reserved \in [LedgerAccounts -> Nat]
  /\ DOMAIN posted \subseteq LedgerAccounts \X References
  /\ \A k \in DOMAIN posted : posted[k] \in Int
  /\ DOMAIN hold \subseteq LedgerAccounts \X OrderIds
  /\ \A k \in DOMAIN hold : hold[k] \in [amount : Nat, active : BOOLEAN]
  /\ \A c \in Callers : releasing[c] = NoRelease \/ releasing[c] \subseteq DOMAIN hold

\* "Every operation creates always two postings, a debit and a credit"
\* (schema-ledger.sql): each posting has its counterpart, of the opposite
\* amount, in another account of the same asset.
PostingsBalance ==
  \A k \in DOMAIN posted :
    \E l \in DOMAIN posted :
      /\ l[2] = k[2] /\ l[1] # k[1] /\ l[1][2] = k[1][2]
      /\ posted[l] = -posted[k]

\* accounts.balance, "sum of postings" (schema-ledger.sql): whatever is
\* redelivered, the balance is the opening one and the account's postings.
BalanceIsPostings ==
  \A a \in LedgerAccounts :
    balance[a] = Opening[a] + SumFunctionOnSet(posted, {k \in DOMAIN posted : k[1] = a})

\* accounts.reserved, "sums of holds" (schema-ledger.sql): with one caller
\* releasing, what is reserved is what the active holds hold.
ReservedIsHolds ==
  \A a \in LedgerAccounts :
    reserved[a] = SumFunctionOnSet(Held, {k \in DOMAIN hold : k[1] = a /\ hold[k].active})

\* Both columns of an account are sums: what is redelivered or released twice
\* changes neither.
AccountsAreSums == BalanceIsPostings /\ ReservedIsHolds

\* Trades and credits move funds whole and once: the ledger implements
\* AccountBook.
TradeDelta(t) ==
  [a \in LedgerAccounts |->
     CASE a = <<t.buyer, "base">> -> t.qty
       [] a = <<t.seller, "base">> -> -t.qty
       [] a = <<t.seller, "quote">> -> Paid(t)
       [] a = <<t.buyer, "quote">> -> -Paid(t)
       [] OTHER -> 0]

CreditDelta(c) ==
  [a \in LedgerAccounts |->
     CASE a = <<c.account, c.asset>> -> c.amount
       [] a = <<Sink, c.asset>> -> -c.amount
       [] OTHER -> 0]

Settled(t) == <<<<t.buyer, "base">>, BaseRef(t)>> \in DOMAIN posted
Credited(c) == <<<<c.account, c.asset>>, FaucetRef(c)>> \in DOMAIN posted

Book == INSTANCE AccountBook WITH
  Transfers <- {[id |-> t.id, delta |-> TradeDelta(t)] : t \in Trades}
                 \cup {[id |-> c.id, delta |-> CreditDelta(c)] : c \in Credits},
  applied <- {t.id : t \in {u \in Trades : Settled(u)}}
               \cup {c.id : c \in {d \in Credits : Credited(d)}},
  funds <- balance

ImplementsAccountBook == Book!Spec
=============================================================================
