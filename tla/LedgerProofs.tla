---------------------------- MODULE LedgerProofs ----------------------------
(***************************************************************************)
(* Proofs about Ledger, for any sets of accounts, trades, credits and      *)
(* orders: postings come in opposite pairs, balances are their sums, the   *)
(* reserves are the sums of the active holds, and the ledger implements    *)
(* AccountBook. After it, the arithmetic of Money, the audit trail's       *)
(* periods and roots (MerkleWindows), and users and accounts (Accounts).   *)
(*                                                                         *)
(* The invariant behind the first says which postings there can be: all    *)
(* four of a trade or none, both of a credit or none, and no others.       *)
(* The one about holds needs that at most one caller releases them.        *)
(***************************************************************************)
EXTENDS Ledger, MerkleWindows, Accounts, SequenceTheorems, FoldTheorems

-----------------------------------------------------------------------------
(* The rows of a transfer: keys and amounts. *)

BaseDebit(t) == <<<<t.buyer, "base">>, BaseRef(t)>>
BaseCredit(t) == <<<<t.seller, "base">>, BaseRef(t)>>
QuoteDebit(t) == <<<<t.seller, "quote">>, QuoteRef(t)>>
QuoteCredit(t) == <<<<t.buyer, "quote">>, QuoteRef(t)>>
TradeKeys(t) == {BaseDebit(t), BaseCredit(t), QuoteDebit(t), QuoteCredit(t)}

FaucetDebit(c) == <<<<c.account, c.asset>>, FaucetRef(c)>>
FaucetCredit(c) == <<<<Sink, c.asset>>, FaucetRef(c)>>
CreditKeys(c) == {FaucetDebit(c), FaucetCredit(c)}

TradePosted(p, t) ==
  /\ TradeKeys(t) \subseteq DOMAIN p
  /\ p[BaseDebit(t)] = t.qty /\ p[BaseCredit(t)] = -t.qty
  /\ p[QuoteDebit(t)] = Paid(t)
  /\ p[QuoteCredit(t)] = -Paid(t)

CreditPosted(p, c) ==
  /\ CreditKeys(c) \subseteq DOMAIN p
  /\ p[FaucetDebit(c)] = c.amount /\ p[FaucetCredit(c)] = -c.amount

TradesWhole(p) ==
  \A t \in Trades : TradePosted(p, t) \/ TradeKeys(t) \cap DOMAIN p = {}

CreditsWhole(p) ==
  \A c \in Credits : CreditPosted(p, c) \/ CreditKeys(c) \cap DOMAIN p = {}

NothingElse(p) ==
  \A k \in DOMAIN p : \/ \E t \in Trades : k \in TradeKeys(t)
                      \/ \E c \in Credits : k \in CreditKeys(c)

PostingsWhole(p) == TradesWhole(p) /\ CreditsWhole(p) /\ NothingElse(p)

IInv == balance \in [LedgerAccounts -> Int] /\ PostingsWhole(posted)

-----------------------------------------------------------------------------
(* Lemmas. *)

\* What a trade costs is a number.
LEMMA PaidType ==
  ASSUME NEW t \in Trades
  PROVE  Paid(t) \in Int
<1>1. t.price * t.qty \in Nat
  BY TradesAssumption
<1>2. \A n \in Nat : Quo(n, Scale) \in Int
  BY MoneyAssumption DEF Quo
<1> QED BY <1>1, <1>2 DEF Paid, Notional, Ok, Overflow

\* A trade's accounts are ledger accounts and its four rows are four keys.
LEMMA TradeRows ==
  ASSUME NEW t \in Trades
  PROVE  /\ <<t.buyer, "base">> \in LedgerAccounts /\ <<t.seller, "base">> \in LedgerAccounts
         /\ <<t.buyer, "quote">> \in LedgerAccounts /\ <<t.seller, "quote">> \in LedgerAccounts
         /\ BaseDebit(t) # BaseCredit(t) /\ QuoteDebit(t) # QuoteCredit(t)
         /\ {BaseDebit(t), BaseCredit(t)} \cap {QuoteDebit(t), QuoteCredit(t)} = {}
         /\ t.qty \in Int /\ Paid(t) \in Int
<1>1. /\ t.buyer \in TradingAccounts /\ t.seller \in TradingAccounts /\ t.buyer # t.seller
      /\ t.price \in Nat /\ t.qty \in Nat
  BY TradesAssumption
<1>2. /\ <<t.buyer, "base">> \in LedgerAccounts /\ <<t.seller, "base">> \in LedgerAccounts
      /\ <<t.buyer, "quote">> \in LedgerAccounts /\ <<t.seller, "quote">> \in LedgerAccounts
  BY <1>1 DEF LedgerAccounts, Assets
<1>3. /\ BaseDebit(t) # BaseCredit(t) /\ QuoteDebit(t) # QuoteCredit(t)
      /\ {BaseDebit(t), BaseCredit(t)} \cap {QuoteDebit(t), QuoteCredit(t)} = {}
  BY <1>1 DEF BaseDebit, BaseCredit, QuoteDebit, QuoteCredit, BaseRef, QuoteRef
<1>4. t.qty \in Int /\ Paid(t) \in Int
  <2>1. Paid(t) \in Int
    BY PaidType
  <2> QED BY <1>1, <2>1
<1> QED BY <1>2, <1>3, <1>4

\* The same of a credit and its two rows.
LEMMA CreditRows ==
  ASSUME NEW c \in Credits
  PROVE  /\ <<c.account, c.asset>> \in LedgerAccounts /\ <<Sink, c.asset>> \in LedgerAccounts
         /\ FaucetDebit(c) # FaucetCredit(c)
         /\ c.amount \in Int
BY CreditsAssumption, SinkAssumption DEF LedgerAccounts, FaucetDebit, FaucetCredit

\* Rows of different transfers are different.
LEMMA RowsApart ==
  /\ \A t, u \in Trades : t # u => TradeKeys(t) \cap TradeKeys(u) = {}
  /\ \A c, d \in Credits : c # d => CreditKeys(c) \cap CreditKeys(d) = {}
  /\ \A t \in Trades, c \in Credits : TradeKeys(t) \cap CreditKeys(c) = {}
BY IdsAssumption
   DEF TradeKeys, CreditKeys, BaseDebit, BaseCredit, QuoteDebit, QuoteCredit, FaucetDebit,
       FaucetCredit, BaseRef, QuoteRef, FaucetRef

\* What a transfer adds to an account is a number.
LEMMA DeltaTypes ==
  /\ \A t \in Trades : TradeDelta(t) \in [LedgerAccounts -> Int]
  /\ \A c \in Credits : CreditDelta(c) \in [LedgerAccounts -> Int]
<1>1. ASSUME NEW t \in Trades PROVE TradeDelta(t) \in [LedgerAccounts -> Int]
  <2> DEFINE n == Paid(t)
  <2>1. t.buyer # t.seller /\ t.qty \in Int /\ -t.qty \in Int /\ n \in Int /\ -n \in Int
    <3>1. t.buyer # t.seller
      BY TradesAssumption
    <3>2. t.qty \in Int /\ n \in Int
      BY TradeRows
    <3> HIDE DEF n
    <3> QED BY <3>1, <3>2
  <2>2. TradeDelta(t) = [a \in LedgerAccounts |-> IF a = <<t.buyer, "base">> THEN t.qty
                                                  ELSE IF a = <<t.seller, "base">> THEN -t.qty
                                                  ELSE IF a = <<t.seller, "quote">> THEN n
                                                  ELSE IF a = <<t.buyer, "quote">> THEN -n ELSE 0]
    BY <2>1 DEF TradeDelta
  <2> HIDE DEF n
  <2> QED BY <2>1, <2>2
<1>2. ASSUME NEW c \in Credits PROVE CreditDelta(c) \in [LedgerAccounts -> Int]
  <2>1. c.account # Sink /\ c.amount \in Int /\ -c.amount \in Int
    BY CreditsAssumption, SinkAssumption
  <2>2. CreditDelta(c) = [a \in LedgerAccounts |-> IF a = <<c.account, c.asset>> THEN c.amount
                                                   ELSE IF a = <<Sink, c.asset>> THEN -c.amount
                                                   ELSE 0]
    BY <2>1 DEF CreditDelta
  <2> QED BY <2>1, <2>2
<1> QED BY <1>1, <1>2

\* Moving an amount between two accounts.
Moved(b, to, from, amount) == [b EXCEPT ![to] = @ + amount, ![from] = @ - amount]

Plus(b, delta) == [a \in LedgerAccounts |-> b[a] + delta[a]]

TwoMoves(a1, a2, m, a3, a4, n) ==
  [a \in LedgerAccounts |-> IF a = a1 THEN m ELSE IF a = a2 THEN -m
                            ELSE IF a = a3 THEN n ELSE IF a = a4 THEN -n ELSE 0]

LEMMA MovedTwice ==
  ASSUME NEW b \in [LedgerAccounts -> Int],
         NEW a1 \in LedgerAccounts, NEW a2 \in LedgerAccounts,
         NEW a3 \in LedgerAccounts, NEW a4 \in LedgerAccounts,
         a1 # a2, a1 # a3, a1 # a4, a2 # a3, a2 # a4, a3 # a4,
         NEW m \in Int, NEW n \in Int
  PROVE  Moved(Moved(b, a1, a2, m), a3, a4, n) = Plus(b, TwoMoves(a1, a2, m, a3, a4, n))
<1>1. \A a \in LedgerAccounts : b[a] \in Int
  OBVIOUS
<1>2. Moved(b, a1, a2, m)
        = [a \in LedgerAccounts |-> IF a = a1 THEN b[a] + m ELSE IF a = a2 THEN b[a] - m
                                    ELSE b[a]]
  BY DEF Moved
<1>3. Moved(Moved(b, a1, a2, m), a3, a4, n)
        = [a \in LedgerAccounts |-> IF a = a1 THEN b[a] + m ELSE IF a = a2 THEN b[a] - m
                                    ELSE IF a = a3 THEN b[a] + n ELSE IF a = a4 THEN b[a] - n
                                    ELSE b[a]]
  BY <1>2 DEF Moved
<1> QED BY <1>1, <1>3 DEF Plus, TwoMoves

-----------------------------------------------------------------------------
(* What the two transactions do. *)

\* Settling a trade adds its four rows and moves its amounts.
LEMMA SettleTradeEffect ==
  ASSUME IInv, NEW t \in Trades, SettleTrade(t)
  PROVE  /\ TradeKeys(t) \cap DOMAIN posted = {}
         /\ DOMAIN posted' = DOMAIN posted \cup TradeKeys(t)
         /\ \A k \in DOMAIN posted : posted'[k] = posted[k]
         /\ TradePosted(posted', t)
         /\ balance' = [a \in LedgerAccounts |-> balance[a] + TradeDelta(t)[a]]
<1> DEFINE bb == <<t.buyer, "base">>  sb == <<t.seller, "base">>
           bq == <<t.buyer, "quote">> sq == <<t.seller, "quote">>
           base == BaseLeg(Books, t)
           both == QuoteLeg(base, t)
           n == Paid(t)
<1>1. TradeKeys(t) \cap DOMAIN posted = {}
  BY DEF IInv, PostingsWhole, TradesWhole, TradePosted, SettleTrade, Applied, Books, TradeKeys,
         BaseDebit
<1>2. /\ base.posted = InsertNew(posted, [k \in {BaseDebit(t), BaseCredit(t)} |->
                                            IF k = BaseDebit(t) THEN t.qty ELSE -t.qty])
      /\ base.balance = [balance EXCEPT ![bb] = @ + t.qty, ![sb] = @ - t.qty]
  BY <1>1 DEF BaseLeg, Entry, Applied, Books, TradeKeys, BaseDebit, BaseCredit
<1>3. DOMAIN base.posted = DOMAIN posted \cup {BaseDebit(t), BaseCredit(t)}
  BY <1>2 DEF InsertNew
<1>4. QuoteDebit(t) \notin DOMAIN base.posted
  BY <1>1, <1>3, TradeRows DEF TradeKeys
<1>5. /\ both.posted = InsertNew(base.posted, [k \in {QuoteDebit(t), QuoteCredit(t)} |->
                                                 IF k = QuoteDebit(t) THEN n ELSE -n])
      /\ both.balance = [base.balance EXCEPT ![sq] = @ + n, ![bq] = @ - n]
  BY <1>4 DEF QuoteLeg, Entry, Applied, QuoteDebit, QuoteCredit
<1>6. posted' = both.posted /\ balance' = both.balance
  BY DEF SettleTrade, Commit
<1>7. DOMAIN posted' = DOMAIN posted \cup TradeKeys(t)
  BY <1>3, <1>5, <1>6 DEF InsertNew, TradeKeys
<1>8. /\ \A k \in DOMAIN posted : base.posted[k] = posted[k]
      /\ base.posted[BaseDebit(t)] = t.qty /\ base.posted[BaseCredit(t)] = -t.qty
  BY <1>1, <1>2, TradeRows DEF InsertNew, TradeKeys
<1>9. /\ \A k \in DOMAIN base.posted : posted'[k] = base.posted[k]
      /\ posted'[QuoteDebit(t)] = n /\ posted'[QuoteCredit(t)] = -n
  <2>1. QuoteCredit(t) \notin DOMAIN base.posted
    BY <1>1, <1>3, TradeRows DEF TradeKeys
  <2> QED BY <1>4, <1>5, <1>6, <2>1, TradeRows DEF InsertNew
<1>10. /\ \A k \in DOMAIN posted : posted'[k] = posted[k]
       /\ TradePosted(posted', t)
  BY <1>3, <1>7, <1>8, <1>9 DEF TradePosted
<1>11. balance' = [a \in LedgerAccounts |-> balance[a] + TradeDelta(t)[a]]
  <2>1. balance \in [LedgerAccounts -> Int]
    BY DEF IInv
  <2>2. balance' = Moved(Moved(balance, bb, sb, t.qty), sq, bq, n)
    BY <1>2, <1>5, <1>6 DEF Moved
  <2>3. bb # sb /\ bq # sq /\ bb # bq /\ bb # sq /\ sb # bq /\ sb # sq
    BY TradesAssumption
  <2>4. /\ bb \in LedgerAccounts /\ sb \in LedgerAccounts /\ bq \in LedgerAccounts
        /\ sq \in LedgerAccounts /\ t.qty \in Int /\ n \in Int
    BY TradeRows
  <2>5. TradeDelta(t) = TwoMoves(bb, sb, t.qty, sq, bq, n)
    BY <2>3 DEF TradeDelta, TwoMoves
  <2> HIDE DEF bb, sb, bq, sq, n, base, both
  <2>6. balance' = Plus(balance, TradeDelta(t))
    <3>1. bb # sb /\ bb # sq /\ bb # bq /\ sb # sq /\ sb # bq /\ sq # bq
      BY <2>3
    <3>2. Moved(Moved(balance, bb, sb, t.qty), sq, bq, n)
            = Plus(balance, TwoMoves(bb, sb, t.qty, sq, bq, n))
      BY <2>1, <2>4, <3>1, MovedTwice
    <3> QED BY <2>2, <2>5, <3>2
  <2> QED BY <2>6 DEF Plus
<1> QED BY <1>1, <1>7, <1>10, <1>11

\* Settling a credit does nothing, if it was settled, or adds its two rows and
\* moves its amount.
LEMMA SettleFaucetEffect ==
  ASSUME IInv, NEW c \in Credits, SettleFaucet(c)
  PROVE  \/ Credited(c) /\ posted' = posted /\ balance' = balance
         \/ /\ CreditKeys(c) \cap DOMAIN posted = {}
            /\ DOMAIN posted' = DOMAIN posted \cup CreditKeys(c)
            /\ \A k \in DOMAIN posted : posted'[k] = posted[k]
            /\ CreditPosted(posted', c)
            /\ balance' = [a \in LedgerAccounts |-> balance[a] + CreditDelta(c)[a]]
<1> DEFINE acct == <<c.account, c.asset>>  sink == <<Sink, c.asset>>
<1>1. CASE Applied(Books, acct, FaucetRef(c))
  BY <1>1 DEF SettleFaucet, Commit, Entry, Applied, Books, Credited
<1>2. CASE ~Applied(Books, acct, FaucetRef(c))
  <2>1. CreditKeys(c) \cap DOMAIN posted = {}
    BY <1>2 DEF IInv, PostingsWhole, CreditsWhole, CreditPosted, Applied, Books, CreditKeys,
                FaucetDebit
  <2>2. /\ posted' = InsertNew(posted, [k \in CreditKeys(c) |->
                                         IF k = FaucetDebit(c) THEN c.amount ELSE -c.amount])
        /\ balance' = Moved(balance, acct, sink, c.amount)
    BY <1>2 DEF SettleFaucet, Commit, Entry, Books, CreditKeys, FaucetDebit, FaucetCredit, Moved
  <2>3. DOMAIN posted' = DOMAIN posted \cup CreditKeys(c)
    BY <2>2 DEF InsertNew
  <2>4. /\ \A k \in DOMAIN posted : posted'[k] = posted[k]
        /\ CreditPosted(posted', c)
    BY <2>1, <2>2, <2>3, CreditRows DEF InsertNew, CreditPosted, CreditKeys
  <2>5. balance' = [a \in LedgerAccounts |-> balance[a] + CreditDelta(c)[a]]
    <3>1. balance \in [LedgerAccounts -> Int] /\ c.amount \in Int /\ acct # sink
          /\ acct \in LedgerAccounts /\ sink \in LedgerAccounts
      BY CreditRows, CreditsAssumption, SinkAssumption DEF IInv
    <3>2. CreditDelta(c) = [a \in LedgerAccounts |-> IF a = acct THEN c.amount
                                                     ELSE IF a = sink THEN -c.amount ELSE 0]
      BY <3>1 DEF CreditDelta
    <3> HIDE DEF acct, sink
    <3>3. \A a \in LedgerAccounts : balance[a] \in Int
      BY <3>1
    <3>4. balance' = [a \in LedgerAccounts |-> IF a = acct THEN balance[a] + c.amount
                                               ELSE IF a = sink THEN balance[a] - c.amount
                                               ELSE balance[a]]
      BY <2>2, <3>1 DEF Moved
    <3> QED BY <3>1, <3>2, <3>3, <3>4
  <2> QED BY <2>1, <2>3, <2>4, <2>5
<1> QED BY <1>1, <1>2

-----------------------------------------------------------------------------
(* The invariant. *)

\* Rows added for other transfers leave a transfer whole.
LEMMA StillWhole ==
  ASSUME NEW p, NEW q, NEW K, DOMAIN q = DOMAIN p \cup K,
         \A k \in DOMAIN p : q[k] = p[k]
  PROVE  /\ \A t \in Trades :
              /\ TradeKeys(t) \cap K = {}
              /\ TradePosted(p, t) \/ TradeKeys(t) \cap DOMAIN p = {}
              => TradePosted(q, t) \/ TradeKeys(t) \cap DOMAIN q = {}
         /\ \A c \in Credits :
              /\ CreditKeys(c) \cap K = {}
              /\ CreditPosted(p, c) \/ CreditKeys(c) \cap DOMAIN p = {}
              => CreditPosted(q, c) \/ CreditKeys(c) \cap DOMAIN q = {}
<1>1. ASSUME NEW t \in Trades, TradePosted(p, t) PROVE TradePosted(q, t)
  BY <1>1 DEF TradePosted, TradeKeys
<1>2. ASSUME NEW c \in Credits, CreditPosted(p, c) PROVE CreditPosted(q, c)
  BY <1>2 DEF CreditPosted, CreditKeys
<1> QED BY <1>1, <1>2

LEMMA InvInit == Init => IInv
<1> SUFFICES ASSUME Init PROVE IInv
  OBVIOUS
<1>1. balance \in [LedgerAccounts -> Int]
  BY OpeningAssumption DEF Init
<1>2. DOMAIN posted = {}
  BY DEF Init
<1> QED BY <1>1, <1>2 DEF IInv, PostingsWhole, TradesWhole, CreditsWhole, NothingElse

LEMMA InvTrade ==
  ASSUME IInv, NEW t \in Trades, SettleTrade(t)
  PROVE  IInv'
<1>1. balance' \in [LedgerAccounts -> Int]
  <2>1. balance \in [LedgerAccounts -> Int]
    BY DEF IInv
  <2>2. \A a \in LedgerAccounts : balance[a] + TradeDelta(t)[a] \in Int
    BY <2>1, DeltaTypes
  <2>3. balance' = [a \in LedgerAccounts |-> balance[a] + TradeDelta(t)[a]]
    BY SettleTradeEffect
  <2> QED BY <2>2, <2>3
<1>2. TradesWhole(posted')
  <2> SUFFICES ASSUME NEW u \in Trades
               PROVE  TradePosted(posted', u) \/ TradeKeys(u) \cap DOMAIN posted' = {}
    BY DEF TradesWhole
  <2>1. CASE u = t
    BY <2>1, SettleTradeEffect
  <2>2. CASE u # t
    <3>1. TradeKeys(u) \cap TradeKeys(t) = {}
      BY <2>2, RowsApart
    <3>2. TradePosted(posted, u) \/ TradeKeys(u) \cap DOMAIN posted = {}
      BY DEF IInv, PostingsWhole, TradesWhole
    <3> QED BY <3>1, <3>2, SettleTradeEffect, StillWhole
  <2> QED BY <2>1, <2>2
<1>3. CreditsWhole(posted')
  <2> SUFFICES ASSUME NEW c \in Credits
               PROVE  CreditPosted(posted', c) \/ CreditKeys(c) \cap DOMAIN posted' = {}
    BY DEF CreditsWhole
  <2>1. CreditKeys(c) \cap TradeKeys(t) = {}
    BY RowsApart
  <2>2. CreditPosted(posted, c) \/ CreditKeys(c) \cap DOMAIN posted = {}
    BY DEF IInv, PostingsWhole, CreditsWhole
  <2> QED BY <2>1, <2>2, SettleTradeEffect, StillWhole
<1>4. NothingElse(posted')
  BY SettleTradeEffect DEF IInv, PostingsWhole, NothingElse
<1> QED BY <1>1, <1>2, <1>3, <1>4 DEF IInv, PostingsWhole

LEMMA InvCredit ==
  ASSUME IInv, NEW c \in Credits, SettleFaucet(c)
  PROVE  IInv'
<1>1. CASE posted' = posted /\ balance' = balance
  BY <1>1 DEF IInv, PostingsWhole, TradesWhole, CreditsWhole, NothingElse, TradePosted, CreditPosted
<1>2. CASE ~(posted' = posted /\ balance' = balance)
  <2>1. /\ DOMAIN posted' = DOMAIN posted \cup CreditKeys(c)
        /\ \A k \in DOMAIN posted : posted'[k] = posted[k]
        /\ CreditPosted(posted', c)
        /\ balance' = [a \in LedgerAccounts |-> balance[a] + CreditDelta(c)[a]]
    BY <1>2, SettleFaucetEffect
  <2>2. balance' \in [LedgerAccounts -> Int]
    <3>1. balance \in [LedgerAccounts -> Int]
      BY DEF IInv
    <3>2. \A a \in LedgerAccounts : balance[a] + CreditDelta(c)[a] \in Int
      BY <3>1, DeltaTypes
    <3> QED BY <2>1, <3>2
  <2>3. TradesWhole(posted')
    <3> SUFFICES ASSUME NEW t \in Trades
                 PROVE  TradePosted(posted', t) \/ TradeKeys(t) \cap DOMAIN posted' = {}
      BY DEF TradesWhole
    <3>1. TradeKeys(t) \cap CreditKeys(c) = {}
      BY RowsApart
    <3>2. TradePosted(posted, t) \/ TradeKeys(t) \cap DOMAIN posted = {}
      BY DEF IInv, PostingsWhole, TradesWhole
    <3> QED BY <2>1, <3>1, <3>2, StillWhole
  <2>4. CreditsWhole(posted')
    <3> SUFFICES ASSUME NEW d \in Credits
                 PROVE  CreditPosted(posted', d) \/ CreditKeys(d) \cap DOMAIN posted' = {}
      BY DEF CreditsWhole
    <3>1. CASE d = c
      BY <2>1, <3>1
    <3>2. CASE d # c
      <4>1. CreditKeys(d) \cap CreditKeys(c) = {}
        BY <3>2, RowsApart
      <4>2. CreditPosted(posted, d) \/ CreditKeys(d) \cap DOMAIN posted = {}
        BY DEF IInv, PostingsWhole, CreditsWhole
      <4> QED BY <2>1, <4>1, <4>2, StillWhole
    <3> QED BY <3>1, <3>2
  <2>5. NothingElse(posted')
    BY <2>1 DEF IInv, PostingsWhole, NothingElse
  <2> QED BY <2>2, <2>3, <2>4, <2>5 DEF IInv, PostingsWhole
<1> QED BY <1>1, <1>2

\* The steps that concern holds only.
LEMMA HoldSteps ==
  ASSUME [Next]_vars, ~\E t \in Trades : SettleTrade(t), ~\E c \in Credits : SettleFaucet(c)
  PROVE  UNCHANGED <<balance, posted>>
BY DEF Next, Reserve, ReleaseRead, ReleaseWrite, vars

LEMMA InvStep == IInv /\ [Next]_vars => IInv'
<1> SUFFICES ASSUME IInv, [Next]_vars PROVE IInv'
  OBVIOUS
<1>1. CASE \E t \in Trades : SettleTrade(t)
  BY <1>1, InvTrade
<1>2. CASE \E c \in Credits : SettleFaucet(c)
  BY <1>2, InvCredit
<1>3. CASE (~\E t \in Trades : SettleTrade(t)) /\ ~\E c \in Credits : SettleFaucet(c)
  <2>1. UNCHANGED <<balance, posted>>
    BY <1>3, HoldSteps
  <2> QED BY <2>1 DEF IInv, PostingsWhole, TradesWhole, CreditsWhole, NothingElse, TradePosted,
                      CreditPosted
<1> QED BY <1>1, <1>2, <1>3

\* In every state the postings are those of whole transfers.
THEOREM WholeTransfers == Spec => []IInv
BY InvInit, InvStep, PTL DEF Spec

-----------------------------------------------------------------------------
(* Postings come in pairs. *)

LEMMA WholeBalances == IInv => PostingsBalance
<1> SUFFICES ASSUME IInv, NEW k \in DOMAIN posted
             PROVE  \E l \in DOMAIN posted :
                      /\ l[2] = k[2] /\ l[1] # k[1] /\ l[1][2] = k[1][2]
                      /\ posted[l] = -posted[k]
  BY DEF PostingsBalance
<1>1. CASE \E t \in Trades : k \in TradeKeys(t)
  <2>1. PICK t \in Trades : k \in TradeKeys(t)
    BY <1>1
  <2>2. TradePosted(posted, t)
    BY <2>1 DEF IInv, PostingsWhole, TradesWhole
  <2>3. t.buyer # t.seller /\ t.qty \in Int /\ Paid(t) \in Int
    BY TradesAssumption, TradeRows
  <2>4. CASE k = BaseDebit(t)
    <3>1. BaseCredit(t) \in DOMAIN posted
      BY <2>2 DEF TradePosted, TradeKeys
    <3> QED BY <3>1, <2>2, <2>3, <2>4 DEF TradePosted, TradeKeys, BaseDebit, BaseCredit
  <2>5. CASE k = BaseCredit(t)
    <3>1. BaseDebit(t) \in DOMAIN posted
      BY <2>2 DEF TradePosted, TradeKeys
    <3> QED BY <3>1, <2>2, <2>3, <2>5 DEF TradePosted, TradeKeys, BaseDebit, BaseCredit
  <2>6. CASE k = QuoteDebit(t)
    <3>1. QuoteCredit(t) \in DOMAIN posted
      BY <2>2 DEF TradePosted, TradeKeys
    <3> QED BY <3>1, <2>2, <2>3, <2>6 DEF TradePosted, TradeKeys, QuoteDebit, QuoteCredit
  <2>7. CASE k = QuoteCredit(t)
    <3>1. QuoteDebit(t) \in DOMAIN posted
      BY <2>2 DEF TradePosted, TradeKeys
    <3> QED BY <3>1, <2>2, <2>3, <2>7 DEF TradePosted, TradeKeys, QuoteDebit, QuoteCredit
  <2> QED BY <2>1, <2>4, <2>5, <2>6, <2>7 DEF TradeKeys
<1>2. CASE \E c \in Credits : k \in CreditKeys(c)
  <2>1. PICK c \in Credits : k \in CreditKeys(c)
    BY <1>2
  <2>2. CreditPosted(posted, c)
    BY <2>1 DEF IInv, PostingsWhole, CreditsWhole
  <2>3. c.account # Sink /\ c.amount \in Int
    BY CreditsAssumption, SinkAssumption
  <2>4. CASE k = FaucetDebit(c)
    <3>1. FaucetCredit(c) \in DOMAIN posted
      BY <2>2 DEF CreditPosted, CreditKeys
    <3> QED BY <3>1, <2>2, <2>3, <2>4 DEF CreditPosted, CreditKeys, FaucetDebit, FaucetCredit
  <2>5. CASE k = FaucetCredit(c)
    <3>1. FaucetDebit(c) \in DOMAIN posted
      BY <2>2 DEF CreditPosted, CreditKeys
    <3> QED BY <3>1, <2>2, <2>3, <2>5 DEF CreditPosted, CreditKeys, FaucetDebit, FaucetCredit
  <2> QED BY <2>1, <2>4, <2>5 DEF CreditKeys
<1> QED BY <1>1, <1>2 DEF IInv, PostingsWhole, NothingElse

\* Every posting has its counterpart, whatever is redelivered and however
\* trades, credits and holds interleave.
THEOREM PostingsAlwaysBalance == Spec => []PostingsBalance
BY WholeTransfers, WholeBalances, PTL

-----------------------------------------------------------------------------
(* The ledger implements AccountBook. *)

LEMMA BookInit == Init => Book!Init
BY DEF Init, Book!Init, Settled, Credited

\* A step that settles a transfer not settled before applies it.
LEMMA BookTrade ==
  ASSUME IInv, NEW t \in Trades, SettleTrade(t)
  PROVE  Book!Next
<1> DEFINE x == [id |-> t.id, delta |-> TradeDelta(t)]
<1>1. \A u \in Trades : (BaseDebit(u) \in TradeKeys(t)) <=> (u = t)
  BY RowsApart DEF TradeKeys
<1>2. \A u \in Trades : Settled(u)' <=> Settled(u) \/ u = t
  BY <1>1, SettleTradeEffect DEF Settled, BaseDebit
<1>3. \A c \in Credits : FaucetDebit(c) \notin TradeKeys(t)
  BY RowsApart DEF CreditKeys
<1>4. \A c \in Credits : Credited(c)' <=> Credited(c)
  BY <1>3, SettleTradeEffect DEF Credited, FaucetDebit
<1>5. ~Settled(t)
  BY SettleTradeEffect DEF Settled, TradeKeys, BaseDebit
<1>6. /\ \A u \in Trades : u.id = t.id => u = t
      /\ \A c \in Credits : c.id # t.id
  BY IdsAssumption
<1>7. balance' = [a \in LedgerAccounts |-> balance[a] + TradeDelta(t)[a]]
  BY SettleTradeEffect
<1>8. Book!Apply(x)
  BY <1>2, <1>4, <1>5, <1>6, <1>7 DEF Book!Apply
<1> QED BY <1>8 DEF Book!Next

LEMMA BookCredit ==
  ASSUME IInv, NEW c \in Credits, SettleFaucet(c)
  PROVE  [Book!Next]_Book!vars
<1> DEFINE x == [id |-> c.id, delta |-> CreditDelta(c)]
<1>1. CASE posted' = posted /\ balance' = balance
  BY <1>1 DEF Book!vars, Settled, Credited
<1>2. CASE ~(posted' = posted /\ balance' = balance)
  <2>1. /\ CreditKeys(c) \cap DOMAIN posted = {}
        /\ DOMAIN posted' = DOMAIN posted \cup CreditKeys(c)
        /\ balance' = [a \in LedgerAccounts |-> balance[a] + CreditDelta(c)[a]]
    BY <1>2, SettleFaucetEffect
  <2>2. \A d \in Credits : (FaucetDebit(d) \in CreditKeys(c)) <=> (d = c)
    BY RowsApart DEF CreditKeys
  <2>3. \A d \in Credits : Credited(d)' <=> Credited(d) \/ d = c
    BY <2>1, <2>2 DEF Credited, FaucetDebit
  <2>4. \A t \in Trades : BaseDebit(t) \notin CreditKeys(c)
    BY RowsApart DEF TradeKeys
  <2>5. \A t \in Trades : Settled(t)' <=> Settled(t)
    BY <2>1, <2>4 DEF Settled, BaseDebit
  <2>6. ~Credited(c)
    BY <2>1 DEF Credited, CreditKeys, FaucetDebit
  <2>7. /\ \A t \in Trades : t.id # c.id
        /\ \A d \in Credits : d.id = c.id => d = c
    BY IdsAssumption
  <2>8. Book!Apply(x)
    BY <2>1, <2>3, <2>5, <2>6, <2>7 DEF Book!Apply
  <2> QED BY <2>8 DEF Book!Next
<1> QED BY <1>1, <1>2

LEMMA BookStep == IInv /\ [Next]_vars => [Book!Next]_Book!vars
<1> SUFFICES ASSUME IInv, [Next]_vars PROVE [Book!Next]_Book!vars
  OBVIOUS
<1>1. CASE \E t \in Trades : SettleTrade(t)
  BY <1>1, BookTrade
<1>2. CASE \E c \in Credits : SettleFaucet(c)
  BY <1>2, BookCredit
<1>3. CASE (~\E t \in Trades : SettleTrade(t)) /\ ~\E c \in Credits : SettleFaucet(c)
  <2>1. UNCHANGED <<balance, posted>>
    BY <1>3, HoldSteps
  <2> QED BY <2>1 DEF Book!vars, Settled, Credited
<1> QED BY <1>1, <1>2, <1>3

\* Every trade and every credit moves the funds of all its accounts at once and
\* only once, however often it is delivered.
THEOREM LedgerImplementsAccountBook == Spec => ImplementsAccountBook
<1>1. Init => Book!Init
  BY BookInit
<1>2. IInv /\ [Next]_vars => [Book!Next]_Book!vars
  BY BookStep
<1> QED BY <1>1, <1>2, WholeTransfers, PTL DEF Spec, Book!Spec, ImplementsAccountBook

-----------------------------------------------------------------------------
(* Balances are sums of postings. *)

\* The rows of account a in table p, and what they sum to.
RowsOf(p, a) == {k \in DOMAIN p : k[1] = a}
SumOf(p, a) == SumFunctionOnSet(p, RowsOf(p, a))

\* Table q is table p and the rows K, all of them numbers.
Grown(p, q, K) ==
  /\ IsFiniteSet(DOMAIN p) /\ DOMAIN q = DOMAIN p \cup K /\ K \cap DOMAIN p = {}
  /\ \A k \in DOMAIN p : q[k] = p[k]
  /\ \A k \in DOMAIN q : q[k] \in Int

LEMMA OldRows ==
  ASSUME NEW p, NEW q, NEW K, NEW a, Grown(p, q, K)
  PROVE  /\ IsFiniteSet(RowsOf(p, a)) /\ RowsOf(p, a) \subseteq DOMAIN p
         /\ SumFunctionOnSet(q, RowsOf(p, a)) = SumOf(p, a) /\ SumOf(p, a) \in Int
<1>1. RowsOf(p, a) \subseteq DOMAIN p /\ IsFiniteSet(DOMAIN p)
  BY DEF RowsOf, Grown
<1>2. IsFiniteSet(RowsOf(p, a))
  BY <1>1, FS_Subset
<1>3. \A k \in RowsOf(p, a) : q[k] = p[k] /\ q[k] \in Int
  BY <1>1 DEF Grown
<1>4. SumFunctionOnSet(q, RowsOf(p, a)) = SumOf(p, a)
  BY <1>2, <1>3, SumSame DEF SumOf
<1>5. SumFunctionOnSet(q, RowsOf(p, a)) \in Int
  BY <1>2, <1>3, SumType
<1> QED BY <1>1, <1>2, <1>4, <1>5

\* Rows of other accounts add nothing to an account.
LEMMA NoRowAdded ==
  ASSUME NEW p, NEW q, NEW K, NEW a, Grown(p, q, K), \A k \in K : k[1] # a
  PROVE  SumOf(q, a) = SumOf(p, a)
<1>1. RowsOf(q, a) = RowsOf(p, a)
  BY DEF RowsOf, Grown
<1> QED BY <1>1, OldRows DEF SumOf

\* A row of its own adds its amount.
LEMMA OneRowAdded ==
  ASSUME NEW p, NEW q, NEW K, NEW a, Grown(p, q, K), NEW x \in K, x[1] = a,
         \A k \in K : k[1] = a => k = x
  PROVE  SumOf(q, a) = SumOf(p, a) + q[x]
<1>1. RowsOf(q, a) = RowsOf(p, a) \cup {x} /\ x \notin RowsOf(p, a)
  BY DEF RowsOf, Grown
<1>2. \A y \in RowsOf(p, a) \cup {x} : q[y] \in Int
  BY OldRows DEF Grown
<1>3. SumFunctionOnSet(q, RowsOf(p, a) \cup {x}) = q[x] + SumFunctionOnSet(q, RowsOf(p, a))
  BY <1>1, <1>2, OldRows, SumAdd
<1>4. SumOf(q, a) = q[x] + SumOf(p, a) /\ SumOf(p, a) \in Int
  BY <1>1, <1>3, OldRows DEF SumOf
<1> QED BY <1>2, <1>4

\* Whole postings are of ledger accounts, under references, and numbers.
LEMMA PostingTypes ==
  ASSUME NEW p, PostingsWhole(p)
  PROVE  DOMAIN p \subseteq LedgerAccounts \X References /\ \A k \in DOMAIN p : p[k] \in Int
<1> SUFFICES ASSUME NEW k \in DOMAIN p
             PROVE  k \in LedgerAccounts \X References /\ p[k] \in Int
  OBVIOUS
<1>1. CASE \E t \in Trades : k \in TradeKeys(t)
  <2>1. PICK t \in Trades : k \in TradeKeys(t)
    BY <1>1
  <2>2. TradePosted(p, t)
    BY <2>1 DEF PostingsWhole, TradesWhole
  <2>3. BaseRef(t) \in References /\ QuoteRef(t) \in References
    BY DEF References
  <2>4. k \in LedgerAccounts \X References
    <3>1. /\ BaseDebit(t) \in LedgerAccounts \X References
          /\ BaseCredit(t) \in LedgerAccounts \X References
      BY <2>3, TradeRows DEF BaseDebit, BaseCredit
    <3>2. /\ QuoteDebit(t) \in LedgerAccounts \X References
          /\ QuoteCredit(t) \in LedgerAccounts \X References
      BY <2>3, TradeRows DEF QuoteDebit, QuoteCredit
    <3> QED BY <2>1, <3>1, <3>2 DEF TradeKeys
  <2>5. \A n \in Int : -n \in Int
    OBVIOUS
  <2>6. p[k] \in {t.qty, -t.qty, Paid(t), -Paid(t)}
    BY <2>1, <2>2 DEF TradePosted, TradeKeys
  <2> QED BY <2>4, <2>5, <2>6, TradeRows
<1>2. CASE \E c \in Credits : k \in CreditKeys(c)
  <2>1. PICK c \in Credits : k \in CreditKeys(c)
    BY <1>2
  <2>2. CreditPosted(p, c)
    BY <2>1 DEF PostingsWhole, CreditsWhole
  <2>3. FaucetRef(c) \in References
    BY DEF References
  <2>4. k \in LedgerAccounts \X References
    <3>1. FaucetDebit(c) \in LedgerAccounts \X References
      BY <2>3, CreditRows DEF FaucetDebit
    <3>2. FaucetCredit(c) \in LedgerAccounts \X References
      BY <2>3, CreditRows DEF FaucetCredit
    <3> QED BY <2>1, <3>1, <3>2 DEF CreditKeys
  <2>5. p[k] = c.amount \/ p[k] = -c.amount
    BY <2>1, <2>2 DEF CreditPosted, CreditKeys
  <2>6. c.amount \in Int /\ -c.amount \in Int
    <3>1. \A n \in Int : -n \in Int
      OBVIOUS
    <3> QED BY <3>1, CreditRows
  <2> QED BY <2>4, <2>5, <2>6
<1> QED BY <1>1, <1>2 DEF PostingsWhole, NothingElse

\* The rows of a trade sum, in each account, to what it moves there.
LEMMA TradeSum ==
  ASSUME NEW p, NEW q, NEW t \in Trades, NEW a \in LedgerAccounts, IsFiniteSet(DOMAIN p),
         DOMAIN q = DOMAIN p \cup TradeKeys(t), TradeKeys(t) \cap DOMAIN p = {},
         \A k \in DOMAIN p : q[k] = p[k], \A k \in DOMAIN q : q[k] \in Int, TradePosted(q, t)
  PROVE  SumOf(q, a) = SumOf(p, a) + TradeDelta(t)[a]
<1>1. t.buyer # t.seller
  BY TradesAssumption
<1>2. Grown(p, q, TradeKeys(t))
  BY DEF Grown
<1>3. /\ BaseDebit(t)[1] = <<t.buyer, "base">> /\ BaseCredit(t)[1] = <<t.seller, "base">>
      /\ QuoteDebit(t)[1] = <<t.seller, "quote">> /\ QuoteCredit(t)[1] = <<t.buyer, "quote">>
  BY DEF BaseDebit, BaseCredit, QuoteDebit, QuoteCredit
<1>4. CASE a = <<t.buyer, "base">>
  <2>1. TradeDelta(t)[a] = t.qty
    BY <1>1, <1>4 DEF TradeDelta
  <2>2. BaseDebit(t) \in TradeKeys(t) /\ \A k \in TradeKeys(t) : k[1] = a => k = BaseDebit(t)
    BY <1>1, <1>3, <1>4 DEF TradeKeys
  <2>3. SumOf(q, a) = SumOf(p, a) + q[BaseDebit(t)]
    BY <1>2, <1>3, <1>4, <2>2, OneRowAdded
  <2> QED BY <2>1, <2>3 DEF TradePosted
<1>5. CASE a = <<t.seller, "base">>
  <2>1. TradeDelta(t)[a] = -t.qty
    BY <1>1, <1>5 DEF TradeDelta
  <2>2. BaseCredit(t) \in TradeKeys(t) /\ \A k \in TradeKeys(t) : k[1] = a => k = BaseCredit(t)
    BY <1>1, <1>3, <1>5 DEF TradeKeys
  <2>3. SumOf(q, a) = SumOf(p, a) + q[BaseCredit(t)]
    BY <1>2, <1>3, <1>5, <2>2, OneRowAdded
  <2> QED BY <2>1, <2>3 DEF TradePosted
<1>6. CASE a = <<t.seller, "quote">>
  <2>1. TradeDelta(t)[a] = Paid(t)
    BY <1>1, <1>6 DEF TradeDelta
  <2>2. QuoteDebit(t) \in TradeKeys(t) /\ \A k \in TradeKeys(t) : k[1] = a => k = QuoteDebit(t)
    BY <1>1, <1>3, <1>6 DEF TradeKeys
  <2>3. SumOf(q, a) = SumOf(p, a) + q[QuoteDebit(t)]
    BY <1>2, <1>3, <1>6, <2>2, OneRowAdded
  <2> QED BY <2>1, <2>3 DEF TradePosted
<1>7. CASE a = <<t.buyer, "quote">>
  <2>1. TradeDelta(t)[a] = -Paid(t)
    BY <1>1, <1>7 DEF TradeDelta
  <2>2. QuoteCredit(t) \in TradeKeys(t) /\ \A k \in TradeKeys(t) : k[1] = a => k = QuoteCredit(t)
    BY <1>1, <1>3, <1>7 DEF TradeKeys
  <2>3. SumOf(q, a) = SumOf(p, a) + q[QuoteCredit(t)]
    BY <1>2, <1>3, <1>7, <2>2, OneRowAdded
  <2> QED BY <2>1, <2>3 DEF TradePosted
<1>8. CASE /\ a # <<t.buyer, "base">> /\ a # <<t.seller, "base">>
           /\ a # <<t.seller, "quote">> /\ a # <<t.buyer, "quote">>
  <2>1. TradeDelta(t)[a] = 0
    BY <1>8 DEF TradeDelta
  <2>2. SumOf(q, a) = SumOf(p, a)
    <3>1. \A k \in TradeKeys(t) : k[1] # a
      BY <1>3, <1>8 DEF TradeKeys
    <3> QED BY <1>2, <3>1, NoRowAdded
  <2>3. SumOf(p, a) \in Int
    BY <1>2, OldRows
  <2> QED BY <2>1, <2>2, <2>3
<1> QED BY <1>4, <1>5, <1>6, <1>7, <1>8

\* The same of a credit.
LEMMA CreditSum ==
  ASSUME NEW p, NEW q, NEW c \in Credits, NEW a \in LedgerAccounts, IsFiniteSet(DOMAIN p),
         DOMAIN q = DOMAIN p \cup CreditKeys(c), CreditKeys(c) \cap DOMAIN p = {},
         \A k \in DOMAIN p : q[k] = p[k], \A k \in DOMAIN q : q[k] \in Int, CreditPosted(q, c)
  PROVE  SumOf(q, a) = SumOf(p, a) + CreditDelta(c)[a]
<1>1. c.account # Sink
  BY CreditsAssumption, SinkAssumption
<1>2. Grown(p, q, CreditKeys(c))
  BY DEF Grown
<1>3. FaucetDebit(c)[1] = <<c.account, c.asset>> /\ FaucetCredit(c)[1] = <<Sink, c.asset>>
  BY DEF FaucetDebit, FaucetCredit
<1>4. CASE a = <<c.account, c.asset>>
  <2>1. CreditDelta(c)[a] = c.amount
    BY <1>1, <1>4 DEF CreditDelta
  <2>2. FaucetDebit(c) \in CreditKeys(c) /\ \A k \in CreditKeys(c) : k[1] = a => k = FaucetDebit(c)
    BY <1>1, <1>3, <1>4 DEF CreditKeys
  <2>3. SumOf(q, a) = SumOf(p, a) + q[FaucetDebit(c)]
    BY <1>2, <1>3, <1>4, <2>2, OneRowAdded
  <2> QED BY <2>1, <2>3 DEF CreditPosted
<1>5. CASE a = <<Sink, c.asset>>
  <2>1. CreditDelta(c)[a] = -c.amount
    BY <1>1, <1>5 DEF CreditDelta
  <2>2. FaucetCredit(c) \in CreditKeys(c) /\ \A k \in CreditKeys(c) : k[1] = a => k = FaucetCredit(c)
    BY <1>1, <1>3, <1>5 DEF CreditKeys
  <2>3. SumOf(q, a) = SumOf(p, a) + q[FaucetCredit(c)]
    BY <1>2, <1>3, <1>5, <2>2, OneRowAdded
  <2> QED BY <2>1, <2>3 DEF CreditPosted
<1>6. CASE a # <<c.account, c.asset>> /\ a # <<Sink, c.asset>>
  <2>1. CreditDelta(c)[a] = 0
    BY <1>6 DEF CreditDelta
  <2>2. SumOf(q, a) = SumOf(p, a)
    <3>1. \A k \in CreditKeys(c) : k[1] # a
      BY <1>3, <1>6 DEF CreditKeys
    <3> QED BY <1>2, <3>1, NoRowAdded
  <2>3. SumOf(p, a) \in Int
    BY <1>2, OldRows
  <2> QED BY <2>1, <2>2, <2>3
<1> QED BY <1>4, <1>5, <1>6

LEMMA FewFinite ==
  ASSUME NEW a, NEW b, NEW c, NEW d
  PROVE  IsFiniteSet({a, b}) /\ IsFiniteSet({a, b, c, d})
<1>1. IsFiniteSet(({} \cup {a}) \cup {b})
  BY FS_EmptySet, FS_AddElement, Zenon
<1>2. IsFiniteSet(((({} \cup {a}) \cup {b}) \cup {c}) \cup {d})
  BY <1>1, FS_AddElement, Zenon
<1>3. /\ ({} \cup {a}) \cup {b} = {a, b}
      /\ ((({} \cup {a}) \cup {b}) \cup {c}) \cup {d} = {a, b, c, d}
  OBVIOUS
<1> QED BY <1>1, <1>2, <1>3

SumInv ==
  /\ IsFiniteSet(DOMAIN posted)
  /\ \A a \in LedgerAccounts : balance[a] = Opening[a] + SumOf(posted, a)

LEMMA SumInvInit == Init => SumInv
<1> SUFFICES ASSUME Init PROVE SumInv
  OBVIOUS
<1>1. DOMAIN posted = {} /\ IsFiniteSet(DOMAIN posted)
  BY FS_EmptySet DEF Init
<1>2. \A a \in LedgerAccounts : SumOf(posted, a) = 0
  <2>1. \A a : RowsOf(posted, a) = {}
    BY <1>1 DEF RowsOf
  <2>2. SumFunctionOnSet(posted, {}) = 0
    BY FS_EmptySet, SumRec
  <2> QED BY <2>1, <2>2 DEF SumOf
<1>3. \A a \in LedgerAccounts : balance[a] = Opening[a] /\ Opening[a] \in Int
  BY OpeningAssumption DEF Init
<1> QED BY <1>1, <1>2, <1>3 DEF SumInv

\* The sums that a transfer's rows make are what it moves.
LEMMA SumMoves ==
  ASSUME IInv, SumInv, IInv', NEW K, IsFiniteSet(K), DOMAIN posted' = DOMAIN posted \cup K,
         NEW delta \in [LedgerAccounts -> Int],
         \A a \in LedgerAccounts : SumOf(posted', a) = SumOf(posted, a) + delta[a],
         balance' = [a \in LedgerAccounts |-> balance[a] + delta[a]]
  PROVE  SumInv'
<1>1. IsFiniteSet(DOMAIN posted')
  BY FS_Union DEF SumInv
<1>2. ASSUME NEW a \in LedgerAccounts PROVE balance'[a] = Opening[a] + SumOf(posted', a)
  <2>1. balance[a] = Opening[a] + SumOf(posted, a) /\ Opening[a] \in Int /\ delta[a] \in Int
    BY OpeningAssumption DEF SumInv
  <2>2. SumOf(posted, a) \in Int
    <3>1. RowsOf(posted, a) \subseteq DOMAIN posted /\ \A k \in RowsOf(posted, a) : posted[k] \in Int
      BY PostingTypes DEF RowsOf, IInv
    <3>2. IsFiniteSet(RowsOf(posted, a))
      BY <3>1, FS_Subset DEF SumInv
    <3> QED BY <3>1, <3>2, SumType DEF SumOf
  <2>3. balance'[a] = balance[a] + delta[a] /\ SumOf(posted', a) = SumOf(posted, a) + delta[a]
    OBVIOUS
  <2> HIDE DEF SumInv
  <2> QED BY <2>1, <2>2, <2>3
<1> QED BY <1>1, <1>2 DEF SumInv

LEMMA SumInvStep == IInv /\ IInv' /\ SumInv /\ [Next]_vars => SumInv'
<1> SUFFICES ASSUME IInv, IInv', SumInv, [Next]_vars PROVE SumInv'
  OBVIOUS
<1>1. \A k \in DOMAIN posted' : posted'[k] \in Int
  <2>1. PostingsWhole(posted')
    BY DEF IInv
  <2> QED BY <2>1, PostingTypes
<1>2. ASSUME NEW t \in Trades, SettleTrade(t) PROVE SumInv'
  <2>1. /\ TradeKeys(t) \cap DOMAIN posted = {}
        /\ DOMAIN posted' = DOMAIN posted \cup TradeKeys(t)
        /\ \A k \in DOMAIN posted : posted'[k] = posted[k]
        /\ TradePosted(posted', t)
        /\ balance' = [a \in LedgerAccounts |-> balance[a] + TradeDelta(t)[a]]
    BY <1>2, SettleTradeEffect
  <2>2. IsFiniteSet(TradeKeys(t))
    BY FewFinite DEF TradeKeys
  <2>3. IsFiniteSet(DOMAIN posted)
    BY DEF SumInv
  <2>4. \A a \in LedgerAccounts : SumOf(posted', a) = SumOf(posted, a) + TradeDelta(t)[a]
    BY <1>1, <2>1, <2>3, TradeSum
  <2> QED BY <2>1, <2>2, <2>4, DeltaTypes, SumMoves
<1>3. ASSUME NEW c \in Credits, SettleFaucet(c) PROVE SumInv'
  <2>1. CASE posted' = posted /\ balance' = balance
    BY <2>1 DEF SumInv
  <2>2. CASE ~(posted' = posted /\ balance' = balance)
    <3>1. /\ CreditKeys(c) \cap DOMAIN posted = {}
          /\ DOMAIN posted' = DOMAIN posted \cup CreditKeys(c)
          /\ \A k \in DOMAIN posted : posted'[k] = posted[k]
          /\ CreditPosted(posted', c)
          /\ balance' = [a \in LedgerAccounts |-> balance[a] + CreditDelta(c)[a]]
      BY <1>3, <2>2, SettleFaucetEffect
    <3>2. IsFiniteSet(CreditKeys(c))
      BY FewFinite DEF CreditKeys
    <3>3. IsFiniteSet(DOMAIN posted)
      BY DEF SumInv
    <3>4. \A a \in LedgerAccounts : SumOf(posted', a) = SumOf(posted, a) + CreditDelta(c)[a]
      BY <1>1, <3>1, <3>3, CreditSum
    <3> QED BY <3>1, <3>2, <3>4, DeltaTypes, SumMoves
  <2> QED BY <2>1, <2>2
<1>4. CASE (~\E t \in Trades : SettleTrade(t)) /\ ~\E c \in Credits : SettleFaucet(c)
  <2>1. UNCHANGED <<balance, posted>>
    BY <1>4, HoldSteps
  <2> QED BY <2>1 DEF SumInv
<1> QED BY <1>2, <1>3, <1>4

\* Whatever is redelivered, and with any number of callers releasing holds, a
\* balance is what it was at first and the sum of the account's postings.
THEOREM BalancesAreSums == Spec => []BalanceIsPostings
<1>1. SumInv => BalanceIsPostings
  BY DEF SumInv, BalanceIsPostings, SumOf, RowsOf
<1> QED BY <1>1, SumInvInit, SumInvStep, WholeTransfers, PTL DEF Spec

-----------------------------------------------------------------------------
(* Reserves are sums of active holds, with one caller releasing. *)

\* The active holds of account a in table h, what they hold, and its sum.
ActiveOf(h, a) == {k \in DOMAIN h : k[1] = a /\ h[k].active}
Amounts(h) == [k \in DOMAIN h |-> h[k].amount]
HeldFor(h, a) == SumFunctionOnSet(Amounts(h), ActiveOf(h, a))

HoldsOK(h) ==
  /\ IsFiniteSet(DOMAIN h) /\ DOMAIN h \subseteq LedgerAccounts \X OrderIds
  /\ \A k \in DOMAIN h : h[k] \in [amount : Nat, active : BOOLEAN]

\* What a caller has read and will release is there and still active.
ReadsHold == \A c \in Callers : releasing[c] # NoRelease =>
               releasing[c] \subseteq {k \in DOMAIN hold : hold[k].active}

HoldInv ==
  /\ HoldsOK(hold)
  /\ releasing \in [Callers -> {NoRelease} \cup SUBSET (LedgerAccounts \X OrderIds)]
  /\ ReadsHold
  /\ reserved = [a \in LedgerAccounts |-> HeldFor(hold, a)]

LEMMA ActiveFinite ==
  ASSUME NEW h, HoldsOK(h), NEW a
  PROVE  /\ IsFiniteSet(ActiveOf(h, a)) /\ ActiveOf(h, a) \subseteq DOMAIN h
         /\ \A k \in DOMAIN h : Amounts(h)[k] \in Nat /\ Amounts(h)[k] = h[k].amount
         /\ HeldFor(h, a) \in Nat
<1>1. ActiveOf(h, a) \subseteq DOMAIN h /\ IsFiniteSet(DOMAIN h)
  BY DEF ActiveOf, HoldsOK
<1>2. IsFiniteSet(ActiveOf(h, a))
  BY <1>1, FS_Subset
<1>3. \A k \in DOMAIN h : Amounts(h)[k] \in Nat /\ Amounts(h)[k] = h[k].amount
  BY DEF Amounts, HoldsOK
<1>4. \A k \in ActiveOf(h, a) : Amounts(h)[k] \in Nat
  BY <1>1, <1>3
<1>5. HeldFor(h, a) \in Nat
  BY <1>2, <1>4, SumType DEF HeldFor
<1> QED BY <1>1, <1>2, <1>3, <1>5

\* A table with one more hold, and one with some released.
WithHold(h, x, m) == InsertNew(h, [k \in {x} |-> [amount |-> m, active |-> TRUE]])
Released(h, R) ==
  [k \in DOMAIN h |-> IF k \in R THEN [h[k] EXCEPT !.active = FALSE] ELSE h[k]]

\* A new hold adds its amount to its account and nothing to others.
LEMMA HoldAdded ==
  ASSUME NEW h, HoldsOK(h), NEW x \in LedgerAccounts \X OrderIds, x \notin DOMAIN h, NEW m \in Nat
  PROVE  /\ HoldsOK(WithHold(h, x, m))
         /\ DOMAIN WithHold(h, x, m) = DOMAIN h \cup {x}
         /\ \A k \in DOMAIN h : WithHold(h, x, m)[k] = h[k]
         /\ \A a : HeldFor(WithHold(h, x, m), a) =
                     IF a = x[1] THEN HeldFor(h, a) + m ELSE HeldFor(h, a)
<1> DEFINE g == WithHold(h, x, m)
<1>1. DOMAIN g = DOMAIN h \cup {x} /\ g[x] = [amount |-> m, active |-> TRUE]
      /\ \A k \in DOMAIN h : g[k] = h[k]
  BY DEF InsertNew, WithHold
<1> HIDE DEF g
<1>2. HoldsOK(g)
  <2>1. IsFiniteSet(DOMAIN h \cup {x})
    BY FS_AddElement DEF HoldsOK
  <2>2. \A k \in DOMAIN g : g[k] \in [amount : Nat, active : BOOLEAN]
    <3>1. g[x] \in [amount : Nat, active : BOOLEAN]
      BY <1>1
    <3>2. \A k \in DOMAIN h : g[k] \in [amount : Nat, active : BOOLEAN]
      BY <1>1 DEF HoldsOK
    <3> QED BY <1>1, <3>1, <3>2
  <2>3. DOMAIN g \subseteq LedgerAccounts \X OrderIds
    BY <1>1 DEF HoldsOK
  <2> QED BY <1>1, <2>1, <2>2, <2>3 DEF HoldsOK
<1>3. ASSUME NEW a
      PROVE  HeldFor(g, a) = IF a = x[1] THEN HeldFor(h, a) + m ELSE HeldFor(h, a)
  <2>1. SumFunctionOnSet(Amounts(g), ActiveOf(h, a)) = HeldFor(h, a)
    <3>1. \A k \in ActiveOf(h, a) : Amounts(g)[k] = Amounts(h)[k]
      BY <1>1 DEF ActiveOf, Amounts
    <3> QED BY <3>1, ActiveFinite, SumSame DEF HeldFor
  <2>2. CASE a = x[1]
    <3>1. ActiveOf(g, a) = ActiveOf(h, a) \cup {x} /\ x \notin ActiveOf(h, a)
      <4>1. g[x].active
        BY <1>1
      <4> QED BY <1>1, <2>2, <4>1 DEF ActiveOf
    <3>2. \A y \in ActiveOf(h, a) \cup {x} : Amounts(g)[y] \in Int
      BY <1>1, <1>2, ActiveFinite
    <3>3. SumFunctionOnSet(Amounts(g), ActiveOf(h, a) \cup {x})
            = Amounts(g)[x] + SumFunctionOnSet(Amounts(g), ActiveOf(h, a))
      BY <3>1, <3>2, ActiveFinite, SumAdd
    <3>4. Amounts(g)[x] = m /\ HeldFor(h, a) \in Nat
      BY <1>1, <1>2, ActiveFinite
    <3>5. HeldFor(g, a) = m + HeldFor(h, a)
      BY <2>1, <3>1, <3>3, <3>4 DEF HeldFor
    <3> QED BY <2>2, <3>4, <3>5
  <2>3. CASE a # x[1]
    <3>1. ActiveOf(g, a) = ActiveOf(h, a)
      BY <1>1, <2>3 DEF ActiveOf
    <3> QED BY <2>1, <2>3, <3>1 DEF HeldFor
  <2> QED BY <2>2, <2>3
<1> QED BY <1>1, <1>2, <1>3 DEF g

\* Holds that are released take their amounts off their accounts.
LEMMA HoldsReleased ==
  ASSUME NEW h, HoldsOK(h), NEW R, R \subseteq {k \in DOMAIN h : h[k].active}
  PROVE  /\ HoldsOK(Released(h, R))
         /\ \A a : HeldFor(Released(h, R), a) =
                     HeldFor(h, a) - SumFunctionOnSet(Amounts(h), {k \in R : k[1] = a})
<1> DEFINE g == Released(h, R)
<1>1. /\ DOMAIN g = DOMAIN h
      /\ \A k \in DOMAIN h : /\ g[k] \in [amount : Nat, active : BOOLEAN]
                             /\ g[k].amount = h[k].amount
                             /\ g[k].active <=> h[k].active /\ k \notin R
  BY DEF HoldsOK, Released
<1> HIDE DEF g
<1>2. HoldsOK(g)
  BY <1>1 DEF HoldsOK
<1>3. ASSUME NEW a
      PROVE  HeldFor(g, a) = HeldFor(h, a) - SumFunctionOnSet(Amounts(h), {k \in R : k[1] = a})
  <2> DEFINE Q == {k \in R : k[1] = a}
  <2>1. Q \in SUBSET ActiveOf(h, a) /\ ActiveOf(g, a) = ActiveOf(h, a) \ Q
    BY <1>1 DEF ActiveOf
  <2> HIDE DEF Q
  <2>2. Amounts(g) = Amounts(h)
    BY <1>1 DEF Amounts
  <2>3. IsFiniteSet(ActiveOf(h, a)) /\ \A k \in ActiveOf(h, a) : Amounts(h)[k] \in Int
    BY ActiveFinite
  <2>4. SumFunctionOnSet(Amounts(h), ActiveOf(h, a) \ Q)
          = SumFunctionOnSet(Amounts(h), ActiveOf(h, a)) - SumFunctionOnSet(Amounts(h), Q)
    BY <2>1, <2>3, SumPart
  <2>5. HeldFor(g, a) = HeldFor(h, a) - SumFunctionOnSet(Amounts(h), Q)
    BY <2>1, <2>2, <2>4 DEF HeldFor
  <2> QED BY <2>5 DEF Q
<1> QED BY <1>2, <1>3 DEF g

LEMMA HoldInvInit == Init => HoldInv
<1> SUFFICES ASSUME Init PROVE HoldInv
  OBVIOUS
<1>1. DOMAIN hold = {}
  BY DEF Init
<1>2. HoldsOK(hold)
  BY <1>1, FS_EmptySet DEF HoldsOK
<1>3. releasing = [c \in Callers |-> NoRelease]
  BY DEF Init
<1>4. \A a : HeldFor(hold, a) = 0
  <2>1. \A a : ActiveOf(hold, a) = {}
    BY <1>1 DEF ActiveOf
  <2>2. SumFunctionOnSet(Amounts(hold), {}) = 0
    BY FS_EmptySet, SumRec
  <2> QED BY <2>1, <2>2 DEF HeldFor
<1>5. reserved = [a \in LedgerAccounts |-> HeldFor(hold, a)]
  BY <1>4 DEF Init
<1> QED BY <1>2, <1>3, <1>5 DEF HoldInv, ReadsHold

LEMMA HoldKeys ==
  ASSUME NEW r \in Reservations
  PROVE  /\ HoldKey(r) \in LedgerAccounts \X OrderIds
         /\ HoldKey(r)[1] = <<r.account, r.asset>> /\ <<r.account, r.asset>> \in LedgerAccounts
         /\ r.amount \in Nat
BY ReservationsAssumption DEF HoldKey, OrderIds, LedgerAccounts

LEMMA HoldReserve ==
  ASSUME HoldInv, NEW r \in Reservations, Reserve(r)
  PROVE  HoldInv'
<1>1. releasing' = releasing
  BY DEF Reserve
<1>2. CASE r.amount = 0 \/ HoldKey(r) \in DOMAIN hold
  <2>1. hold' = hold /\ reserved' = reserved
    BY <1>2 DEF Reserve
  <2> QED BY <1>1, <2>1 DEF HoldInv, ReadsHold
<1>3. CASE ~(r.amount = 0 \/ HoldKey(r) \in DOMAIN hold)
  <2> DEFINE x == HoldKey(r)
             acct == <<r.account, r.asset>>
             m == r.amount
  <2>1. hold' = WithHold(hold, x, m) /\ reserved' = [reserved EXCEPT ![acct] = @ + m]
    BY <1>3 DEF Reserve, WithHold
  <2>2. /\ x \in LedgerAccounts \X OrderIds /\ x[1] = acct /\ acct \in LedgerAccounts /\ m \in Nat
        /\ x \notin DOMAIN hold /\ HoldsOK(hold)
    BY <1>3, HoldKeys DEF HoldInv
  <2> HIDE DEF x, acct, m
  <2>3. /\ HoldsOK(hold') /\ DOMAIN hold' = DOMAIN hold \cup {x}
        /\ \A k \in DOMAIN hold : hold'[k] = hold[k]
        /\ \A a : HeldFor(hold', a) = IF a = acct THEN HeldFor(hold, a) + m ELSE HeldFor(hold, a)
    BY <2>1, <2>2, HoldAdded
  <2>4. reserved' = [a \in LedgerAccounts |-> HeldFor(hold', a)]
    <3>1. reserved = [a \in LedgerAccounts |-> HeldFor(hold, a)]
      BY DEF HoldInv
    <3>2. reserved' = [a \in LedgerAccounts |-> IF a = acct THEN HeldFor(hold, a) + m
                                                ELSE HeldFor(hold, a)]
      BY <2>1, <2>2, <3>1
    <3> QED BY <2>3, <3>2
  <2>5. ReadsHold'
    BY <1>1, <2>3 DEF HoldInv, ReadsHold
  <2> QED BY <1>1, <2>3, <2>4, <2>5 DEF HoldInv
<1> QED BY <1>2, <1>3

LEMMA HoldRead ==
  ASSUME HoldInv, NEW c \in Callers, NEW o \in OrderIds, ReleaseRead(c, o)
  PROVE  HoldInv'
<1> DEFINE R == {k \in DOMAIN hold : k[2] = o /\ hold[k].active}
<1>1. hold' = hold /\ reserved' = reserved /\ releasing' = [releasing EXCEPT ![c] = R]
  BY DEF ReleaseRead
<1>2. R \in SUBSET (LedgerAccounts \X OrderIds) /\ R \subseteq {k \in DOMAIN hold : hold[k].active}
  BY DEF HoldInv, HoldsOK
<1> HIDE DEF R
<1>3. releasing' \in [Callers -> {NoRelease} \cup SUBSET (LedgerAccounts \X OrderIds)]
  BY <1>1, <1>2 DEF HoldInv
<1>4. ReadsHold'
  BY <1>1, <1>2 DEF HoldInv, ReadsHold
<1> QED BY <1>1, <1>3, <1>4 DEF HoldInv

LEMMA HoldWrite ==
  ASSUME \A c, d \in Callers : c = d, HoldInv, NEW c \in Callers, ReleaseWrite(c)
  PROVE  HoldInv'
<1> DEFINE R == releasing[c]
<1>1. /\ hold' = Released(hold, R)
      /\ reserved' = [a \in LedgerAccounts |->
                        reserved[a] - SumFunctionOnSet(Amounts(hold), {k \in R : k[1] = a})]
      /\ releasing' = [releasing EXCEPT ![c] = NoRelease]
  BY DEF ReleaseWrite, Released, Held, Amounts
<1>2. R \subseteq {k \in DOMAIN hold : hold[k].active} /\ HoldsOK(hold)
  BY DEF HoldInv, ReadsHold, ReleaseWrite
<1> HIDE DEF R
<1>3. /\ HoldsOK(hold')
      /\ \A a : HeldFor(hold', a) =
                  HeldFor(hold, a) - SumFunctionOnSet(Amounts(hold), {k \in R : k[1] = a})
  BY <1>1, <1>2, HoldsReleased
<1>4. reserved' = [a \in LedgerAccounts |-> HeldFor(hold', a)]
  <2>1. \A a \in LedgerAccounts : reserved[a] = HeldFor(hold, a)
    BY DEF HoldInv
  <2> QED BY <1>1, <1>3, <2>1
<1>5. /\ releasing' \in [Callers -> {NoRelease} \cup SUBSET (LedgerAccounts \X OrderIds)]
      /\ \A d \in Callers : releasing'[d] = NoRelease
  BY <1>1 DEF HoldInv
<1> QED BY <1>3, <1>4, <1>5 DEF HoldInv, ReadsHold

LEMMA HoldInvStep ==
  ASSUME \A c, d \in Callers : c = d, HoldInv, [Next]_vars
  PROVE  HoldInv'
<1>1. CASE \E r \in Reservations : Reserve(r)
  BY <1>1, HoldReserve
<1>2. CASE \E c \in Callers, o \in OrderIds : ReleaseRead(c, o)
  BY <1>2, HoldRead
<1>3. CASE \E c \in Callers : ReleaseWrite(c)
  BY <1>3, HoldWrite
<1>4. CASE UNCHANGED <<reserved, hold, releasing>>
  BY <1>4 DEF HoldInv, ReadsHold
<1> QED BY <1>1, <1>2, <1>3, <1>4 DEF Next, SettleTrade, SettleFaucet, vars

\* With at most one caller releasing, the reserves are what the active holds
\* hold; with two it fails, and a run shows how.
THEOREM AccountsAlwaysSums ==
  ASSUME \A c, d \in Callers : c = d
  PROVE  Spec => []AccountsAreSums
<1>1. HoldInv => ReservedIsHolds
  BY DEF HoldInv, ReservedIsHolds, HeldFor, ActiveOf, Amounts, Held
<1>2. HoldInv /\ [Next]_vars => HoldInv'
  BY HoldInvStep
<1> QED BY <1>1, <1>2, HoldInvInit, BalancesAreSums, PTL DEF Spec, AccountsAreSums

\* The tables have their shape, and no reserve is ever negative.
THEOREM LedgerTypeCorrect ==
  ASSUME \A c, d \in Callers : c = d
  PROVE  Spec => []TypeOK
<1>1. IInv /\ HoldInv => TypeOK
  <2> SUFFICES ASSUME IInv, HoldInv PROVE TypeOK
    OBVIOUS
  <2>1. DOMAIN posted \subseteq LedgerAccounts \X References /\ \A k \in DOMAIN posted : posted[k] \in Int
    BY PostingTypes DEF IInv
  <2>2. reserved \in [LedgerAccounts -> Nat]
    BY ActiveFinite DEF HoldInv
  <2>3. \A c \in Callers : releasing[c] = NoRelease \/ releasing[c] \subseteq DOMAIN hold
    BY DEF HoldInv, ReadsHold
  <2> QED BY <2>1, <2>2, <2>3 DEF TypeOK, IInv, HoldInv, HoldsOK
<1>2. HoldInv /\ [Next]_vars => HoldInv'
  BY HoldInvStep
<1> QED BY <1>1, <1>2, HoldInvInit, WholeTransfers, PTL DEF Spec

-----------------------------------------------------------------------------
(* Amounts, for every width and scale: an operation is exact or says so, and  *)
(* what an order's fills cost never exceeds what was reserved for it.         *)

\* The smallest amount is where the width ends.
LEMMA Bounds ==
  /\ MaxInt \in Nat /\ MinInt \in Int /\ Scale \in Nat
  /\ MinInt = -MaxInt - 1 /\ 1 < Scale /\ Scale <= MaxInt
BY MoneyAssumption DEF MinInt

\* Add: the sum, or an error if 64 bits cannot hold it; the comparison that
\* detects a wrapped sum misses none and suspects no other.
THEOREM AddExact ==
  ASSUME NEW a \in Amount, NEW b \in Amount
  PROVE  Add(a, b) = IF a + b \in Amount THEN Ok(a + b) ELSE Overflow
BY Bounds DEF Add, Wrap, Amount, MinInt

\* Sub, likewise. Order.Remaining, which ignores its error, is exact.
THEOREM SubExact ==
  ASSUME NEW a \in Amount, NEW b \in Amount
  PROVE  Sub(a, b) = IF a - b \in Amount THEN Ok(a - b) ELSE Overflow
BY Bounds DEF Sub, Wrap, Amount, MinInt

LEMMA Division ==
  ASSUME NEW n \in Nat, NEW d \in Nat, d > 0
  PROVE  /\ n \div d \in Nat
         /\ (n \div d) * d <= n
         /\ n < (n \div d + 1) * d
<1>1. n \div d \in Int /\ n % d \in 0..(d - 1) /\ n = d * (n \div d) + (n % d)
  BY SMT
<1> QED BY <1>1, SMT

LEMMA Monotone ==
  ASSUME NEW m \in Nat, NEW n \in Nat, NEW d \in Nat, m <= n
  PROVE  m * d <= n * d
<1>1. n = m + (n - m) /\ n - m \in Nat
  OBVIOUS
<1>2. n * d = m * d + (n - m) * d
  BY <1>1, SMT
<1>3. (n - m) * d \in Nat /\ m * d \in Nat
  BY <1>1, SMT
<1> QED BY <1>2, <1>3

\* A factor is beyond the quotient exactly if the product is beyond the dividend.
LEMMA Quotient ==
  ASSUME NEW m \in Nat, NEW n \in Nat, NEW d \in Nat, d > 0
  PROVE  m > n \div d <=> m * d > n
<1> DEFINE q == n \div d
<1>1. q \in Nat /\ q * d <= n /\ n < (q + 1) * d
  BY Division
<1>2. CASE m > q
  <2>1. (q + 1) * d <= m * d
    BY <1>1, <1>2, Monotone
  <2> QED BY <1>1, <1>2, <2>1
<1>3. CASE m <= q
  <2>1. m * d <= q * d
    BY <1>1, <1>3, Monotone
  <2> QED BY <1>1, <1>3, <2>1
<1> QED BY <1>1, <1>2, <1>3

LEMMA QuoMax == Quo(MaxInt, Scale) = MaxInt \div Scale
BY Bounds DEF Quo

LEMMA QuoMin == Quo(MinInt, Scale) = -((MaxInt + 1) \div Scale)
<1>1. -MinInt = MaxInt + 1 /\ ~(MinInt >= 0)
  BY Bounds
<1> QED BY <1>1 DEF Quo

\* FromInt: the units scaled, or an error if they cannot be.
THEOREM FromIntExact ==
  ASSUME NEW units \in Amount
  PROVE  FromInt(units) = IF units * Scale \in Amount THEN Ok(units * Scale) ELSE Overflow
<1>1. CASE units >= 0
  <2>1. units \in Nat
    BY <1>1, Bounds DEF Amount
  <2>2. units > Quo(MaxInt, Scale) <=> units * Scale > MaxInt
    BY <2>1, Bounds, QuoMax, Quotient
  <2>3. (MaxInt + 1) \div Scale \in Nat
    BY Bounds, Division
  <2>4. ~(units < Quo(MinInt, Scale))
    BY <2>1, <2>3, QuoMin
  <2>5. units * Scale \in Nat
    BY <2>1, Bounds, SMT
  <2>6. units * Scale \in Amount <=> ~(units * Scale > MaxInt)
    BY <2>5, Bounds DEF Amount
  <2> QED BY <2>2, <2>4, <2>6 DEF FromInt
<1>2. CASE units < 0
  <2>1. units \in Int /\ -units \in Nat
    BY <1>2, Bounds DEF Amount
  <2>2. (-units) * Scale \in Nat /\ units * Scale = -((-units) * Scale)
    BY <2>1, Bounds, SMT
  <2>3. -units > (MaxInt + 1) \div Scale <=> (-units) * Scale > MaxInt + 1
    BY <2>1, Bounds, Quotient
  <2>4. (MaxInt + 1) \div Scale \in Nat /\ MaxInt \div Scale \in Nat
    BY Bounds, Division
  <2>5. units < Quo(MinInt, Scale) <=> (-units) * Scale > MaxInt + 1
    BY <2>1, <2>3, <2>4, QuoMin
  <2>6. ~(units > Quo(MaxInt, Scale))
    BY <1>2, <2>1, <2>4, QuoMax
  <2>7. units * Scale \in Amount <=> ~((-units) * Scale > MaxInt + 1)
    BY <2>2, Bounds DEF Amount
  <2> QED BY <2>5, <2>6, <2>7 DEF FromInt
<1> QED BY <1>1, <1>2, Bounds DEF Amount

LEMMA ProductNat ==
  ASSUME NEW m \in Nat, NEW n \in Nat
  PROVE  m * n \in Nat
BY SMT

\* The amount of a product that is not an error is the quotient.
LEMMA NotionalIs ==
  ASSUME NEW price \in Nat, NEW qty \in Nat, ~Notional(price, qty).err
  PROVE  Notional(price, qty).amount = (price * qty) \div Scale
<1>1. price * qty \in Nat
  BY ProductNat
<1>2. Quo(price * qty, Scale) = (price * qty) \div Scale
  BY <1>1 DEF Quo
<1> QED BY <1>2 DEF Notional, Ok, Overflow

\* Notional rounds down, by less than the smallest unit, and fails only if the
\* rounded product is no amount.
THEOREM NotionalRounds ==
  ASSUME NEW price \in Nat, NEW qty \in Nat
  PROVE  /\ Notional(price, qty).err <=> price * qty >= (MaxInt + 1) * Scale
         /\ ~Notional(price, qty).err =>
              LET cost == Notional(price, qty).amount
              IN  cost * Scale <= price * qty /\ price * qty < (cost + 1) * Scale
<1> DEFINE n == price * qty
           q == n \div Scale
<1>1. n \in Nat
  BY ProductNat
<1>2. q \in Nat /\ q * Scale <= n /\ n < (q + 1) * Scale
  BY <1>1, Bounds, Division
<1>3. Quo(n, Scale) = q
  BY <1>1 DEF Quo
<1>4. Notional(price, qty).err <=> q > MaxInt
  BY <1>2, <1>3, Bounds DEF Notional, Ok, Overflow, Amount
<1>5. MaxInt + 1 > q <=> (MaxInt + 1) * Scale > n
  BY <1>1, Bounds, Quotient
<1>6. (MaxInt + 1) * Scale \in Nat
  BY Bounds, ProductNat
<1>7. Notional(price, qty).err <=> n >= (MaxInt + 1) * Scale
  BY <1>1, <1>2, <1>4, <1>5, <1>6, Bounds
<1> QED BY <1>2, <1>7, NotionalIs

\* What an order costs: two fills at its price or better cost no more, rounded
\* one by one, than the reserve that was rounded once for both.
THEOREM ReserveCoversFills ==
  ASSUME NEW limit \in Nat, NEW p \in Nat, NEW r \in Nat, p <= limit, r <= limit,
         NEW x \in Nat, NEW y \in Nat,
         ~Notional(limit, x + y).err, ~Notional(p, x).err, ~Notional(r, y).err
  PROVE  Notional(p, x).amount + Notional(r, y).amount <= Notional(limit, x + y).amount
<1> DEFINE a == (p * x) \div Scale
           b == (r * y) \div Scale
           c == (limit * (x + y)) \div Scale
<1>1. /\ p * x \in Nat /\ r * y \in Nat /\ limit * x \in Nat /\ limit * y \in Nat
      /\ limit * (x + y) \in Nat
  BY ProductNat
<1>2. /\ a \in Nat /\ a * Scale <= p * x
      /\ b \in Nat /\ b * Scale <= r * y
      /\ c \in Nat /\ limit * (x + y) < (c + 1) * Scale
  BY <1>1, Bounds, Division
<1>3. p * x <= limit * x /\ r * y <= limit * y
  BY Monotone
<1>4. limit * (x + y) = limit * x + limit * y
  BY SMT
<1>5. (a + b) * Scale = a * Scale + b * Scale
  BY <1>2, Bounds, SMT
<1>6. a * Scale \in Nat /\ b * Scale \in Nat /\ (c + 1) * Scale \in Nat
  BY <1>2, Bounds, ProductNat
<1>7. (a + b) * Scale < (c + 1) * Scale
  BY <1>1, <1>2, <1>3, <1>4, <1>5, <1>6
<1>8. ASSUME a + b > c PROVE FALSE
  <2>1. (c + 1) * Scale <= (a + b) * Scale
    BY <1>2, <1>8, Bounds, Monotone
  <2> QED BY <1>2, <1>6, <1>7, <2>1, <1>5
<1>9. a + b <= c
  BY <1>2, <1>8
<1> QED BY <1>9, NotionalIs

\* An amount that is printed reads back as itself, but for the least one.
THEOREM RoundTrip ==
  ASSUME NEW a \in Amount, a # MinInt
  PROVE  Parse(String(a)) = Ok(a)
<1> DEFINE v == IF a < 0 THEN -a ELSE a
           q == v \div Scale
           f == v - q * Scale
<1>1. a \in Int /\ v \in Nat /\ v <= MaxInt
  BY Bounds DEF Amount
<1>2. q \in Nat /\ q * Scale <= v /\ v < (q + 1) * Scale
  BY <1>1, Bounds, Division
<1>3. q * Scale \in Nat /\ (q + 1) * Scale = q * Scale + Scale
  BY <1>2, Bounds, SMT
<1>4. f \in Nat /\ f < Scale /\ q * Scale + f = v
  BY <1>1, <1>2, <1>3, Bounds
<1>5. String(a) = [neg |-> a < 0, int |-> q, frac |-> f]
  <2>1. (IF a < 0 THEN Neg(a) ELSE a) = v
    BY <1>1, Bounds DEF Neg, Wrap
  <2>2. Quo(v, Scale) = q
    BY <1>1 DEF Quo
  <2> QED BY <2>1, <2>2 DEF String
<1>6. ~(q > Quo(MaxInt, Scale))
  BY <1>1, <1>2, <1>3, Bounds, QuoMax, Quotient
<1>7. q <= MaxInt
  <2>1. q * 1 <= q * Scale
    BY <1>2, Bounds, SMT
  <2> QED BY <1>1, <1>2, <1>3, <2>1, Bounds
<1>8. Wrap(q * Scale + f) = v
  BY <1>1, <1>4, Bounds DEF Wrap
<1>9. ~(v < q * Scale)
  BY <1>1, <1>2, <1>3
<1>10. (IF a < 0 THEN Wrap(-v) ELSE v) = a
  BY <1>1, Bounds DEF Wrap
<1>11. /\ String(a).int = q /\ String(a).frac = f
       /\ String(a).neg <=> a < 0
  <2>1. CASE a < 0
    <3>1. String(a) = [neg |-> TRUE, int |-> q, frac |-> f]
      BY <1>5, <2>1
    <3> QED BY <2>1, <3>1
  <2>2. CASE ~(a < 0)
    <3>1. (a < 0) = FALSE
      BY <2>2
    <3>2. String(a) = [neg |-> FALSE, int |-> q, frac |-> f]
      <4> HIDE DEF q, f
      <4> QED BY <1>5, <3>1
    <3> QED BY <2>2, <3>2
  <2> QED BY <2>1, <2>2
<1> DEFINE d == String(a)
<1>12. Wrap(d.int * Scale + d.frac) = v /\ d.int * Scale \in Nat
  BY <1>3, <1>8, <1>11
<1>13. ~(d.int > MaxInt \/ d.int > Quo(MaxInt, Scale))
  BY <1>2, <1>6, <1>7, <1>11, Bounds
<1>14. ~(d.int * Scale > 0 /\ v < d.int * Scale)
  BY <1>9, <1>11
<1>15. Parse(d) = Ok(IF d.neg THEN Wrap(-v) ELSE v)
  BY <1>12, <1>13, <1>14 DEF Parse
<1>16. (IF d.neg THEN Wrap(-v) ELSE v) = a
  BY <1>10, <1>11
<1> QED BY <1>15, <1>16

-----------------------------------------------------------------------------
(* The audit trail of the postings (MerkleWindows), for any bounds: what   *)
(* the loop has left behind is in a root, late or in a gap, and periods    *)
(* only have postings in common when they begin together.                  *)
(*                                                                         *)
(* The argument: ticks ascend, so each period ends after all the saved     *)
(* ones and its row is new; it begins where the last successful one ended  *)
(* (at last), or at a restart, beyond all of them; and a period is read    *)
(* whole, but for the transactions then open (TrailInv's window parts).    *)

DatedPosting == [id : Nat, created : Nat, late : BOOLEAN]

TrailTypes ==
  /\ clock \in Nat /\ last \in Nat /\ ticked \in Nat /\ nextId \in Nat
  /\ running \in BOOLEAN
  /\ tx \in {NoTx} \cup [id : Nat, created : Nat]
  /\ postings \subseteq DatedPosting
  /\ window # NoWindow =>
       window.start \in Nat /\ window.end \in Nat /\ window.leaves \subseteq postings
  /\ \A r \in roots : r.start \in Nat /\ r.end \in Nat /\ r.leaves \subseteq postings
  /\ \A g \in gaps : g.from \in Nat /\ g.to \in Nat

\* The loop's times are in order, nothing is dated in the future, and a ledger that
\* does not run closes no period.
TimesInv ==
  /\ ~running => window = NoWindow
  /\ last <= ticked /\ ticked <= clock
  /\ tx # NoTx => tx.created <= clock
  /\ \A p \in postings : p.created <= clock

\* The period being closed begins at last, ends after all that is saved, and has
\* all its postings but late ones, and no others.
WindowInv ==
  window # NoWindow =>
    /\ window.start = last /\ last < window.end /\ window.end = ticked
    /\ \A r \in roots : r.end < window.end
    /\ \A p \in window.leaves : last <= p.created /\ p.created < window.end
    /\ \A p \in postings :
         last <= p.created /\ p.created < window.end => p \in window.leaves \/ p.late

\* A saved period has postings of its own dates only, and is over when the next one
\* begins, unless they begin together; then the longer has all the shorter has.
RootsInv ==
  /\ \A r \in roots :
       /\ r.end <= ticked /\ (r.end <= last \/ r.start = last)
       /\ \A p \in r.leaves : r.start <= p.created /\ p.created < r.end
  /\ \A r, s \in roots :
       r.end < s.end => r.end <= s.start \/ (r.start = s.start /\ r.leaves \subseteq s.leaves)
  /\ window # NoWindow => \A r \in roots : r.start = last => r.leaves \subseteq window.leaves

TrailInv == TrailTypes /\ TimesInv /\ WindowInv /\ RootsInv /\ MissedOnlyIfLate

\* The row of the period being closed.
NewRow ==
  [start |-> window.start, end |-> window.end, leaves |-> window.leaves,
   root |-> ComputeMerkleRoot(Leaves(window.leaves))]

LEMMA InitTrailInv == MerkleInit => TrailInv
BY DEF MerkleInit, TrailInv, TrailTypes, TimesInv, WindowInv, RootsInv, MissedOnlyIfLate

\* No row has the bounds of the period being closed, so the row is inserted.
LEMMA SavedIsNew ==
  ASSUME TrailInv, window # NoWindow
  PROVE  Saved = roots \cup {NewRow}
<1>1. \A r \in roots : r.end # window.end
  BY DEF TrailInv, TrailTypes, WindowInv
<1> QED BY <1>1 DEF Saved, NewRow

\* The postings grow by one that nothing has read.
LEMMA CommitKeepsTrail ==
  ASSUME TrailInv, CommitPosting
  PROVE  TrailInv'
<1> DEFINE q == [id |-> tx.id, created |-> tx.created, late |-> tx.created < ReadTo]
<1> USE DEF CommitPosting
<1>1. ReadTo \in Nat
  BY DEF ReadTo, TrailInv, TrailTypes
<1>2. q \in DatedPosting /\ postings' = postings \cup {q}
  BY <1>1 DEF TrailInv, TrailTypes, DatedPosting
<1>3. q.created = tx.created /\ (q.late <=> tx.created < ReadTo)
  OBVIOUS
<1> HIDE DEF q
<1>4. TrailTypes'
  BY <1>2 DEF TrailInv, TrailTypes
<1>5. TimesInv'
  BY <1>2, <1>3 DEF TrailInv, TrailTypes, TimesInv
<1>6. WindowInv'
  BY <1>2, <1>3 DEF TrailInv, TrailTypes, WindowInv, ReadTo
<1>7. RootsInv'
  BY <1>2 DEF TrailInv, RootsInv
<1>8. MissedOnlyIfLate'
  <2>1. ASSUME NEW p \in postings, p.created < last PROVE InRoot(p)' \/ p.late \/ InGap(p)'
    BY <2>1 DEF TrailInv, MissedOnlyIfLate, InRoot, InGap
  <2>2. q.created < last => q.late
    BY <1>2, <1>3 DEF TrailInv, TrailTypes, WindowInv, ReadTo, DatedPosting
  <2> QED BY <1>2, <2>1, <2>2 DEF MissedOnlyIfLate
<1> QED BY <1>4, <1>5, <1>6, <1>7, <1>8 DEF TrailInv

\* A tick: the period is read.
LEMMA TickKeepsTrail ==
  ASSUME TrailInv, NEW now \in 1..MaxClock, Tick(now)
  PROVE  TrailInv'
<1> USE DEF Tick
<1>1. /\ window'.start = last /\ window'.end = now
      /\ window'.leaves = {p \in postings : last <= p.created /\ p.created < now}
  BY DEF Period
<1>2. now \in Nat /\ last < now /\ ticked < now /\ now <= clock
  BY DEF TrailInv, TrailTypes, TimesInv
<1>3. TrailTypes'
  BY <1>1, <1>2 DEF TrailInv, TrailTypes
<1>4. TimesInv'
  BY <1>1, <1>2 DEF TrailInv, TrailTypes, TimesInv
<1>5. WindowInv'
  BY <1>1, <1>2 DEF TrailInv, TrailTypes, TimesInv, WindowInv, RootsInv
<1>6. RootsInv'
  <2>1. ASSUME NEW r \in roots, r.start = last PROVE r.leaves \subseteq window'.leaves
    <3>1. r.end < now /\ r.end \in Nat /\ r.leaves \subseteq postings
      BY <1>2 DEF TrailInv, TrailTypes, RootsInv
    <3>2. \A p \in r.leaves : last <= p.created /\ p.created < r.end /\ p.created \in Nat
      BY <2>1, <3>1 DEF TrailInv, TrailTypes, RootsInv, DatedPosting
    <3> QED BY <1>1, <1>2, <3>1, <3>2
  <2>2. \A r \in roots :
          /\ r.end <= now /\ (r.end <= last \/ r.start = last)
          /\ \A p \in r.leaves : r.start <= p.created /\ p.created < r.end
    BY <1>2 DEF TrailInv, TrailTypes, RootsInv
  <2> QED BY <2>1, <2>2 DEF TrailInv, RootsInv
<1>7. MissedOnlyIfLate'
  BY DEF TrailInv, MissedOnlyIfLate, InRoot, InGap
<1> QED BY <1>3, <1>4, <1>5, <1>6, <1>7 DEF TrailInv

\* What a new row means for the rows, wherever last is afterwards.
LEMMA NewRowFits ==
  ASSUME TrailInv, window # NoWindow
  PROVE  /\ NewRow.start \in Nat /\ NewRow.end \in Nat /\ NewRow.leaves \subseteq postings
         /\ NewRow.start = last /\ NewRow.end = ticked /\ NewRow.leaves = window.leaves
         /\ \A p \in NewRow.leaves : NewRow.start <= p.created /\ p.created < NewRow.end
         /\ \A r \in roots :
              /\ r.end < NewRow.end
              /\ r.end <= NewRow.start \/ (r.start = NewRow.start /\ r.leaves \subseteq NewRow.leaves)
<1>1. /\ NewRow.start = window.start /\ NewRow.end = window.end
      /\ NewRow.leaves = window.leaves
  BY DEF NewRow
<1> QED BY <1>1 DEF TrailInv, TrailTypes, WindowInv, RootsInv

\* The rows with the new one keep their order among each other.
LEMMA RowsInOrder ==
  ASSUME TrailInv, window # NoWindow,
         NEW r \in roots \cup {NewRow}, NEW s \in roots \cup {NewRow}, r.end < s.end
  PROVE  r.end <= s.start \/ (r.start = s.start /\ r.leaves \subseteq s.leaves)
<1>1. CASE r \in roots /\ s \in roots
  BY <1>1 DEF TrailInv, RootsInv
<1>2. CASE r \in roots /\ s = NewRow
  BY <1>2, NewRowFits
<1>3. CASE r = NewRow
  <2>1. s.end <= r.end /\ s.end \in Nat /\ r.end \in Nat
    BY <1>3, NewRowFits DEF TrailInv, TrailTypes
  <2> QED BY <2>1
<1> QED BY <1>1, <1>2, <1>3

LEMMA SaveKeepsTrail ==
  ASSUME TrailInv, SaveRoot
  PROVE  TrailInv'
<1> USE DEF SaveRoot
<1>1. roots' = roots \cup {NewRow}
  BY SavedIsNew
<1>2. last' = ticked /\ last < ticked
  BY DEF TrailInv, TrailTypes, WindowInv
<1>3. TrailTypes'
  BY <1>1, <1>2, NewRowFits DEF TrailInv, TrailTypes
<1>4. TimesInv'
  BY <1>2 DEF TrailInv, TrailTypes, TimesInv
<1>5. WindowInv'
  BY DEF WindowInv
<1>6. RootsInv'
  <2>1. \A r \in roots' :
          /\ r.end <= ticked
          /\ \A p \in r.leaves : r.start <= p.created /\ p.created < r.end
    BY <1>1, NewRowFits DEF TrailInv, TrailTypes, RootsInv
  <2>2. \A r, s \in roots' :
          r.end < s.end => r.end <= s.start \/ (r.start = s.start /\ r.leaves \subseteq s.leaves)
    BY <1>1, RowsInOrder
  <2> QED BY <1>2, <2>1, <2>2 DEF RootsInv
<1>7. MissedOnlyIfLate'
  <2>1. ASSUME NEW p \in postings, p.created < ticked PROVE InRoot(p)' \/ p.late \/ InGap(p)'
    <3>1. CASE p.created < last
      BY <1>1, <3>1 DEF TrailInv, MissedOnlyIfLate, InRoot, InGap
    <3>2. CASE ~(p.created < last)
      <4>1. p \in window.leaves \/ p.late
        BY <2>1, <3>2 DEF TrailInv, TrailTypes, WindowInv, DatedPosting
      <4> QED BY <1>1, <4>1, NewRowFits DEF InRoot
    <3> QED BY <3>1, <3>2
  <2> QED BY <1>2, <2>1 DEF MissedOnlyIfLate
<1> QED BY <1>3, <1>4, <1>5, <1>6, <1>7 DEF TrailInv

LEMMA FailedSaveKeepsTrail ==
  ASSUME TrailInv, NEW effective \in BOOLEAN, SaveFails(effective)
  PROVE  TrailInv'
<1> USE DEF SaveFails
<1>1. roots' \subseteq roots \cup {NewRow} /\ roots \subseteq roots'
  BY SavedIsNew
<1>2. TrailTypes'
  BY <1>1, NewRowFits DEF TrailInv, TrailTypes
<1>3. TimesInv'
  BY DEF TrailInv, TimesInv
<1>4. WindowInv'
  BY DEF WindowInv
<1>5. RootsInv'
  <2>1. \A r \in roots' :
          /\ r.end <= ticked /\ (r.end <= last \/ r.start = last)
          /\ \A p \in r.leaves : r.start <= p.created /\ p.created < r.end
    BY <1>1, NewRowFits DEF TrailInv, TrailTypes, RootsInv
  <2>2. \A r, s \in roots' :
          r.end < s.end => r.end <= s.start \/ (r.start = s.start /\ r.leaves \subseteq s.leaves)
    BY <1>1, RowsInOrder
  <2> QED BY <2>1, <2>2 DEF RootsInv
<1>6. MissedOnlyIfLate'
  BY <1>1 DEF TrailInv, MissedOnlyIfLate, InRoot, InGap
<1> QED BY <1>2, <1>3, <1>4, <1>5, <1>6 DEF TrailInv

\* A restart: the loop begins anew, beyond everything saved and dated.
LEMMA StartKeepsTrail ==
  ASSUME TrailInv, Start
  PROVE  TrailInv'
<1> USE DEF Start
<1>1. clock \in Nat /\ last <= clock /\ ticked <= clock
  BY DEF TrailInv, TrailTypes, TimesInv
<1>2. TrailTypes'
  BY <1>1 DEF TrailInv, TrailTypes
<1>3. TimesInv'
  BY <1>1 DEF TrailInv, TimesInv
<1>4. WindowInv'
  BY DEF WindowInv, TrailInv, TimesInv
<1>5. RootsInv'
  BY <1>1 DEF TrailInv, TrailTypes, TimesInv, RootsInv
<1>6. MissedOnlyIfLate'
  <2> DEFINE g == [from |-> last, to |-> clock]
  <2>1. g \in gaps' /\ gaps \subseteq gaps' /\ g.from = last /\ g.to = clock
    OBVIOUS
  <2> HIDE DEF g
  <2>2. ASSUME NEW p \in postings, p.created < clock PROVE InRoot(p)' \/ p.late \/ InGap(p)'
    <3>1. CASE p.created < last
      BY <2>1, <3>1 DEF TrailInv, MissedOnlyIfLate, InRoot, InGap
    <3>2. CASE last <= p.created
      BY <2>1, <2>2, <3>2 DEF InGap
    <3>3. p.created < last \/ last <= p.created
      BY DEF TrailInv, TrailTypes, DatedPosting
    <3> QED BY <3>1, <3>2, <3>3
  <2> QED BY <2>2 DEF MissedOnlyIfLate
<1> QED BY <1>2, <1>3, <1>4, <1>5, <1>6 DEF TrailInv

\* The steps that leave the trail alone.
LEMMA OthersKeepTrail ==
  ASSUME TrailInv,
         BeginPosting \/ RollbackPosting \/ Stop \/ Advance \/ UNCHANGED merkleVars
  PROVE  TrailInv'
<1> USE DEF TrailInv, TrailTypes, TimesInv, WindowInv, RootsInv, MissedOnlyIfLate, InRoot, InGap
<1>1. CASE BeginPosting
  BY <1>1 DEF BeginPosting
<1>2. CASE RollbackPosting
  BY <1>2 DEF RollbackPosting
<1>3. CASE Stop
  BY <1>3 DEF Stop
<1>4. CASE Advance
  <2>1. clock' \in Nat /\ clock < clock'
    BY <1>4 DEF Advance
  <2>2. TrailTypes' /\ WindowInv' /\ RootsInv' /\ MissedOnlyIfLate'
    BY <1>4, <2>1 DEF Advance
  <2>3. TimesInv'
    BY <1>4, <2>1 DEF Advance, DatedPosting
  <2> QED BY <2>2, <2>3
<1>5. CASE UNCHANGED merkleVars
  BY <1>5 DEF merkleVars
<1> QED BY <1>1, <1>2, <1>3, <1>4, <1>5

LEMMA TrailInvAlways == MerkleSpec => []TrailInv
<1>1. TrailInv /\ [MerkleNext]_merkleVars => TrailInv'
  BY CommitKeepsTrail, TickKeepsTrail, SaveKeepsTrail, FailedSaveKeepsTrail, StartKeepsTrail, OthersKeepTrail DEF MerkleNext
<1> QED BY InitTrailInv, <1>1, PTL DEF MerkleSpec

\* MissedOnlyIfLate, of merkleLoop and BuildAndSaveMerkleRoot, for any number of
\* postings, failures and restarts: what the loop has passed is in a root, or was
\* in an open transaction when its period was read, or dates from a restart.
THEOREM NothingElseMissed == MerkleSpec => []MissedOnlyIfLate
<1>1. TrailInv => MissedOnlyIfLate
  BY DEF TrailInv
<1> QED BY TrailInvAlways, <1>1, PTL

\* CountedOnce, of the same loop: only periods that begin together, which a save
\* that reported an error leaves, have postings in common.
THEOREM PostingsCountedOnce == MerkleSpec => []CountedOnce
<1>1. TrailInv => CountedOnce
  <2> SUFFICES ASSUME TrailInv, NEW r \in roots, NEW s \in roots,
                      NEW p \in r.leaves \cap s.leaves, r.end < s.end
               PROVE  r.start = s.start /\ r.leaves \subseteq s.leaves
    BY DEF CountedOnce
  <2>1. p.created < r.end /\ s.start <= p.created /\ p.created \in Nat
    BY DEF TrailInv, TrailTypes, RootsInv, DatedPosting
  <2>2. ~(r.end <= s.start)
    BY <2>1 DEF TrailInv, TrailTypes
  <2> QED BY <2>2 DEF TrailInv, RootsInv
<1> QED BY TrailInvAlways, <1>1, PTL

-----------------------------------------------------------------------------
(***************************************************************************)
(* A root proves its leaves. Levels with more than one hash can be undone  *)
(* (LevelUndone): no hash is twice in a level, so that one combined with   *)
(* itself tells that the level was odd. Two trees with one root are        *)
(* therefore the same from the top to the leaves of the lower one, and     *)
(* there the other has its leaves too, since a leaf is not the hash of two *)
(* hashes.                                                                 *)
(***************************************************************************)

Apart(h) == \A i, j \in DOMAIN h : h[i] = h[j] => i = j
Hashes(h) == h \in Seq(Range(h)) /\ h # <<>> /\ Apart(h)

LEMMA SomeHashes ==
  ASSUME NEW h, Hashes(h)
  PROVE  Len(h) \in Nat /\ Len(h) >= 1 /\ DOMAIN h = 1..Len(h)
BY DEF Hashes

\* The partner of the hash that an element of the next level begins with.
Second(h, i) == IF 2 * i > Len(h) THEN h[2 * i - 1] ELSE h[2 * i]

LEMMA LevelIs ==
  ASSUME NEW h, Hashes(h), Len(h) > 1
  PROVE  /\ Len(h) \in Nat /\ DOMAIN h = 1..Len(h)
         /\ Len(Level(h)) = (Len(h) + 1) \div 2
         /\ DOMAIN Level(h) = 1..((Len(h) + 1) \div 2)
         /\ \A i \in DOMAIN Level(h) : Level(h)[i] = <<h[2 * i - 1], Second(h, i)>>
         /\ Level(h) \in Seq(Range(Level(h)))
<1> DEFINE m == (Len(h) + 1) \div 2
           f == [i \in 1..m |-> <<h[2 * i - 1], Second(h, i)>>]
<1>1. Len(h) \in Nat /\ DOMAIN h = 1..Len(h)
  BY DEF Hashes
<1>2. Level(h) = f
  BY <1>1 DEF Level, Second
<1>3. m \in Nat
  BY <1>1
<1> HIDE DEF m
<1>4. f \in Seq(Range(f))
  <2>1. \A i \in 1..m : f[i] \in Range(f)
    BY DEF Range
  <2>2. f \in [1..m -> Range(f)]
    BY <2>1
  <2> QED BY <1>3, <2>2
<1>5. Len(f) = m /\ DOMAIN f = 1..m
  BY <1>3
<1>6. \A i \in 1..m : f[i] = <<h[2 * i - 1], Second(h, i)>>
  OBVIOUS
<1> HIDE DEF f
<1> QED BY <1>1, <1>2, <1>4, <1>5, <1>6 DEF m

\* The numbers of a level's hashes and of the next one's.
LEMMA Halves ==
  ASSUME NEW n \in Nat, n > 1
  PROVE  /\ (n + 1) \div 2 \in Nat /\ (n + 1) \div 2 >= 1 /\ (n + 1) \div 2 < n
         /\ \A i \in 1..((n + 1) \div 2) : 2 * i - 1 \in 1..n /\ (~(2 * i > n) => 2 * i \in 1..n)
         /\ \A i \in Nat : 2 * i > n /\ i <= (n + 1) \div 2 => i = (n + 1) \div 2 /\ n = 2 * i - 1
OBVIOUS

LEMMA LevelApart ==
  ASSUME NEW h, Hashes(h), Len(h) > 1
  PROVE  Hashes(Level(h)) /\ Len(Level(h)) < Len(h)
<1> DEFINE m == (Len(h) + 1) \div 2
           g == Level(h)
<1>1. /\ Len(h) \in Nat /\ DOMAIN h = 1..Len(h)
      /\ Len(g) = m /\ DOMAIN g = 1..m /\ g \in Seq(Range(g))
      /\ \A i \in DOMAIN g : g[i] = <<h[2 * i - 1], Second(h, i)>>
  BY LevelIs
<1>2. m \in Nat /\ m >= 1 /\ m < Len(h) /\ \A i \in 1..m : 2 * i - 1 \in 1..Len(h)
  BY <1>1, Halves
<1> HIDE DEF m, g
<1>3. ASSUME NEW i \in DOMAIN g, NEW j \in DOMAIN g, g[i] = g[j] PROVE i = j
  <2>1. h[2 * i - 1] = h[2 * j - 1]
    BY <1>1, <1>3
  <2>2. 2 * i - 1 = 2 * j - 1
    BY <1>1, <1>2, <2>1 DEF Hashes, Apart
  <2> QED BY <1>1, <1>2, <2>2
<1>4. g # <<>>
  BY <1>1, <1>2
<1> QED BY <1>1, <1>2, <1>3, <1>4 DEF Hashes, Apart, g

\* No two levels have one level above them.
LEMMA LevelUndone ==
  ASSUME NEW h, NEW k, Hashes(h), Hashes(k), Len(h) > 1, Len(k) > 1, Level(h) = Level(k)
  PROVE  h = k
<1> DEFINE m == (Len(h) + 1) \div 2
           g == Level(h)
<1>1. /\ Len(h) \in Nat /\ DOMAIN h = 1..Len(h)
      /\ DOMAIN g = 1..m /\ Len(g) = m
      /\ \A i \in DOMAIN g : g[i] = <<h[2 * i - 1], Second(h, i)>>
  BY LevelIs
<1>2. /\ Len(k) \in Nat /\ DOMAIN k = 1..Len(k)
      /\ Len(g) = (Len(k) + 1) \div 2
      /\ \A i \in DOMAIN g : g[i] = <<k[2 * i - 1], Second(k, i)>>
  BY LevelIs
<1>3. m \in Nat /\ m = (Len(k) + 1) \div 2
  BY <1>1, <1>2
<1> HIDE DEF g
<1>4. ASSUME NEW i \in 1..m
      PROVE  h[2 * i - 1] = k[2 * i - 1] /\ Second(h, i) = Second(k, i)
  BY <1>1, <1>2
<1>5. Len(h) = Len(k)
  <2>1. ASSUME NEW a, NEW b, Hashes(a), Hashes(b), Len(a) \in Nat, Len(b) \in Nat,
               m = (Len(a) + 1) \div 2, m = (Len(b) + 1) \div 2,
               \A i \in 1..m : a[2 * i - 1] = b[2 * i - 1] /\ Second(a, i) = Second(b, i),
               Len(a) < Len(b), Len(a) > 1
        PROVE  FALSE
    <3> HIDE DEF m
    <3>1. m \in 1..m /\ Len(a) = 2 * m - 1 /\ Len(b) = 2 * m
      <4>1. \A x, y \in Nat : m = (x + 1) \div 2 /\ m = (y + 1) \div 2 /\ x < y /\ x > 1
                             => m \in 1..m /\ x = 2 * m - 1 /\ y = 2 * m
        BY <1>3
      <4> QED BY <2>1, <4>1
    <3>2. Second(a, m) = a[2 * m - 1] /\ Second(b, m) = b[2 * m]
      BY <2>1, <3>1 DEF Second
    <3>3. b[2 * m - 1] = b[2 * m]
      BY <2>1, <3>1, <3>2
    <3>4. DOMAIN b = 1..Len(b)
      BY <2>1 DEF Hashes
    <3>5. 2 * m - 1 \in DOMAIN b /\ 2 * m \in DOMAIN b
      <4>1. m \in Nat /\ m >= 1 /\ DOMAIN b = 1..(2 * m)
        BY <1>3, <3>1, <3>4
      <4>2. 2 * m - 1 \in 1..(2 * m) /\ 2 * m \in 1..(2 * m)
        BY <4>1
      <4> QED BY <4>1, <4>2
    <3>6. 2 * m - 1 = 2 * m
      BY <2>1, <3>3, <3>5 DEF Hashes, Apart
    <3> QED BY <1>3, <3>6
  <2>2. ~(Len(h) < Len(k))
    BY <1>1, <1>2, <1>3, <1>4, <2>1
  <2>3. ~(Len(k) < Len(h))
    BY <1>1, <1>2, <1>3, <1>4, <2>1
  <2>4. Len(h) \in Nat /\ Len(k) \in Nat
    BY <1>1, <1>2
  <2> HIDE DEF m
  <2> QED BY <2>2, <2>3, <2>4
<1>6. ASSUME NEW j \in 1..Len(h) PROVE h[j] = k[j]
  <2>1. CASE j % 2 = 1
    <3> DEFINE i == (j + 1) \div 2
    <3>1. i \in 1..m /\ 2 * i - 1 = j
      BY <1>1, <2>1
    <3> HIDE DEF i
    <3> QED BY <1>4, <3>1
  <2>2. CASE j % 2 = 0
    <3> DEFINE i == j \div 2
    <3>1. i \in 1..m /\ 2 * i = j
      BY <1>1, <2>2
    <3> HIDE DEF i
    <3>2. Second(h, i) = h[j] /\ Second(k, i) = k[j]
      BY <1>1, <1>5, <3>1 DEF Second
    <3> QED BY <1>4, <3>1, <3>2
  <2> QED BY <1>1, <2>1, <2>2
<1>7. h = [j \in 1..Len(h) |-> h[j]] /\ k = [j \in 1..Len(k) |-> k[j]]
  BY <1>1, <1>2 DEF Hashes
<1> QED BY <1>5, <1>6, <1>7

(* The levels. Levels is a recursive function: that one exists is shown by *)
(* a least number of levels of which there is none.                        *)

Bottom(leaves) == [i \in DOMAIN leaves |-> <<leaves[i]>>]
LevelsTo(f, leaves, k) ==
  f = [n \in 0..k |-> IF n = 0 THEN Bottom(leaves) ELSE Level(f[n - 1])]

LEMMA LevelsExist ==
  ASSUME NEW leaves, NEW k \in Nat
  PROVE  \E f : LevelsTo(f, leaves, k)
<1> DEFINE B == {n \in Nat : ~\E f : LevelsTo(f, leaves, n)}
<1> SUFFICES ASSUME k \in B PROVE FALSE
  OBVIOUS
<1>1. PICK n \in B : \A m \in B : ~(m < n)
  <2>1. B \in SUBSET Nat /\ B # {}
    OBVIOUS
  <2> HIDE DEF B
  <2> QED BY <2>1, LeastOfNat
<1>2. n \in Nat /\ ~\E f : LevelsTo(f, leaves, n)
  BY <1>1
<1>3. CASE n = 0
  <2> DEFINE f == [m \in 0..0 |-> Bottom(leaves)]
  <2>1. f = [m \in 0..0 |-> IF m = 0 THEN Bottom(leaves) ELSE Level(f[m - 1])]
    OBVIOUS
  <2> QED BY <1>2, <1>3, <2>1 DEF LevelsTo
<1>4. CASE n > 0
  <2>1. PICK g : LevelsTo(g, leaves, n - 1)
    BY <1>1, <1>2, <1>4
  <2> DEFINE f == [m \in 0..n |-> IF m = n THEN Level(g[n - 1]) ELSE g[m]]
  <2>2. \A m \in 0..(n - 1) : g[m] = IF m = 0 THEN Bottom(leaves) ELSE Level(g[m - 1])
    BY <1>2, <1>4, <2>1 DEF LevelsTo
  <2>3. f[n] = Level(g[n - 1]) /\ \A m \in 0..(n - 1) : f[m] = g[m]
    BY <1>2, <1>4
  <2>4. f = [m \in 0..n |-> f[m]]
    OBVIOUS
  <2> HIDE DEF f
  <2>5. ASSUME NEW m \in 0..n PROVE f[m] = IF m = 0 THEN Bottom(leaves) ELSE Level(f[m - 1])
    <3>1. CASE m = n
      <4>1. m # 0 /\ m - 1 = n - 1 /\ n - 1 \in 0..(n - 1)
        BY <1>2, <1>4, <3>1
      <4> QED BY <2>3, <3>1, <4>1
    <3>2. CASE m = 0
      BY <1>2, <1>4, <2>2, <2>3, <3>2
    <3>3. CASE m # n /\ m # 0
      <4>1. m \in 0..(n - 1) /\ m - 1 \in 0..(n - 1)
        BY <1>2, <3>3
      <4> QED BY <2>2, <2>3, <3>3, <4>1
    <3> QED BY <3>1, <3>2, <3>3
  <2>6. LevelsTo(f, leaves, n)
    BY <2>4, <2>5 DEF LevelsTo
  <2> QED BY <1>2, <2>6
<1> QED BY <1>2, <1>3, <1>4

LEMMA LevelsAre ==
  ASSUME NEW leaves, Len(leaves) \in Nat
  PROVE  /\ Levels(leaves)[0] = Bottom(leaves)
         /\ \A n \in 1..Len(leaves) : Levels(leaves)[n] = Level(Levels(leaves)[n - 1])
<1> DEFINE f == Levels(leaves)
<1>1. f = CHOOSE g : LevelsTo(g, leaves, Len(leaves))
  BY DEF Levels, LevelsTo, Bottom
<1>2. LevelsTo(f, leaves, Len(leaves))
  BY <1>1, LevelsExist
<1> HIDE DEF f
<1>3. \A n \in 0..Len(leaves) : f[n] = IF n = 0 THEN Bottom(leaves) ELSE Level(f[n - 1])
  BY <1>2 DEF LevelsTo
<1>4. f[0] = Bottom(leaves)
  BY <1>3
<1>5. ASSUME NEW n \in 1..Len(leaves) PROVE f[n] = Level(f[n - 1])
  <2>1. n \in 0..Len(leaves) /\ n # 0
    OBVIOUS
  <2> QED BY <1>3, <2>1
<1> QED BY <1>4, <1>5 DEF f

\* The levels up to the first with one hash, which is the root.
Tree(leaves, d) ==
  LET t == Levels(leaves)
  IN /\ d \in 0..Len(leaves)
     /\ t[0] = Bottom(leaves)
     /\ \A n \in 0..d : Hashes(t[n])
     /\ \A n \in 1..d : Len(t[n - 1]) > 1 /\ t[n] = Level(t[n - 1])
     /\ Len(t[d]) = 1 /\ t[d][1] = ComputeMerkleRoot(leaves)

LEMMA TreeExists ==
  ASSUME NEW leaves, Hashes(leaves)
  PROVE  \E d : Tree(leaves, d)
<1> DEFINE t == Levels(leaves)
           N == Len(leaves)
<1>1. N \in Nat /\ N >= 1 /\ DOMAIN leaves = 1..N
  BY DEF Hashes
<1>2. t[0] = Bottom(leaves) /\ \A n \in 1..N : t[n] = Level(t[n - 1])
  BY <1>1, LevelsAre
<1>3. Hashes(t[0]) /\ Len(t[0]) = N
  <2> DEFINE b == Bottom(leaves)
  <2>1. b = [i \in 1..N |-> <<leaves[i]>>]
    BY <1>1 DEF Bottom
  <2> HIDE DEF b, N
  <2>2. DOMAIN b = 1..N /\ \A i \in 1..N : b[i] = <<leaves[i]>>
    BY <2>1
  <2>3. b \in Seq(Range(b)) /\ Len(b) = N
    <3>1. \A i \in 1..N : b[i] \in Range(b)
      BY <2>2 DEF Range
    <3>2. b \in [1..N -> Range(b)]
      BY <2>1, <2>2, <3>1
    <3> QED BY <1>1, <3>2
  <2>4. Apart(b)
    <3> SUFFICES ASSUME NEW i \in 1..N, NEW j \in 1..N, b[i] = b[j] PROVE i = j
      BY <2>2 DEF Apart
    <3>1. leaves[i] = leaves[j]
      BY <2>2
    <3> QED BY <1>1, <3>1 DEF Hashes, Apart
  <2>5. b # <<>>
    BY <1>1, <2>3
  <2> QED BY <1>2, <2>3, <2>4, <2>5 DEF Hashes, b
<1> HIDE DEF t, N
<1>4. \A n \in 0..N : Hashes(t[n]) /\ (Len(t[n]) = 1 \/ Len(t[n]) + n <= N)
  <2> DEFINE Good(n) == Hashes(t[n]) /\ (Len(t[n]) = 1 \/ Len(t[n]) + n <= N)
             B == {n \in 0..N : ~Good(n)}
  <2> SUFFICES ASSUME B # {} PROVE FALSE
    OBVIOUS
  <2>1. PICK n \in B : \A m \in B : ~(m < n)
    <3>1. B \in SUBSET Nat
      BY <1>1
    <3> HIDE DEF B
    <3> QED BY <3>1, LeastOfNat
  <2>2. n \in 0..N /\ ~Good(n) /\ n \in Nat
    BY <1>1, <2>1
  <2>3. n # 0
    BY <1>1, <1>3, <2>2
  <2>4. n \in 1..N /\ n - 1 \in 0..N /\ n - 1 < n
    BY <1>1, <2>2, <2>3
  <2> DEFINE h == t[n - 1]
             k == n - 1
  <2>5. Hashes(h) /\ (Len(h) = 1 \/ Len(h) + k <= N)
    <3>1. Good(n - 1)
      BY <2>1, <2>4
    <3> QED BY <3>1
  <2>6. t[n] = Level(h)
    BY <1>2, <2>4
  <2>7. Hashes(h) /\ Len(h) \in Nat /\ Len(h) >= 1
    BY <2>5, SomeHashes
  <2>8. CASE Len(h) > 1
    <3>1. Hashes(Level(h)) /\ Len(Level(h)) < Len(h) /\ Len(Level(h)) \in Nat
      BY <2>7, <2>8, LevelApart DEF Hashes
    <3>2. k \in Int /\ n = k + 1
      BY <2>2
    <3> HIDE DEF h, k
    <3>3. Len(Level(h)) + n <= N
      <4>1. \A x, y, z \in Nat : x + k <= z /\ y < x => y + n <= z
        BY <3>2
      <4>2. Len(h) + k <= N
        <5>1. \A x \in Nat : x > 1 => x # 1
          OBVIOUS
        <5> QED BY <2>5, <2>7, <2>8, <5>1
      <4> QED BY <1>1, <2>7, <3>1, <4>1, <4>2
    <3> QED BY <2>2, <2>6, <3>1, <3>3
  <2>9. CASE ~(Len(h) > 1)
    <3>1. Level(h) = h
      BY <2>7, <2>9 DEF Level
    <3>2. Len(h) = 1
      <4> HIDE DEF h
      <4>1. \A x \in Nat : x >= 1 /\ ~(x > 1) => x = 1
        OBVIOUS
      <4> QED BY <2>7, <2>9, <4>1
    <3> QED BY <2>2, <2>6, <2>7, <3>1, <3>2
  <2> QED BY <2>8, <2>9
<1>5. Len(t[N]) = 1
  <2>1. Hashes(t[N]) /\ (Len(t[N]) = 1 \/ Len(t[N]) + N <= N)
    BY <1>1, <1>4
  <2>2. Len(t[N]) \in Nat /\ Len(t[N]) >= 1
    BY <2>1 DEF Hashes
  <2> QED BY <1>1, <2>1, <2>2
<1>6. PICK d \in 0..N : Len(t[d]) = 1 /\ \A n \in 0..N : Len(t[n]) = 1 => ~(n < d)
  <2> DEFINE B == {n \in 0..N : Len(t[n]) = 1}
  <2>1. B \in SUBSET Nat /\ B # {}
    BY <1>1, <1>5
  <2>2. PICK d \in B : \A n \in B : ~(n < d)
    <3> HIDE DEF B
    <3> QED BY <2>1, LeastOfNat
  <2> QED BY <2>2
<1>7. \A n \in 1..d : Len(t[n - 1]) > 1 /\ t[n] = Level(t[n - 1])
  <2> TAKE n \in 1..d
  <2>1. n \in 1..N /\ n - 1 \in 0..N /\ n - 1 < d
    BY <1>1
  <2>2. Hashes(t[n - 1]) /\ Len(t[n - 1]) # 1
    BY <1>4, <1>6, <2>1
  <2>3. Len(t[n - 1]) \in Nat /\ Len(t[n - 1]) >= 1
    BY <2>2, SomeHashes
  <2>4. \A x \in Nat : x >= 1 /\ x # 1 => x > 1
    OBVIOUS
  <2> QED BY <1>2, <2>1, <2>2, <2>3, <2>4
<1>8. t[N] = t[d]
  <2> DEFINE B == {n \in d..N : t[n] # t[d]}
  <2> SUFFICES ASSUME B # {} PROVE FALSE
    BY <1>1
  <2>1. PICK n \in B : \A m \in B : ~(m < n)
    <3>1. B \in SUBSET Nat
      BY <1>1
    <3> HIDE DEF B
    <3> QED BY <3>1, LeastOfNat
  <2>2. n \in 1..N /\ n - 1 \in d..N /\ n - 1 < n /\ t[n] # t[d]
    BY <1>1, <2>1
  <2>3. t[n - 1] = t[d]
    BY <2>1, <2>2
  <2>4. t[n] = Level(t[d])
    BY <1>2, <2>2, <2>3
  <2>5. Level(t[d]) = t[d]
    BY <1>6 DEF Level
  <2> QED BY <2>2, <2>4, <2>5
<1>9. ComputeMerkleRoot(leaves) = t[d][1]
  BY <1>8 DEF ComputeMerkleRoot, Hashes, t, N
<1>10. \A n \in 0..d : Hashes(t[n])
  BY <1>1, <1>4
<1>11. Tree(leaves, d)
  BY <1>2, <1>6, <1>7, <1>9, <1>10 DEF Tree, t, N
<1> QED BY <1>11

\* The lower tree is the same as the other, from the root down.
LEMMA TreesAgree ==
  ASSUME NEW ls, NEW ms, NEW d, NEW e, Len(ls) \in Nat, Len(ms) \in Nat,
         Tree(ls, d), Tree(ms, e), d <= e, ComputeMerkleRoot(ls) = ComputeMerkleRoot(ms)
  PROVE  Bottom(ls) = Bottom(ms)
<1> DEFINE t == Levels(ls)
           u == Levels(ms)
<1>1. /\ d \in Nat /\ t[0] = Bottom(ls) /\ \A n \in 0..d : Hashes(t[n])
      /\ \A n \in 1..d : Len(t[n - 1]) > 1 /\ t[n] = Level(t[n - 1])
      /\ Len(t[d]) = 1 /\ t[d][1] = ComputeMerkleRoot(ls)
  BY DEF Tree
<1>2. /\ e \in Nat /\ u[0] = Bottom(ms) /\ \A n \in 0..e : Hashes(u[n])
      /\ \A n \in 1..e : Len(u[n - 1]) > 1 /\ u[n] = Level(u[n - 1])
      /\ Len(u[e]) = 1 /\ u[e][1] = ComputeMerkleRoot(ms)
  BY DEF Tree
<1> HIDE DEF t, u
<1>3. t[d] = u[e]
  <2>1. Hashes(t[d]) /\ Hashes(u[e])
    BY <1>1, <1>2
  <2>2. \A h : Hashes(h) /\ Len(h) = 1 => h = <<h[1]>>
    BY DEF Hashes
  <2> QED BY <1>1, <1>2, <2>1, <2>2
<1>4. \A j \in 0..d : t[d - j] = u[e - j]
  <2> DEFINE B == {j \in 0..d : t[d - j] # u[e - j]}
  <2> SUFFICES ASSUME B # {} PROVE FALSE
    OBVIOUS
  <2>1. PICK j \in B : \A m \in B : ~(m < j)
    <3>1. B \in SUBSET Nat
      BY <1>1
    <3> HIDE DEF B
    <3> QED BY <3>1, LeastOfNat
  <2>2. j \in 0..d /\ t[d - j] # u[e - j]
    BY <2>1
  <2>3. j # 0
    BY <1>1, <1>2, <1>3, <2>2
  <2>4. j - 1 \in 0..d /\ j - 1 < j
    BY <1>1, <2>2, <2>3
  <2>5. t[d - (j - 1)] = u[e - (j - 1)]
    BY <2>1, <2>4
  <2> DEFINE a == d - (j - 1)
             b == e - (j - 1)
  <2>6. a \in 1..d /\ b \in 1..e /\ d - j = a - 1 /\ e - j = b - 1
        /\ a - 1 \in 0..d /\ b - 1 \in 0..e
    BY <1>1, <1>2, <2>2, <2>3
  <2>7. t[a] = u[b]
    BY <2>5
  <2> HIDE DEF a, b
  <2>8. /\ Len(t[a - 1]) > 1 /\ t[a] = Level(t[a - 1]) /\ Hashes(t[a - 1])
        /\ Len(u[b - 1]) > 1 /\ u[b] = Level(u[b - 1]) /\ Hashes(u[b - 1])
    BY <1>1, <1>2, <2>6
  <2>9. t[a - 1] = u[b - 1]
    BY <2>7, <2>8, LevelUndone
  <2> QED BY <2>2, <2>6, <2>9
<1>5. t[0] = u[e - d]
  <2>1. t[d - d] = u[e - d]
    BY <1>1, <1>4
  <2> QED BY <1>1, <2>1
<1>6. CASE d = e
  BY <1>1, <1>2, <1>5, <1>6
<1>7. CASE d < e
  <2> DEFINE k == e - d
             h == u[k - 1]
  <2>1. k \in 1..e /\ k - 1 \in 0..e
    BY <1>1, <1>2, <1>7
  <2>2. t[0] = u[k]
    BY <1>5
  <2> HIDE DEF k
  <2>3. Hashes(h) /\ Len(h) > 1 /\ t[0] = Level(h)
    BY <1>2, <2>1, <2>2
  <2>4. Hashes(t[0]) /\ DOMAIN t[0] = 1..Len(t[0]) /\ Len(t[0]) \in Nat
    BY <1>1 DEF Hashes
  <2>5. 1 \in DOMAIN t[0]
    BY <2>4 DEF Hashes
  <2> HIDE DEF h
  <2>6. t[0][1] = <<h[2 * 1 - 1], Second(h, 1)>>
    BY <2>3, <2>5, LevelIs
  <2>7. t[0][1] = <<ls[1]>>
    BY <1>1, <2>5 DEF Bottom
  <2>8. Len(<<h[2 * 1 - 1], Second(h, 1)>>) = 2 /\ Len(<<ls[1]>>) = 1
    OBVIOUS
  <2> QED BY <2>6, <2>7, <2>8
<1> QED BY <1>1, <1>2, <1>6, <1>7

LEMMA RootTellsLeaves ==
  ASSUME NEW ls, NEW ms, ls \in Seq(Range(ls)), ms \in Seq(Range(ms)), Apart(ls), Apart(ms),
         ComputeMerkleRoot(ls) = ComputeMerkleRoot(ms)
  PROVE  ls = ms
<1>1. ASSUME NEW a, a \in Seq(Range(a)), Apart(a), a # <<>>, ComputeMerkleRoot(a) = <<>>
      PROVE  FALSE
  <2>1. Hashes(a)
    BY <1>1 DEF Hashes
  <2>2. PICK d : Tree(a, d)
    BY <2>1, TreeExists
  <2> DEFINE t == Levels(a)
  <2>3. /\ d \in Nat /\ t[0] = Bottom(a) /\ \A n \in 0..d : Hashes(t[n])
        /\ \A n \in 1..d : Len(t[n - 1]) > 1 /\ t[n] = Level(t[n - 1])
        /\ Len(t[d]) = 1 /\ t[d][1] = <<>>
    BY <1>1, <2>1, <2>2 DEF Tree, Hashes
  <2> HIDE DEF t
  <2>4. CASE d = 0
    <3>1. 1 \in DOMAIN a
      BY <1>1
    <3>2. t[d][1] = <<a[1]>>
      BY <2>3, <2>4, <3>1 DEF Bottom
    <3>3. \A x : <<x>> # <<>>
      OBVIOUS
    <3> QED BY <2>3, <3>2, <3>3
  <2>5. CASE d > 0
    <3> DEFINE h == t[d - 1]
    <3>1. Hashes(h) /\ Len(h) > 1 /\ t[d] = Level(h)
      BY <2>3, <2>5
    <3> HIDE DEF h
    <3>2. 1 \in DOMAIN Level(h)
      BY <2>3, <3>1, SomeHashes
    <3>3. t[d][1] = <<h[2 * 1 - 1], Second(h, 1)>>
      BY <3>1, <3>2, LevelIs
    <3>4. \A x, y : <<x, y>> # <<>>
      OBVIOUS
    <3> QED BY <2>3, <3>3, <3>4
  <2> QED BY <2>3, <2>4, <2>5
<1>2. ComputeMerkleRoot(<<>>) = <<>>
  BY DEF ComputeMerkleRoot
<1>3. CASE ls = <<>> \/ ms = <<>>
  BY <1>1, <1>2, <1>3
<1>4. CASE ls # <<>> /\ ms # <<>>
  <2>1. Hashes(ls) /\ Hashes(ms) /\ Len(ls) \in Nat /\ Len(ms) \in Nat
    BY <1>4 DEF Hashes
  <2>2. PICK d : Tree(ls, d)
    BY <2>1, TreeExists
  <2>3. PICK e : Tree(ms, e)
    BY <2>1, TreeExists
  <2>4. d \in Nat /\ e \in Nat
    BY <2>1, <2>2, <2>3 DEF Tree
  <2>5. Bottom(ls) = Bottom(ms)
    <3>1. CASE d <= e
      BY <2>1, <2>2, <2>3, <3>1, TreesAgree
    <3>2. CASE e <= d
      BY <2>1, <2>2, <2>3, <3>2, TreesAgree
    <3> QED BY <2>4, <3>1, <3>2
  <2>6. DOMAIN ls = DOMAIN ms
    <3>1. DOMAIN Bottom(ls) = DOMAIN ls /\ DOMAIN Bottom(ms) = DOMAIN ms
      BY DEF Bottom
    <3> QED BY <2>5, <3>1
  <2>7. ASSUME NEW i \in DOMAIN ls PROVE ls[i] = ms[i]
    <3>1. Bottom(ls)[i] = <<ls[i]>> /\ Bottom(ms)[i] = <<ms[i]>>
      BY <2>6 DEF Bottom
    <3> QED BY <2>5, <3>1
  <2>8. ls = [i \in DOMAIN ls |-> ls[i]] /\ ms = [i \in DOMAIN ms |-> ms[i]]
    OBVIOUS
  <2> QED BY <2>6, <2>7, <2>8
<1> QED BY <1>3, <1>4

(* The leaves of a period. *)

\* Numbers up to a bound can be put in order.
Ordered(s, S) ==
  /\ s \in [1..Cardinality(S) -> S] /\ Range(s) = S
  /\ \A i, j \in DOMAIN s : i < j => s[i] < s[j]

LEMMA OrderExists ==
  ASSUME NEW k \in Nat, NEW S \in SUBSET (1..k)
  PROVE  IsFiniteSet(S) /\ \E s : Ordered(s, S)
<1> DEFINE B == {n \in Nat : \E T \in SUBSET (1..n) : ~(IsFiniteSet(T) /\ \E s : Ordered(s, T))}
<1> SUFFICES ASSUME k \in B PROVE FALSE
  OBVIOUS
<1>1. PICK n \in B : \A m \in B : ~(m < n)
  <2>1. B \in SUBSET Nat /\ B # {}
    OBVIOUS
  <2> HIDE DEF B
  <2> QED BY <2>1, LeastOfNat
<1>2. PICK T \in SUBSET (1..n) : ~(IsFiniteSet(T) /\ \E s : Ordered(s, T))
  BY <1>1
<1>3. n \in Nat
  BY <1>1
<1>4. CASE n = 0
  <2>1. T = {} /\ IsFiniteSet(T) /\ Cardinality(T) = 0
    <3>1. T = {}
      BY <1>2, <1>4
    <3> QED BY <3>1, FS_EmptySet
  <2> DEFINE s == [i \in 1..0 |-> 1]
  <2>2. s \in [1..0 -> T] /\ DOMAIN s = {} /\ Range(s) = {}
    BY DEF Range
  <2>3. Ordered(s, T)
    BY <2>1, <2>2 DEF Ordered
  <2> QED BY <1>2, <2>1, <2>3
<1>5. CASE n > 0
  <2> DEFINE U == T \ {n}
             c == Cardinality(U)
  <2>1. n - 1 \in Nat /\ n - 1 < n
    BY <1>3, <1>5
  <2>2. U \in SUBSET (1..(n - 1))
    BY <1>2, <1>3
  <2>3. IsFiniteSet(U) /\ \E s : Ordered(s, U)
    BY <1>1, <2>1, <2>2
  <2>4. n \in T
    BY <1>2, <2>3
  <2>5. IsFiniteSet(T) /\ Cardinality(T) = c + 1 /\ c \in Nat
    <3>1. T = U \cup {n} /\ n \notin U
      BY <2>4
    <3> HIDE DEF U
    <3> QED BY <2>3, <3>1, FS_AddElement, FS_CardinalityType
  <2>6. PICK s : Ordered(s, U)
    BY <2>3
  <2>7. /\ s \in [1..c -> U] /\ Range(s) = U
        /\ \A i, j \in 1..c : i < j => s[i] < s[j]
    BY <2>6 DEF Ordered
  <2> HIDE DEF c, U
  <2> DEFINE r == [i \in 1..(c + 1) |-> IF i = c + 1 THEN n ELSE s[i]]
  <2>8. r[c + 1] = n /\ \A i \in 1..c : r[i] = s[i]
    BY <2>5
  <2>9. r \in [1..(c + 1) -> T] /\ DOMAIN r = 1..(c + 1)
    <3>1. \A i \in 1..(c + 1) : i = c + 1 \/ i \in 1..c
      BY <2>5
    <3>2. \A i \in 1..c : s[i] \in T
      BY <2>7 DEF U
    <3>3. \A i \in 1..(c + 1) : r[i] \in T
      BY <2>4, <2>8, <3>1, <3>2
    <3> QED BY <3>3
  <2> HIDE DEF r
  <2>10. Range(r) = T
    <3>1. Range(r) \subseteq T
      BY <2>9 DEF Range
    <3>2. ASSUME NEW x \in T PROVE x \in Range(r)
      <4>1. CASE x = n
        <5>1. c + 1 \in DOMAIN r
          BY <2>5, <2>9
        <5> QED BY <2>8, <4>1, <5>1 DEF Range
      <4>2. CASE x # n
        <5>1. PICK i \in 1..c : s[i] = x
          BY <2>7, <4>2 DEF Range, U
        <5>2. i \in DOMAIN r
          BY <2>5, <2>9
        <5> QED BY <2>8, <5>1, <5>2 DEF Range
      <4> QED BY <4>1, <4>2
    <3> QED BY <3>1, <3>2
  <2>11. ASSUME NEW i \in DOMAIN r, NEW j \in DOMAIN r, i < j PROVE r[i] < r[j]
    <3>1. i \in 1..c /\ (j = c + 1 \/ j \in 1..c)
      BY <2>5, <2>9, <2>11
    <3>2. CASE j = c + 1
      <4>1. s[i] \in 1..(n - 1)
        BY <2>2, <2>7, <3>1
      <4>2. \A x \in 1..(n - 1) : x < n
        BY <1>3
      <4> QED BY <2>8, <3>1, <3>2, <4>1, <4>2
    <3>3. CASE j \in 1..c
      BY <2>7, <2>8, <2>11, <3>1, <3>3
    <3> QED BY <3>1, <3>2, <3>3
  <2>12. Ordered(r, T)
    BY <2>5, <2>9, <2>10, <2>11 DEF Ordered
  <2> QED BY <1>2, <2>5, <2>12
<1> QED BY <1>3, <1>4, <1>5

Ids(ps) == {p.id : p \in ps}

LEMMA LeavesAre ==
  ASSUME NEW k \in Nat, NEW ps, Ids(ps) \subseteq 1..k
  PROVE  /\ Leaves(ps) \in Seq(Range(Leaves(ps)))
         /\ Apart(Leaves(ps)) /\ Range(Leaves(ps)) = Ids(ps)
<1> DEFINE S == Ids(ps)
           s == Leaves(ps)
           c == Cardinality(S)
<1>1. IsFiniteSet(S) /\ \E t : Ordered(t, S)
  BY OrderExists
<1>2. s = CHOOSE t \in [1..c -> S] : Range(t) = S /\ \A i, j \in DOMAIN t : i < j => t[i] < t[j]
  BY DEF Leaves, Ids
<1>3. c \in Nat
  BY <1>1, FS_CardinalityType
<1> HIDE DEF s
<1>4. s \in [1..c -> S] /\ Range(s) = S /\ \A i, j \in DOMAIN s : i < j => s[i] < s[j]
  BY <1>1, <1>2 DEF Ordered
<1> HIDE DEF S, c
<1>5. s \in Seq(Range(s))
  BY <1>3, <1>4
<1>6. ASSUME NEW i \in DOMAIN s, NEW j \in DOMAIN s, s[i] = s[j] PROVE i = j
  <2>1. i \in Nat /\ j \in Nat /\ s[i] \in Nat /\ s[j] \in Nat
    BY <1>3, <1>4 DEF S
  <2>2. ~(i < j) /\ ~(j < i)
    BY <1>4, <1>6, <2>1
  <2> QED BY <2>1, <2>2
<1> QED BY <1>4, <1>5, <1>6 DEF Apart, S, s

(* The invariant: a root is of its period's leaves, and no id is given twice. *)

ProofInv ==
  /\ nextId \in Nat \ {0}
  /\ \A p \in postings : p.id \in 1..(nextId - 1)
  /\ \A p, q \in postings : p.id = q.id => p = q
  /\ tx # NoTx => tx.id \in 1..(nextId - 1) /\ \A p \in postings : p.id # tx.id
  /\ \A r \in roots : r.root = ComputeMerkleRoot(Leaves(r.leaves))

LEMMA ProofInvNext ==
  ASSUME TrailInv, ProofInv, [MerkleNext]_merkleVars
  PROVE  ProofInv'
<1> USE DEF ProofInv
<1>1. CASE BeginPosting
  <2>1. /\ nextId' = nextId + 1 /\ tx'.id = nextId
        /\ postings' = postings /\ roots' = roots
    BY <1>1 DEF BeginPosting
  <2>2. nextId' \in Nat /\ \A i \in 1..(nextId - 1) : i \in 1..(nextId' - 1) /\ i # nextId
    BY <2>1
  <2>3. nextId \in 1..(nextId' - 1)
    BY <2>1
  <2> QED BY <2>1, <2>2, <2>3
<1>2. CASE CommitPosting
  <2> DEFINE q == [id |-> tx.id, created |-> tx.created, late |-> tx.created < ReadTo]
  <2>1. /\ nextId' = nextId /\ tx' = NoTx /\ tx # NoTx
        /\ postings' = postings \cup {q} /\ roots' = roots
    BY <1>2 DEF CommitPosting
  <2>2. q.id = tx.id
    OBVIOUS
  <2> HIDE DEF q
  <2> QED BY <2>1, <2>2
<1>3. CASE \E now \in 1..MaxClock : Tick(now)
  BY <1>3 DEF Tick
<1>4. CASE SaveRoot
  <2>1. roots' = roots \cup {NewRow}
    BY <1>4, SavedIsNew DEF SaveRoot
  <2>2. NewRow.root = ComputeMerkleRoot(Leaves(NewRow.leaves))
    BY DEF NewRow
  <2> QED BY <1>4, <2>1, <2>2 DEF SaveRoot
<1>5. CASE \E effective \in BOOLEAN : SaveFails(effective)
  <2>1. roots' \subseteq roots \cup {NewRow}
    BY <1>5, SavedIsNew DEF SaveFails
  <2>2. NewRow.root = ComputeMerkleRoot(Leaves(NewRow.leaves))
    BY DEF NewRow
  <2> QED BY <1>5, <2>1, <2>2 DEF SaveFails
<1>6. CASE RollbackPosting \/ Stop \/ Start \/ Advance \/ UNCHANGED merkleVars
  BY <1>6 DEF RollbackPosting, Stop, Start, Advance, merkleVars
<1> QED BY <1>1, <1>2, <1>3, <1>4, <1>5, <1>6 DEF MerkleNext

\* RootProvesLeaves, of ComputeMerkleRoot and the rows it is saved in, for any
\* number of postings and periods: no other postings have the root of a period,
\* if SHA-256 tells its inputs apart.
THEOREM RootsProveLeaves == MerkleSpec => []RootProvesLeaves
<1>1. MerkleInit => ProofInv
  BY DEF MerkleInit, ProofInv
<1>2. TrailInv /\ ProofInv => RootProvesLeaves
  <2> SUFFICES ASSUME TrailInv, ProofInv, NEW r \in roots, NEW ps \in SUBSET postings,
                      ComputeMerkleRoot(Leaves(ps)) = r.root
               PROVE  ps = r.leaves
    BY DEF RootProvesLeaves
  <2> DEFINE qs == r.leaves
  <2>1. qs \subseteq postings /\ r.root = ComputeMerkleRoot(Leaves(qs))
    BY DEF TrailInv, TrailTypes, ProofInv
  <2> HIDE DEF qs
  <2>2. PICK k \in Nat : k = nextId - 1
    BY DEF ProofInv
  <2>3. Ids(postings) \subseteq 1..k
    BY <2>2 DEF ProofInv, Ids
  <2>4. Ids(ps) \subseteq 1..k /\ Ids(qs) \subseteq 1..k
    BY <2>1, <2>3 DEF Ids
  <2>5. Leaves(ps) = Leaves(qs)
    BY <2>1, <2>4, LeavesAre, RootTellsLeaves
  <2>6. Ids(ps) = Ids(qs)
    BY <2>4, <2>5, LeavesAre
  <2>7. \A p, q \in postings : p.id = q.id => p = q
    BY DEF ProofInv
  <2>8. ASSUME NEW p \in ps PROVE p \in qs
    <3>1. PICK q \in qs : q.id = p.id
      BY <2>6, <2>8 DEF Ids
    <3> QED BY <2>1, <2>7, <3>1
  <2>9. ASSUME NEW q \in qs PROVE q \in ps
    <3>1. PICK p \in ps : p.id = q.id
      BY <2>6, <2>9 DEF Ids
    <3> QED BY <2>1, <2>7, <3>1
  <2> QED BY <2>8, <2>9 DEF qs
<1>3. TrailInv /\ ProofInv /\ [MerkleNext]_merkleVars => ProofInv'
  BY ProofInvNext
<1> QED BY <1>1, <1>2, <1>3, TrailInvAlways, PTL DEF MerkleSpec

-----------------------------------------------------------------------------
(***************************************************************************)
(* Accounts: for any users, names in events, clients, sessions and faults. *)
(*                                                                         *)
(* AccountsAgree is about how many accounts a user has. That the gateway   *)
(* and the ledger do not open two for one name rests on names: an account  *)
(* other than the sink's is found under its owner's name by either (Rows), *)
(* so that one looks in vain only if there is none; and its id is new      *)
(* because the ids in use have no gap. That tokens and settlements name    *)
(* the owner's account (AccountReferences) then makes it the only one.     *)
(* SchemaMissingOnlyIfCut needs what each point of a start knows of the    *)
(* files applied (Files).                                                  *)
(***************************************************************************)

Points == {"down", "init", "auth", "ledger", "admin", "assets", "user", "account", "running"}
AccountIds == Nat \ {0}

Shape ==
  /\ sessions \in Seq([name : Names, account : AccountIds, open : BOOLEAN])
  /\ handler \in [Clients -> [name : Names, account : AccountIds] \cup {Nobody}]
  /\ pending \subseteq Names /\ resolving \in Names \cup {Nobody}
  /\ settled \subseteq Names \X AccountIds
  /\ ledger \in Points /\ schema \subseteq {"init", "auth", "ledger"} /\ cut \in BOOLEAN

Owns(id, name) == id \in DOMAIN accounts /\ accounts[id].owner = name

\* Users and accounts: an account has its owner's name, but for the sink.
Rows ==
  /\ DOMAIN users \subseteq Names \cup {System}
  /\ \E k \in Nat : DOMAIN accounts \ {0} = 1..k
  /\ System \in DOMAIN users => users[System] = NoEmail
  /\ \A id \in DOMAIN accounts :
       /\ accounts[id].owner \in DOMAIN users
       /\ IF id = 0 THEN accounts[id] = [owner |-> System, name |-> "system-sink"]
          ELSE accounts[id].owner \in Names /\ accounts[id].name = accounts[id].owner
  /\ \A i, j \in DOMAIN accounts : accounts[i].owner = accounts[j].owner => i = j
  /\ \A n \in DOMAIN users \ {Market} : \E id \in DOMAIN accounts : Owns(id, n)

\* What is said to be a name's account is.
AccountReferences ==
  /\ \A c \in Clients : handler[c] # Nobody => Owns(handler[c].account, handler[c].name)
  /\ \A s \in DOMAIN sessions : Owns(sessions[s].account, sessions[s].name)
  /\ \A p \in settled : Owns(p[2], p[1])

\* The files a start has found or applied so far.
Files ==
  /\ "auth" \notin schema => "ledger" \notin schema /\ ~cut
  /\ ledger \in {"init", "auth"} => "auth" \notin schema
  /\ ledger = "ledger" => "auth" \in schema /\ "ledger" \notin schema /\ ~cut
  /\ ledger \in {"admin", "assets", "user", "account", "running"} => "auth" \in schema
  /\ "auth" \in schema /\ ledger # "ledger" => ("ledger" \notin schema <=> cut)

AccountsInv == Shape /\ Rows /\ AccountReferences /\ Files


-----------------------------------------------------------------------------
(***************************************************************************)
(* Rows.                                                                   *)
(***************************************************************************)

LEMMA NextIdIsNew ==
  ASSUME Rows
  PROVE  /\ NextId \in AccountIds /\ NextId \notin DOMAIN accounts
         /\ \E k \in Nat : (DOMAIN accounts \cup {NextId}) \ {0} = 1..k
<1>1. PICK k \in Nat : DOMAIN accounts \ {0} = 1..k
  BY DEF Rows
<1>2. Cardinality(1..k) = k
  BY FS_Interval
<1>3. NextId = k + 1
  BY <1>1, <1>2 DEF NextId
<1>4. k + 1 \in AccountIds /\ k + 1 \notin DOMAIN accounts
  BY <1>1 DEF AccountIds
<1>5. (DOMAIN accounts \cup {k + 1}) \ {0} = 1..(k + 1)
  BY <1>1
<1> QED BY <1>3, <1>4, <1>5

LEMMA AddUserIs ==
  ASSUME NEW name, NEW email, AddUser(name, email)
  PROVE  /\ DOMAIN users' = DOMAIN users \cup {name} /\ users'[name] = email
         /\ \A n \in DOMAIN users \ {name} : users'[n] = users[n]
<1>1. users' = With(users, name, email)
  BY DEF AddUser
<1>2. /\ DOMAIN With(users, name, email) = DOMAIN users \cup {name}
      /\ With(users, name, email)[name] = email
      /\ \A n \in DOMAIN users \ {name} : With(users, name, email)[n] = users[n]
  BY DEF With
<1> QED BY <1>1, <1>2

\* Rows are never removed, nor do accounts change hands.
More == \A id, n : Owns(id, n) => Owns(id, n)'

\* A user's first account, whoever opens it.
LEMMA FirstAccount ==
  ASSUME Rows, NEW name \in Names, OwnedBy(name) = {},
         users' = users \/ \E email : AddUser(name, email),
         name \in DOMAIN users', AddAccount(NextId, name, name)
  PROVE  Rows' /\ More /\ NextId \in DOMAIN accounts' /\ accounts'[NextId].owner = name
<1> DEFINE id == NextId
           row == [owner |-> name, name |-> name]
<1>1. id \in AccountIds /\ id \notin DOMAIN accounts
      /\ \E k \in Nat : (DOMAIN accounts \cup {id}) \ {0} = 1..k
  BY NextIdIsNew
<1>2. accounts' = With(accounts, id, row)
  BY DEF AddAccount
<1> HIDE DEF id
<1>3. /\ DOMAIN accounts' = DOMAIN accounts \cup {id} /\ accounts'[id] = row
      /\ \A i \in DOMAIN accounts : accounts'[i] = accounts[i]
  <2>1. /\ DOMAIN With(accounts, id, row) = DOMAIN accounts \cup {id}
        /\ With(accounts, id, row)[id] = row
        /\ \A i \in DOMAIN accounts \ {id} : With(accounts, id, row)[i] = accounts[i]
    BY DEF With
  <2> HIDE DEF row
  <2> QED BY <1>1, <1>2, <2>1
<1>4. /\ DOMAIN users' = DOMAIN users \cup {name}
      /\ \A n \in DOMAIN users \ {name} : users'[n] = users[n]
  <2>1. CASE users' = users
    BY <2>1
  <2>2. CASE \E email : AddUser(name, email)
    BY <2>2, AddUserIs
  <2> QED BY <2>1, <2>2
<1>5. \A i \in DOMAIN accounts : accounts[i].owner # name
  BY DEF OwnedBy
<1>6. name # System
  BY SinkIsNobodys
<1>7. More /\ id \in DOMAIN accounts' /\ accounts'[id].owner = name
  BY <1>3 DEF More, Owns
<1>8. Rows'
  <2>1. DOMAIN users' \subseteq Names \cup {System}
    BY <1>4 DEF Rows
  <2>2. \E k \in Nat : DOMAIN accounts' \ {0} = 1..k
    BY <1>1, <1>3
  <2>3. System \in DOMAIN users' => users'[System] = NoEmail
    BY <1>4, <1>6 DEF Rows
  <2>4. ASSUME NEW i \in DOMAIN accounts'
        PROVE  /\ accounts'[i].owner \in DOMAIN users'
               /\ IF i = 0 THEN accounts'[i] = [owner |-> System, name |-> "system-sink"]
                  ELSE accounts'[i].owner \in Names /\ accounts'[i].name = accounts'[i].owner
    <3>1. CASE i = id
      BY <1>1, <1>3, <1>4, <3>1 DEF AccountIds
    <3>2. CASE i \in DOMAIN accounts
      BY <1>3, <1>4, <3>2 DEF Rows
    <3> QED BY <1>3, <2>4, <3>1, <3>2
  <2>5. \A i, j \in DOMAIN accounts' : accounts'[i].owner = accounts'[j].owner => i = j
    BY <1>3, <1>5 DEF Rows
  <2>6. \A n \in DOMAIN users' \ {Market} : \E i \in DOMAIN accounts' : Owns(i, n)'
    BY <1>3, <1>4, <1>7 DEF Rows, Owns
  <2> QED BY <2>1, <2>2, <2>3, <2>4, <2>5, <2>6 DEF Rows, Owns
<1> QED BY <1>7, <1>8 DEF id

\* An account is found under its owner's name, and under no other.
LEMMA NamedIsOwned ==
  ASSUME Rows, NEW name \in Names
  PROVE  Named(name) = OwnedBy(name)
<1>1. name # System /\ name # "system-sink"
  BY SinkIsNobodys
<1> QED BY <1>1 DEF Rows, Named, OwnedBy

\* The ledger's way to a name's account: afterwards there is one.
LEMMA UpsertIs ==
  ASSUME Rows, NEW name \in Names, Upsert(name)
  PROVE  Rows' /\ More
<1>1. CASE OwnedBy(name) = {}
  <2>1. AddAccount(NextId, name, name)
    BY <1>1, NamedIsOwned DEF Upsert
  <2>2. users' = users \/ \E email : AddUser(name, email)
    BY DEF Upsert
  <2>3. name \in DOMAIN users'
    BY AddUserIs DEF Upsert
  <2> QED BY <1>1, <2>1, <2>2, <2>3, FirstAccount
<1>2. CASE OwnedBy(name) # {}
  <2>1. name \in DOMAIN users
    BY <1>2 DEF OwnedBy, Rows
  <2>2. UNCHANGED <<users, accounts>>
    BY <1>2, <2>1, NamedIsOwned DEF Upsert
  <2> QED BY <2>2 DEF Rows, More, Owns
<1> QED BY <1>1, <1>2

LEMMA ReferencesKept ==
  ASSUME AccountReferences, More, UNCHANGED <<handler, sessions, settled>>
  PROVE  AccountReferences'
BY DEF AccountReferences, More


LEMMA SameRows ==
  ASSUME Rows, UNCHANGED <<users, accounts>>
  PROVE  Rows' /\ More
BY DEF Rows, More, Owns

-----------------------------------------------------------------------------
(***************************************************************************)
(* The invariant, action by action.                                        *)
(***************************************************************************)

\* The steps of a start that write no rows.
LEMMA StartInv ==
  ASSUME AccountsInv,
         \/ Migrate \/ SeedAssets \/ SeedFails \/ LedgerCrash
         \/ Apply("init", "auth") \/ Apply("auth", "ledger") \/ Apply("ledger", "admin")
  PROVE  AccountsInv'
<1>1. /\ UNCHANGED <<users, accounts, sessions, handler, pending, settled>>
      /\ resolving' \in {resolving, Nobody}
  BY DEF Migrate, SeedAssets, SeedFails, LedgerCrash, Apply, dbVars, gatewayVars
<1>2. Rows' /\ More
  BY <1>1, SameRows DEF AccountsInv
<1>3. AccountReferences'
  BY <1>1, <1>2, ReferencesKept DEF AccountsInv
<1>4. Files' /\ ledger' \in Points /\ schema' \subseteq {"init", "auth", "ledger"} /\ cut' \in BOOLEAN
  <2>1. CASE Migrate
    BY <2>1 DEF Migrate, AccountsInv, Shape, Files, Points, dbVars
  <2>2. CASE Apply("init", "auth")
    BY <2>2 DEF Apply, AccountsInv, Shape, Files, Points
  <2>3. CASE Apply("auth", "ledger")
    BY <2>3 DEF Apply, AccountsInv, Shape, Files, Points
  <2>4. CASE Apply("ledger", "admin")
    BY <2>4 DEF Apply, AccountsInv, Shape, Files, Points
  <2>5. CASE SeedAssets
    BY <2>5 DEF SeedAssets, AccountsInv, Shape, Files, Points
  <2>6. CASE SeedFails
    BY <2>6 DEF SeedFails, AccountsInv, Shape, Files, Points, dbVars
  <2>7. CASE LedgerCrash
    BY <2>7 DEF LedgerCrash, AccountsInv, Shape, Files, Points, dbVars
  <2> QED BY <2>1, <2>2, <2>3, <2>4, <2>5, <2>6, <2>7
<1>5. Shape'
  BY <1>1, <1>4 DEF AccountsInv, Shape
<1> QED BY <1>2, <1>3, <1>4, <1>5 DEF AccountsInv

\* The steps of a start that write rows.
LEMMA SeedInv ==
  ASSUME AccountsInv, EnsureAdminAccount \/ SeedUser \/ SeedAccount
  PROVE  AccountsInv'
<1>1. UNCHANGED <<schema, sessions, resolving, pending, settled, cut, handler>>
  BY DEF EnsureAdminAccount, SeedUser, SeedAccount, gatewayVars
<1>2. Files' /\ ledger' \in Points
  BY <1>1 DEF EnsureAdminAccount, SeedUser, SeedAccount, AccountsInv, Shape, Files, Points
<1>3. Shape'
  BY <1>1, <1>2 DEF AccountsInv, Shape
<1>4. CASE EnsureAdminAccount
  <2> DEFINE row == [owner |-> System, name |-> "system-sink"]
  <2>1. AddUser(System, NoEmail) /\ accounts' = With(accounts, 0, row)
    BY <1>4 DEF EnsureAdminAccount, AddAccount
  <2>2. /\ DOMAIN With(accounts, 0, row) = DOMAIN accounts \cup {0}
        /\ With(accounts, 0, row)[0] = row
        /\ \A i \in DOMAIN accounts \ {0} : With(accounts, 0, row)[i] = accounts[i]
    BY DEF With
  <2>3. /\ DOMAIN users' = DOMAIN users \cup {System} /\ users'[System] = NoEmail
        /\ \A n \in DOMAIN users \ {System} : users'[n] = users[n]
    BY <2>1, AddUserIs
  <2>4. 0 \in DOMAIN accounts => accounts[0] = row
    BY DEF AccountsInv, Rows
  <2>5. row.owner = System
    OBVIOUS
  <2> HIDE DEF row
  <2>6. /\ DOMAIN accounts' = DOMAIN accounts \cup {0} /\ accounts'[0] = row
        /\ \A i \in DOMAIN accounts : accounts'[i] = accounts[i]
    BY <2>1, <2>2, <2>4
  <2>7. \A i \in DOMAIN accounts \ {0} : accounts[i].owner # System
    BY SinkIsNobodys DEF AccountsInv, Rows
  <2>8. More
    BY <2>6 DEF More, Owns
  <2>9. Rows'
    <3>1. DOMAIN users' \subseteq Names \cup {System} /\ users'[System] = NoEmail
      BY <2>3 DEF AccountsInv, Rows
    <3>2. \E k \in Nat : DOMAIN accounts' \ {0} = 1..k
      <4>1. DOMAIN accounts' \ {0} = DOMAIN accounts \ {0}
        BY <2>6
      <4> QED BY <4>1 DEF AccountsInv, Rows
    <3>3. ASSUME NEW i \in DOMAIN accounts'
          PROVE  /\ accounts'[i].owner \in DOMAIN users'
                 /\ IF i = 0 THEN accounts'[i] = row
                    ELSE accounts'[i].owner \in Names /\ accounts'[i].name = accounts'[i].owner
      BY <2>3, <2>5, <2>6 DEF AccountsInv, Rows
    <3>4. \A i, j \in DOMAIN accounts' : accounts'[i].owner = accounts'[j].owner => i = j
      BY <2>5, <2>6, <2>7 DEF AccountsInv, Rows
    <3>5. \A n \in DOMAIN users' \ {Market} : \E i \in DOMAIN accounts' : Owns(i, n)'
      BY <2>3, <2>5, <2>6 DEF AccountsInv, Rows, Owns
    <3> QED BY <3>1, <3>2, <3>3, <3>4, <3>5 DEF Rows, Owns, row
  <2> QED BY <1>1, <1>2, <1>3, <2>8, <2>9, ReferencesKept DEF AccountsInv
<1>5. CASE SeedUser
  <2>1. UNCHANGED accounts /\ DOMAIN users' = DOMAIN users \cup {Market}
        /\ \A n \in DOMAIN users : users'[n] = users[n]
    <3>1. CASE Market \in DOMAIN users
      BY <1>5, <3>1 DEF SeedUser
    <3>2. CASE Market \notin DOMAIN users
      BY <1>5, <3>2, AddUserIs DEF SeedUser
    <3> QED BY <3>1, <3>2
  <2>2. Market # System /\ Market \in Names
    BY SinkIsNobodys DEF Names
  <2>3. Rows' /\ More
    BY <2>1, <2>2 DEF AccountsInv, Rows, More, Owns
  <2> QED BY <1>1, <1>2, <1>3, <2>3, ReferencesKept DEF AccountsInv
<1>6. CASE SeedAccount
  <2>1. Upsert(Market) /\ Market \in Names
    BY <1>6 DEF SeedAccount, Names
  <2>2. Rows' /\ More
    BY <2>1, UpsertIs DEF AccountsInv
  <2> QED BY <1>1, <1>2, <1>3, <2>2, ReferencesKept DEF AccountsInv
<1> QED BY <1>4, <1>5, <1>6


LEMMA FindAccountInv ==
  ASSUME AccountsInv, NEW name \in pending, FindAccount(name)
  PROVE  AccountsInv'
<1>1. /\ UNCHANGED <<schema, users, accounts, sessions, ledger, cut, handler>>
      /\ name \in Names
  BY DEF FindAccount, AccountsInv, Shape, dbVars, gatewayVars
<1>2. Rows' /\ Files'
  BY <1>1 DEF AccountsInv, Rows, Files, Owns
<1>3. CASE \E id \in Named(name) : Settle(name, id) /\ UNCHANGED resolving
  <2>1. PICK id \in Named(name) : Settle(name, id) /\ UNCHANGED resolving
    BY <1>3
  <2>2. Owns(id, name) /\ id \in AccountIds
    <3>1. id \in DOMAIN accounts /\ accounts[id].owner = name
      BY <1>1, NamedIsOwned DEF AccountsInv, OwnedBy
    <3>2. id \in {0} \cup AccountIds
      BY <3>1 DEF AccountsInv, Rows, AccountIds
    <3>3. id # 0
      BY <1>1, <3>1, SinkIsNobodys DEF AccountsInv, Rows
    <3> QED BY <3>1, <3>2, <3>3 DEF Owns
  <2>3. settled' \subseteq settled \cup {<<name, id>>} /\ pending' \subseteq pending
    BY <2>1 DEF Settle
  <2>4. Shape'
    BY <1>1, <2>1, <2>2, <2>3 DEF AccountsInv, Shape
  <2>5. AccountReferences'
    BY <1>1, <2>2, <2>3 DEF AccountsInv, AccountReferences, Owns
  <2> QED BY <1>2, <2>4, <2>5 DEF AccountsInv
<1>4. CASE resolving' = name /\ UNCHANGED <<pending, settled>>
  <2>1. Shape' /\ AccountReferences'
    BY <1>1, <1>4 DEF AccountsInv, Shape, AccountReferences, Owns
  <2> QED BY <1>2, <2>1 DEF AccountsInv
<1> QED BY <1>3, <1>4 DEF FindAccount

\* Between the two halves somebody else may have opened the account.
LEMMA CreateAccountInv ==
  ASSUME AccountsInv, CreateAccount
  PROVE  AccountsInv'
<1>1. /\ resolving \in Names /\ resolving' = Nobody /\ Upsert(resolving)
      /\ UNCHANGED <<schema, sessions, ledger, cut, handler>>
  BY DEF CreateAccount, AccountsInv, Shape, gatewayVars
<1>2. PICK id \in DOMAIN accounts' : accounts'[id].owner = resolving /\ Settle(resolving, id)
  BY DEF CreateAccount
<1>3. Rows' /\ More
  BY <1>1, UpsertIs DEF AccountsInv
<1>4. Files'
  BY <1>1 DEF AccountsInv, Files
<1>5. id \in AccountIds
  <2>1. id \in {0} \cup AccountIds
    BY <1>3 DEF Rows, AccountIds
  <2>2. id # 0
    BY <1>1, <1>2, <1>3, SinkIsNobodys DEF Rows
  <2> QED BY <2>1, <2>2
<1>6. settled' \subseteq settled \cup {<<resolving, id>>} /\ pending' \subseteq pending
  BY <1>2 DEF Settle
<1>7. Shape'
  BY <1>1, <1>5, <1>6 DEF AccountsInv, Shape
<1>8. AccountReferences'
  <2>1. \A p \in settled' : p[2] \in DOMAIN accounts' /\ accounts'[p[2]].owner = p[1]
    BY <1>2, <1>3, <1>6 DEF AccountsInv, AccountReferences, More, Owns
  <2> QED BY <1>1, <1>3, <2>1 DEF AccountsInv, AccountReferences, More, Owns
<1> QED BY <1>3, <1>4, <1>7, <1>8 DEF AccountsInv

\* The gateway's default user.
LEMMA GatewayStartInv ==
  ASSUME AccountsInv, GatewayStart \/ SeedDefaultAdmin \/ GatewayCrash
  PROVE  AccountsInv'
<1>1. /\ UNCHANGED <<schema, sessions, ledger, resolving, pending, settled, cut>>
      /\ handler' \in {handler, [c \in Clients |-> Nobody]}
  BY DEF GatewayStart, SeedDefaultAdmin, GatewayCrash, dbVars, ledgerVars
<1>2. Files' /\ Shape'
  BY <1>1 DEF AccountsInv, Shape, Files
<1>3. Rows' /\ More
  <2>1. CASE UNCHANGED <<users, accounts>>
    BY <2>1, SameRows DEF AccountsInv
  <2>2. CASE /\ Admin \notin DOMAIN users
             /\ AddUser(Admin, AdminEmail) /\ AddAccount(NextId, Admin, Admin)
    <3>1. OwnedBy(Admin) = {} /\ Admin \in Names
      BY <2>2 DEF AccountsInv, Rows, OwnedBy, Names
    <3>2. Admin \in DOMAIN users'
      BY <2>2, AddUserIs
    <3> QED BY <2>2, <3>1, <3>2, FirstAccount DEF AccountsInv
  <2> QED BY <2>1, <2>2 DEF GatewayStart, SeedDefaultAdmin, GatewayCrash, dbVars
<1>4. AccountReferences'
  BY <1>1, <1>3 DEF AccountsInv, AccountReferences, More
<1> QED BY <1>2, <1>3, <1>4 DEF AccountsInv

LEMMA RegisterInv ==
  ASSUME AccountsInv, NEW c \in Clients, NEW r \in Registrants, Register(c, r)
  PROVE  AccountsInv'
<1>1. /\ r.name \notin DOMAIN users /\ AddUser(r.name, r.email)
      /\ AddAccount(NextId, r.name, r.name)
      /\ handler' = [handler EXCEPT ![c] = [name |-> r.name, account |-> NextId]]
      /\ UNCHANGED <<schema, sessions, ledger, resolving, pending, settled, cut>>
  BY DEF Register, ledgerVars
<1>2. r.name \in Names /\ OwnedBy(r.name) = {} /\ r.name \in DOMAIN users'
  <2>1. r.name \in DOMAIN users'
    BY <1>1, AddUserIs
  <2>2. OwnedBy(r.name) = {}
    BY <1>1 DEF OwnedBy, AccountsInv, Rows
  <2> QED BY <2>1, <2>2 DEF Names
<1>3. Rows' /\ More /\ NextId \in DOMAIN accounts' /\ accounts'[NextId].owner = r.name
  BY <1>1, <1>2, FirstAccount DEF AccountsInv
<1>4. NextId \in AccountIds
  BY NextIdIsNew DEF AccountsInv
<1> DEFINE id == NextId
           h == [name |-> r.name, account |-> id]
<1>5. /\ handler' = [handler EXCEPT ![c] = h] /\ h \in [name : Names, account : AccountIds]
      /\ h.account = id /\ h.name = r.name
  BY <1>1, <1>2, <1>4
<1>6. id \in DOMAIN accounts' /\ accounts'[id].owner = r.name
  BY <1>3
<1> HIDE DEF h, id
<1>7. Shape' /\ Files'
  BY <1>1, <1>5 DEF AccountsInv, Shape, Files
<1>8. AccountReferences'
  <2>1. \A d \in Clients : handler'[d] # Nobody =>
          handler'[d].account \in DOMAIN accounts' /\ accounts'[handler'[d].account].owner = handler'[d].name
    BY <1>3, <1>5, <1>6 DEF AccountsInv, Shape, AccountReferences, More, Owns
  <2> QED BY <1>1, <1>3, <2>1 DEF AccountsInv, AccountReferences, More, Owns
<1> QED BY <1>3, <1>7, <1>8 DEF AccountsInv

LEMMA LoginInv ==
  ASSUME AccountsInv, NEW c \in Clients, NEW name \in DOMAIN users, Login(c, name)
  PROVE  AccountsInv'
<1>1. PICK id \in OwnedBy(name) :
        handler' = [handler EXCEPT ![c] = [name |-> name, account |-> id]]
  BY DEF Login
<1>2. /\ users[name] # NoEmail
      /\ UNCHANGED <<schema, users, accounts, sessions, ledger, resolving, pending, settled, cut>>
  BY DEF Login, dbVars, ledgerVars
<1>3. name \in Names
  BY <1>2 DEF AccountsInv, Rows
<1>4. Owns(id, name) /\ id \in AccountIds
  <2>1. id \in DOMAIN accounts /\ accounts[id].owner = name
    BY DEF OwnedBy
  <2>2. id \in {0} \cup AccountIds
    BY <2>1 DEF AccountsInv, Rows, AccountIds
  <2>3. id # 0
    BY <1>3, <2>1, SinkIsNobodys DEF AccountsInv, Rows
  <2> QED BY <2>1, <2>2, <2>3 DEF Owns
<1>5. Shape' /\ Files' /\ Rows'
  BY <1>1, <1>2, <1>3, <1>4 DEF AccountsInv, Shape, Files, Rows, Owns
<1>6. AccountReferences'
  BY <1>1, <1>2, <1>4 DEF AccountsInv, Shape, AccountReferences, Owns
<1> QED BY <1>5, <1>6 DEF AccountsInv

LEMMA SessionInv ==
  ASSUME AccountsInv,
         \/ \E c \in Clients : IssueToken(c)
         \/ \E s \in DOMAIN sessions : Close(s) \/ Request(s)
         \/ \E n \in Unauthenticated : Event(n)
  PROVE  AccountsInv'
<1> DEFINE Token == [name : Names, account : AccountIds, open : BOOLEAN]
<1>1. UNCHANGED <<schema, users, accounts, ledger, resolving, settled, cut>>
  BY DEF IssueToken, Close, Request, Event, dbVars, ledgerVars, gatewayVars
<1>2. Rows' /\ Files' /\ More
  BY <1>1 DEF AccountsInv, Rows, Files, Owns, More
<1>3. /\ sessions \in Seq(Token) /\ Len(sessions) \in Nat /\ DOMAIN sessions = 1..Len(sessions)
      /\ \A s \in DOMAIN sessions : sessions[s] \in Token
  <2>1. sessions \in Seq(Token)
    BY DEF AccountsInv, Shape
  <2> HIDE DEF Token
  <2> QED BY <2>1, LenProperties, ElementOfSeq
<1>4. CASE \E c \in Clients : IssueToken(c)
  <2>1. PICK c \in Clients : IssueToken(c)
    BY <1>4
  <2> DEFINE h == handler[c]
             t == [name |-> h.name, account |-> h.account, open |-> TRUE]
  <2>2. h \in [name : Names, account : AccountIds] /\ Owns(h.account, h.name)
    BY <2>1 DEF IssueToken, AccountsInv, Shape, AccountReferences
  <2>3. /\ sessions' \in {sessions, Append(sessions, t)} /\ UNCHANGED pending
        /\ handler' = [handler EXCEPT ![c] = Nobody]
    BY <2>1 DEF IssueToken, ledgerVars
  <2>4. t \in Token /\ Owns(t.account, t.name)
    BY <2>2
  <2> HIDE DEF t, h
  <2>5. /\ Append(sessions, t) \in Seq(Token) /\ DOMAIN Append(sessions, t) = 1..(Len(sessions) + 1)
        /\ Append(sessions, t)[Len(sessions) + 1] = t
        /\ \A s \in 1..Len(sessions) : Append(sessions, t)[s] = sessions[s]
    BY <1>3, <2>4, AppendProperties, LenProperties
  <2>6. Shape'
    BY <1>1, <1>3, <2>3, <2>5 DEF AccountsInv, Shape
  <2>7. \A s \in DOMAIN sessions' : sessions'[s] = t \/ (s \in DOMAIN sessions /\ sessions'[s] = sessions[s])
    BY <1>3, <2>3, <2>5
  <2>8. AccountReferences'
    BY <1>1, <2>3, <2>4, <2>7 DEF AccountsInv, Shape, AccountReferences, Owns
  <2> QED BY <1>2, <2>6, <2>8 DEF AccountsInv
<1>5. CASE \E s \in DOMAIN sessions : Close(s)
  <2>1. PICK s \in DOMAIN sessions : Close(s)
    BY <1>5
  <2>2. /\ sessions' = [sessions EXCEPT ![s].open = FALSE] /\ UNCHANGED <<pending, handler>>
    BY <2>1 DEF Close, ledgerVars, gatewayVars
  <2> DEFINE t == [sessions[s] EXCEPT !.open = FALSE]
  <2>3. t \in Token /\ t.name = sessions[s].name /\ t.account = sessions[s].account
    BY <1>3
  <2>4. sessions' = [sessions EXCEPT ![s] = t]
    BY <2>2
  <2> HIDE DEF t
  <2>5. /\ sessions' \in Seq(Token) /\ DOMAIN sessions' = DOMAIN sessions
        /\ \A x \in DOMAIN sessions : sessions'[x] = IF x = s THEN t ELSE sessions[x]
    BY <1>3, <2>3, <2>4, ExceptSeq
  <2>6. Shape'
    BY <1>1, <2>2, <2>5 DEF AccountsInv, Shape
  <2>7. AccountReferences'
    BY <1>1, <2>2, <2>3, <2>5 DEF AccountsInv, AccountReferences, Owns
  <2> QED BY <1>2, <2>6, <2>7 DEF AccountsInv
<1>6. CASE (\E s \in DOMAIN sessions : Request(s)) \/ (\E n \in Unauthenticated : Event(n))
  <2>1. UNCHANGED <<sessions, handler>> /\ pending' \subseteq pending \cup Names
    BY <1>3, <1>6 DEF Request, Event, dbVars, gatewayVars, Names
  <2>2. Shape'
    BY <1>1, <2>1 DEF AccountsInv, Shape
  <2> QED BY <1>1, <1>2, <2>1, <2>2, ReferencesKept DEF AccountsInv
<1> QED BY <1>4, <1>5, <1>6

LEMMA InitInv == AccountsInit => AccountsInv
<1> SUFFICES ASSUME AccountsInit PROVE AccountsInv
  OBVIOUS
<1>1. /\ schema = {} /\ users = <<>> /\ accounts = <<>> /\ sessions = <<>>
      /\ ledger = "down" /\ resolving = Nobody /\ pending = {} /\ settled = {} /\ cut = FALSE
      /\ handler = [c \in Clients |-> Nobody]
  BY DEF AccountsInit
<1>2. DOMAIN <<>> = {} /\ \A S : <<>> \in Seq(S)
  BY EmptySeq
<1>3. 0 \in Nat /\ {} = 1..0
  OBVIOUS
<1>4. Rows
  BY <1>1, <1>2, <1>3 DEF Rows
<1>5. Shape /\ AccountReferences /\ Files
  BY <1>1, <1>2 DEF Shape, AccountReferences, Files, Points
<1> QED BY <1>4, <1>5 DEF AccountsInv

LEMMA NextInv == AccountsInv /\ [AccountsNext]_accountsVars => AccountsInv'
<1> SUFFICES ASSUME AccountsInv, [AccountsNext]_accountsVars PROVE AccountsInv'
  OBVIOUS
<1>1. CASE LedgerStart \/ LedgerCrash
  BY <1>1, StartInv, SeedInv DEF LedgerStart
<1>2. CASE CreateAccount \/ \E n \in pending : FindAccount(n)
  BY <1>2, CreateAccountInv, FindAccountInv
<1>3. CASE GatewayStart \/ SeedDefaultAdmin \/ GatewayCrash
  BY <1>3, GatewayStartInv
<1>4. ASSUME NEW c \in Clients, NEW r \in Registrants, Register(c, r) PROVE AccountsInv'
  BY <1>4, RegisterInv
<1>5. ASSUME NEW c \in Clients, NEW n \in DOMAIN users, Login(c, n) PROVE AccountsInv'
  BY <1>5, LoginInv
<1>6. CASE \/ \E c \in Clients : IssueToken(c)
           \/ \E s \in DOMAIN sessions : Close(s) \/ Request(s)
           \/ \E n \in Unauthenticated : Event(n)
  BY <1>6, SessionInv
<1>7. CASE UNCHANGED accountsVars
  <2>1. UNCHANGED <<schema, users, accounts, sessions, ledger, resolving, pending, settled, cut, handler>>
    BY <1>7 DEF accountsVars, dbVars, ledgerVars, gatewayVars
  <2> QED BY <2>1 DEF AccountsInv, Shape, Rows, AccountReferences, Files, Owns
<1> QED BY <1>1, <1>2, <1>3, <1>4, <1>5, <1>6, <1>7 DEF AccountsNext

LEMMA InvHolds == AccountsSpec => []AccountsInv
BY InitInv, NextInv, PTL DEF AccountsSpec

-----------------------------------------------------------------------------

\* Whoever opens an account first, the gateway or the ledger, and whatever fails
\* in between: a user has one, and tokens and settlements agree on which.
THEOREM AccountsAlwaysAgree == AccountsSpec => []AccountsAgree
<1>1. AccountsInv => AccountsAgree
  <2> SUFFICES ASSUME AccountsInv PROVE AccountsAgree
    OBVIOUS
  <2>1. \A id, n : Owns(id, n) => OwnedBy(n) = {id}
    BY DEF AccountsInv, Rows, Owns, OwnedBy
  <2>2. \A n \in DOMAIN users \ {Market} : Cardinality(OwnedBy(n)) = 1
    <3>1. \A n \in DOMAIN users \ {Market} : \E id : Owns(id, n)
      BY DEF AccountsInv, Rows
    <3>2. \A id : Cardinality({id}) = 1
      BY FS_Singleton
    <3> QED BY <2>1, <3>1, <3>2
  <2>3. Cardinality(OwnedBy(Market)) <= 1
    <3>1. CASE OwnedBy(Market) = {}
      BY <3>1, FS_EmptySet
    <3>2. CASE OwnedBy(Market) # {}
      <4>1. PICK id : Owns(id, Market)
        BY <3>2 DEF OwnedBy, Owns
      <4> QED BY <2>1, <4>1, FS_Singleton
    <3> QED BY <3>1, <3>2
  <2>4. \A id \in DOMAIN accounts : accounts[id].owner \in DOMAIN users
    BY DEF AccountsInv, Rows
  <2>5. /\ \A s \in DOMAIN sessions : OwnedBy(sessions[s].name) = {sessions[s].account}
        /\ \A p \in settled : OwnedBy(p[1]) = {p[2]}
    BY <2>1 DEF AccountsInv, AccountReferences
  <2> QED BY <2>2, <2>3, <2>4, <2>5 DEF AccountsAgree
<1> QED BY <1>1, InvHolds, PTL

\* A running ledger lacks its tables only if a start was cut off after those of
\* the users, and then for good.
THEOREM SchemaComplete == AccountsSpec => []SchemaMissingOnlyIfCut
<1>1. AccountsInv => SchemaMissingOnlyIfCut
  BY DEF AccountsInv, Files, SchemaMissingOnlyIfCut
<1> QED BY <1>1, InvHolds, PTL
=============================================================================
