-------------------------- MODULE WalletStoreProofs --------------------------
(***************************************************************************)
(* Proofs about the wallet of a customer, for any customers, payments and  *)
(* amounts: the ledger it is promised to be (L, an instance of Ledger) and *)
(* the transactions of the store that implement it.                        *)
(***************************************************************************)
EXTENDS WalletStore, TLAPS

\* A posting keeps the types; the balance it leaves is not negative because the
\* posting is refused otherwise.
LEMMA PostKeepsTypes ==
  ASSUME L!TypeOK, NEW u \in EndUsers, NEW d \in Deltas, NEW m \in Memos, L!Post(u, d, m)
  PROVE  L!TypeOK'
<1> DEFINE left == balance[u] + d
           e == [delta |-> d, after |-> left, memo |-> m]
<1>1. left \in Nat
  BY DEF L!Post
<1>2. e \in L!Entries
  BY <1>1 DEF L!Entries
<1>3. balance' \in [EndUsers -> Nat]
  BY <1>1 DEF L!TypeOK, L!Post
<1>4. Append(walletTx[u], e) \in Seq(L!Entries)
  BY <1>2 DEF L!TypeOK
<1>5. walletTx' = [walletTx EXCEPT ![u] = Append(walletTx[u], e)]
  BY DEF L!Post
<1>6. walletTx' \in [EndUsers -> Seq(L!Entries)]
  BY <1>4, <1>5 DEF L!TypeOK
<1>7. QED BY <1>3, <1>6 DEF L!TypeOK

\* Every behaviour of the ledger is well typed; in particular no balance is ever
\* negative, however many postings compete for it.
THEOREM LedgerTypeCorrect == L!Spec => []L!TypeOK
<1>1. L!Init => L!TypeOK
  BY DEF L!Init
<1>2. L!TypeOK /\ [L!Next]_(L!ledgerVars) => L!TypeOK'
  <2> SUFFICES ASSUME L!TypeOK, [L!Next]_(L!ledgerVars) PROVE L!TypeOK'
    OBVIOUS
  <2>1. CASE L!Next
    BY <2>1, PostKeepsTypes DEF L!Next
  <2>2. CASE UNCHANGED L!ledgerVars
    BY <2>2 DEF L!ledgerVars, L!TypeOK
  <2>3. QED BY <2>1, <2>2
<1>3. QED BY <1>1, <1>2, PTL DEF L!Spec

\* A history that explains a balance still does after one more posting.
LEMMA AppendExplains ==
  ASSUME NEW h \in Seq(L!Entries), NEW b \in Nat, L!Chained(h), L!Explained(h, b),
         NEW d \in Deltas, NEW m \in Memos, b + d \in Nat
  PROVE  LET e == [delta |-> d, after |-> b + d, memo |-> m]
         IN  L!Chained(Append(h, e)) /\ L!Explained(Append(h, e), b + d)
<1> DEFINE e == [delta |-> d, after |-> b + d, memo |-> m]
           g == Append(h, e)
<1>1. e \in L!Entries
  BY DEF L!Entries
<1>2. /\ g \in Seq(L!Entries) /\ Len(g) = Len(h) + 1 /\ g[Len(h) + 1] = e
      /\ \A i \in 1..Len(h) : g[i] = h[i]
      /\ Len(h) \in Nat
  BY <1>1
<1>3. ASSUME NEW i \in 1..Len(g) PROVE g[i].after = L!Before(g, i) + g[i].delta
  <2>1. CASE i = Len(h) + 1
    <3>1. L!Before(g, i) = b
      <4>1. CASE h = <<>>
        BY <2>1, <4>1 DEF L!Before, L!Explained
      <4>2. CASE h # <<>>
        <5>1. Len(h) >= 1
          BY <4>2
        <5>2. i # 1 /\ i - 1 = Len(h) /\ i - 1 \in 1..Len(h)
          BY <2>1, <1>2, <5>1
        <5>3. g[i - 1] = h[Len(h)]
          BY <1>2, <5>2
        <5>4. QED BY <4>2, <5>2, <5>3 DEF L!Before, L!Explained
      <4>3. QED BY <4>1, <4>2
    <3>2. g[i] = e
      BY <1>2, <2>1
    <3>3. QED BY <3>1, <3>2
  <2>2. CASE i \in 1..Len(h)
    <3>1. g[i] = h[i] /\ h[i].after = L!Before(h, i) + h[i].delta
      BY <1>2, <2>2 DEF L!Chained
    <3>2. L!Before(g, i) = L!Before(h, i)
      <4>1. CASE i = 1
        BY <4>1 DEF L!Before
      <4>2. CASE i # 1
        <5>1. i - 1 \in 1..Len(h)
          BY <2>2, <4>2, <1>2
        <5>2. g[i - 1] = h[i - 1]
          BY <5>1, <1>2
        <5>3. QED BY <4>2, <5>2 DEF L!Before
      <4>3. QED BY <4>1, <4>2
    <3>3. QED BY <3>1, <3>2
  <2>3. QED BY <1>2, <2>1, <2>2
<1>4. L!Explained(g, b + d)
  <2>1. g # <<>> /\ g[Len(g)] = e
    BY <1>2
  <2>2. QED BY <2>1 DEF L!Explained
<1>5. QED BY <1>3, <1>4 DEF L!Chained

\* The history of every customer accounts for the balance: no posting is lost,
\* none is invented, and no balance moves without one.
THEOREM LedgerExplainsBalance == L!Spec => []L!HistoryExplainsBalance
<1>1. L!Init => L!HistoryExplainsBalance
  <2> SUFFICES ASSUME L!Init, NEW u \in EndUsers
               PROVE  L!Chained(walletTx[u]) /\ L!Explained(walletTx[u], balance[u])
    BY DEF L!HistoryExplainsBalance
  <2>1. CASE balance[u] = 0 /\ walletTx[u] = <<>>
    BY <2>1 DEF L!Chained, L!Explained
  <2>2. CASE /\ balance[u] \in Deltas
             /\ \E m \in Memos :
                  walletTx[u] = <<[delta |-> balance[u], after |-> balance[u], memo |-> m]>>
    <3>1. PICK m \in Memos :
            walletTx[u] = <<[delta |-> balance[u], after |-> balance[u], memo |-> m]>>
      BY <2>2
    <3>2. /\ Len(walletTx[u]) = 1 /\ walletTx[u] # <<>>
          /\ walletTx[u][1] = [delta |-> balance[u], after |-> balance[u], memo |-> m]
      BY <3>1
    <3>3. balance[u] \in Nat
      BY DEF L!Init, L!TypeOK
    <3>4. QED BY <3>2, <3>3 DEF L!Chained, L!Explained, L!Before
  <2>3. QED BY <2>1, <2>2 DEF L!Init, L!Opened
<1>2. L!TypeOK /\ L!HistoryExplainsBalance /\ [L!Next]_(L!ledgerVars)
      => L!HistoryExplainsBalance'
  <2> SUFFICES ASSUME L!TypeOK, L!HistoryExplainsBalance, [L!Next]_(L!ledgerVars)
               PROVE  L!HistoryExplainsBalance'
    OBVIOUS
  <2>1. CASE L!Next
    <3>1. PICK u \in EndUsers, d \in Deltas, m \in Memos : L!Post(u, d, m)
      BY <2>1 DEF L!Next
    <3> DEFINE e == [delta |-> d, after |-> balance[u] + d, memo |-> m]
    <3>2. SUFFICES ASSUME NEW v \in EndUsers
                   PROVE  L!Chained(walletTx'[v]) /\ L!Explained(walletTx'[v], balance'[v])
      BY DEF L!HistoryExplainsBalance, L!Chained, L!Explained, L!Before
    <3>3. walletTx[v] \in Seq(L!Entries) /\ balance[v] \in Nat
          /\ L!Chained(walletTx[v]) /\ L!Explained(walletTx[v], balance[v])
      BY DEF L!TypeOK, L!HistoryExplainsBalance
    <3>4. CASE v = u
      <4>1. walletTx'[u] = Append(walletTx[u], e) /\ balance'[u] = balance[u] + d
            /\ balance[u] + d \in Nat
        BY <3>1 DEF L!Post, L!TypeOK
      <4>2. QED BY <3>3, <3>4, <4>1, AppendExplains
    <3>5. CASE v # u
      <4>1. walletTx'[v] = walletTx[v] /\ balance'[v] = balance[v]
        BY <3>1, <3>5 DEF L!Post, L!TypeOK
      <4>2. QED BY <3>3, <4>1
    <3>6. QED BY <3>4, <3>5
  <2>2. CASE UNCHANGED L!ledgerVars
    BY <2>2 DEF L!ledgerVars, L!HistoryExplainsBalance, L!Chained, L!Explained, L!Before
  <2>3. QED BY <2>1, <2>2
<1>3. QED BY <1>1, <1>2, LedgerTypeCorrect, PTL DEF L!Spec

-----------------------------------------------------------------------------
\* Saving a balance posts to the ledger when it leaves a natural number.
LEMMA SaveBalancePosts ==
  ASSUME NEW u \in EndUsers, NEW d \in Deltas, NEW m \in Memos,
         balance[u] + d \in Nat, SaveBalance(u, d, m)
  PROVE  L!Next
<1>1. L!Post(u, d, m)
  BY DEF SaveBalance, WalletTx, L!Post
<1>2. QED BY <1>1 DEF L!Next

LEMMA CreditPosts ==
  ASSUME WalletTypeOK, NEW u \in EndUsers, NEW a \in Amounts, NEW m \in Memos,
         CreditWallet(u, a, m)
  PROVE  L!Next
<1>1. a \in Deltas /\ balance[u] + a \in Nat
  BY AmountsAssumption DEF Deltas, WalletTypeOK
<1>2. QED BY <1>1, SaveBalancePosts DEF CreditWallet

LEMMA DebitPosts ==
  ASSUME WalletTypeOK, NEW u \in EndUsers, NEW a \in Amounts, NEW m \in Memos,
         DebitWallet(u, a, m)
  PROVE  L!Next
<1>1. -a \in Deltas /\ balance[u] + (-a) \in Nat
  BY AmountsAssumption DEF Deltas, WalletTypeOK, DebitWallet
<1>2. QED BY <1>1, SaveBalancePosts DEF DebitWallet

\* The opening state of the store is an opening state of the ledger.
LEMMA InitIsLedgerInit == WalletInit => L!Init
<1> SUFFICES ASSUME WalletInit PROVE L!Init
  OBVIOUS
<1>1. Memos # {} /\ <<"admin_adjust", NoRef>> \in Memos
  BY RefsAssumption DEF Memos, Reasons
<1>2. ASSUME NEW u \in EndUsers
      PROVE  /\ balance[u] \in Nat /\ Opening[u] = balance[u]
             /\ balance[u] \in Deltas
             /\ walletTx[u] = IF Opening[u] = 0 THEN <<>>
                ELSE <<WalletTx(Opening[u], Opening[u], <<"admin_adjust", NoRef>>)>>
  BY OpeningAssumption, AmountsAssumption DEF WalletInit, Deltas
<1>3. ASSUME NEW u \in EndUsers
      PROVE  walletTx[u] \in Seq(L!Entries) /\ L!Opened(u)
  <2>1. CASE Opening[u] = 0
    <3>1. walletTx[u] = <<>> /\ balance[u] = 0
      BY <1>2, <2>1
    <3>2. L!Opened(u)
      BY <3>1 DEF L!Opened
    <3>3. QED BY <3>1, <3>2
  <2>2. CASE Opening[u] # 0
    <3>1. WalletTx(Opening[u], Opening[u], <<"admin_adjust", NoRef>>) \in L!Entries
      BY <1>1, <1>2 DEF WalletTx, L!Entries
    <3>2. walletTx[u] = <<WalletTx(Opening[u], Opening[u], <<"admin_adjust", NoRef>>)>>
      BY <1>2, <2>2
    <3>3. walletTx[u] \in Seq(L!Entries)
      BY <3>1, <3>2
    <3>4. L!Opened(u)
      BY <1>1, <1>2, <3>2 DEF L!Opened, WalletTx
    <3>5. QED BY <3>3, <3>4
  <2>3. QED BY <2>1, <2>2
<1>4. L!TypeOK
  <2>1. balance \in [EndUsers -> Nat]
    BY OpeningAssumption, AmountsAssumption DEF WalletInit
  <2>2. walletTx = [u \in EndUsers |-> walletTx[u]]
    BY DEF WalletInit
  <2>3. walletTx \in [EndUsers -> Seq(L!Entries)]
    BY <1>3, <2>2
  <2>4. QED BY <2>1, <2>3 DEF L!TypeOK
<1>5. QED BY <1>3, <1>4 DEF L!Init

\* The store starts well typed.
LEMMA InitTypes == WalletInit => WalletTypeOK
<1> SUFFICES ASSUME WalletInit PROVE WalletTypeOK
  OBVIOUS
<1>1. L!TypeOK
  BY InitIsLedgerInit DEF L!Init
<1>2. payment \in [PaymentIds -> Payments \cup {NoPayment}]
  BY DEF WalletInit
<1>3. L!Entries = WalletTxRows
  BY DEF L!Entries, WalletTxRows
<1>4. QED BY <1>1, <1>2, <1>3 DEF WalletTypeOK, L!TypeOK

LEMMA LedgerKeepsTypes ==
  ASSUME WalletTypeOK, L!Next
  PROVE  balance' \in [EndUsers -> Nat] /\ walletTx' \in [EndUsers -> Seq(WalletTxRows)]
<1>1. L!Entries = WalletTxRows
  BY DEF L!Entries, WalletTxRows
<1>2. L!TypeOK
  BY <1>1 DEF WalletTypeOK, L!TypeOK
<1>3. PICK u \in EndUsers, d \in Deltas, m \in Memos : L!Post(u, d, m)
  BY DEF L!Next
<1>4. L!TypeOK'
  BY <1>2, <1>3, PostKeepsTypes
<1>5. QED BY <1>1, <1>4 DEF L!TypeOK

\* What each operation of the store does, for the modules that compose it: it
\* keeps the types, and it posts to the ledger or leaves the ledger alone.
LEMMA AdjustStep ==
  ASSUME WalletTypeOK, NEW u \in EndUsers, NEW d \in Deltas, AdjustWallet(u, d)
  PROVE  WalletTypeOK' /\ L!Next /\ UNCHANGED payment
<1>1. <<"admin_adjust", NoRef>> \in Memos
  BY RefsAssumption DEF Memos, Reasons
<1>2. UNCHANGED payment
  BY DEF AdjustWallet, CreditWallet, DebitWallet
<1>3. L!Next
  <2>1. CASE d > 0 /\ CreditWallet(u, d, <<"admin_adjust", NoRef>>)
    <3>1. d \in Amounts
      BY <2>1, AmountsAssumption DEF Deltas
    <3>2. QED BY <1>1, <2>1, <3>1, CreditPosts
  <2>2. CASE d < 0 /\ DebitWallet(u, -d, <<"admin_adjust", NoRef>>)
    <3>1. -d \in Amounts
      <4>1. PICK a \in Amounts : d = a \/ d = -a
        BY DEF Deltas
      <4>2. a \in Nat
        BY AmountsAssumption
      <4>3. d = -a /\ -d = a
        BY <2>2, <4>1, <4>2
      <4>4. QED BY <4>3
    <3>2. QED BY <1>1, <2>2, <3>1, DebitPosts
  <2>3. QED BY <2>1, <2>2 DEF AdjustWallet
<1>4. WalletTypeOK'
  BY <1>2, <1>3, LedgerKeepsTypes DEF WalletTypeOK
<1>5. QED BY <1>2, <1>3, <1>4

LEMMA CreatePaymentStep ==
  ASSUME WalletTypeOK, NEW p \in PaymentIds, NEW u \in EndUsers, NEW a \in Amounts,
         NEW plan \in BOOLEAN, CreatePayment(p, u, a, plan)
  PROVE  WalletTypeOK' /\ UNCHANGED <<balance, walletTx>>
<1>1. [user |-> u, amount |-> a, plan |-> plan, status |-> "pending"] \in Payments
  BY DEF Payments, PaymentStatus
<1>2. QED BY <1>1 DEF CreatePayment, WalletTypeOK

LEMMA ApproveStep ==
  ASSUME WalletTypeOK, NEW p \in PaymentIds, ApprovePayment(p)
  PROVE  WalletTypeOK' /\ L!Next
<1>1. payment[p] \in Payments
  BY DEF ApprovePayment, IsPending, WalletTypeOK
<1> DEFINE u == payment[p].user
           a == payment[p].amount
<1>2. u \in EndUsers /\ a \in Amounts
  BY <1>1 DEF Payments
<1>3. a \in Deltas /\ balance[u] + a \in Nat
  <2>1. a \in Deltas
    BY <1>2 DEF Deltas
  <2>2. a \in Nat /\ balance[u] \in Nat
    BY <1>2, AmountsAssumption DEF WalletTypeOK
  <2>3. QED BY <2>1, <2>2
<1>4. <<"topup_approved", p>> \in Memos
  BY RefsAssumption DEF Memos, Reasons
<1>5. L!Next
  BY <1>2, <1>3, <1>4, SaveBalancePosts DEF ApprovePayment
<1>6. [payment[p] EXCEPT !.status = "approved"] \in Payments
  BY <1>1 DEF Payments, PaymentStatus
<1>7. payment' \in [PaymentIds -> Payments \cup {NoPayment}]
  BY <1>6 DEF ApprovePayment, WalletTypeOK
<1>8. QED BY <1>5, <1>7, LedgerKeepsTypes DEF WalletTypeOK

LEMMA RejectStep ==
  ASSUME WalletTypeOK, NEW p \in PaymentIds, RejectPayment(p)
  PROVE  WalletTypeOK' /\ UNCHANGED <<balance, walletTx>>
<1>1. payment[p] \in Payments
  BY DEF RejectPayment, IsPending, WalletTypeOK
<1>2. [payment[p] EXCEPT !.status = "rejected"] \in Payments
  BY <1>1 DEF Payments, PaymentStatus
<1>3. QED BY <1>2 DEF RejectPayment, WalletTypeOK

\* Every step of the store keeps the types, and posts to the ledger or leaves
\* the ledger alone.
LEMMA WalletStep ==
  ASSUME WalletTypeOK, [WalletNext]_walletVars
  PROVE  WalletTypeOK' /\ [L!Next]_(L!ledgerVars)
<1>1. ASSUME NEW u \in EndUsers, NEW d \in Deltas, AdjustWallet(u, d)
      PROVE  WalletTypeOK' /\ L!Next
  BY <1>1, AdjustStep
<1>2. ASSUME NEW p \in PaymentIds, NEW u \in EndUsers, NEW a \in Amounts \ {0},
             CreatePayment(p, u, a, FALSE)
      PROVE  WalletTypeOK' /\ UNCHANGED <<balance, walletTx>>
  BY <1>2, CreatePaymentStep
<1>3. ASSUME NEW p \in PaymentIds, ApprovePayment(p)
      PROVE  WalletTypeOK' /\ L!Next
  BY <1>3, ApproveStep
<1>4. ASSUME NEW p \in PaymentIds, RejectPayment(p)
      PROVE  WalletTypeOK' /\ UNCHANGED <<balance, walletTx>>
  BY <1>4, RejectStep
<1>5. CASE UNCHANGED walletVars
  BY <1>5 DEF walletVars, WalletTypeOK, L!ledgerVars
<1>6. QED BY <1>1, <1>2, <1>3, <1>4, <1>5 DEF WalletNext, L!ledgerVars

\* Type correctness of the store: whatever is adjusted, approved or rejected, by
\* however many callers, no balance is ever negative.
THEOREM WalletTypeCorrect == WalletSpec => []WalletTypeOK
<1>1. WalletTypeOK /\ [WalletNext]_walletVars => WalletTypeOK'
  BY WalletStep
<1>2. QED BY <1>1, InitTypes, PTL DEF WalletSpec

\* The wallet transactions of repo.go implement the abstract ledger: the store
\* starts in a state of the ledger and every transaction is one posting or none.
THEOREM WalletImplementsLedger == WalletSpec => ImplementsLedger
<1>1. WalletInit => L!Init
  BY InitIsLedgerInit
<1>2. WalletTypeOK /\ [WalletNext]_walletVars => [L!Next]_(L!ledgerVars)
  BY WalletStep
<1>3. QED BY <1>1, <1>2, WalletTypeCorrect, PTL DEF WalletSpec, L!Spec, ImplementsLedger

\* wallet_tx accounts for every toman of every balance, for any number of
\* customers and any interleaving of the wallet transactions.
THEOREM WalletHistoryExplainsBalance == WalletSpec => []HistoryExplainsBalance
<1>1. WalletInit => L!Init
  BY InitIsLedgerInit
<1>2. WalletTypeOK /\ [WalletNext]_walletVars => [L!Next]_(L!ledgerVars)
  BY WalletStep
<1>3. L!HistoryExplainsBalance => HistoryExplainsBalance
  BY DEF HistoryExplainsBalance
<1>4. QED
  BY <1>1, <1>2, <1>3, WalletTypeCorrect, LedgerExplainsBalance, PTL
     DEF WalletSpec, L!Spec

-----------------------------------------------------------------------------
\* A transaction that saves a balance keeps every wallet_tx row and adds one.
LEMMA SaveBalanceRows ==
  ASSUME WalletTypeOK, NEW u \in EndUsers, NEW d, NEW memo, SaveBalance(u, d, memo)
  PROVE  /\ \A v \in EndUsers : \A i \in DOMAIN walletTx[v] :
              i \in DOMAIN walletTx'[v] /\ walletTx'[v][i] = walletTx[v][i]
         /\ \A v \in EndUsers : \A i \in DOMAIN walletTx'[v] :
              \/ i \in DOMAIN walletTx[v] /\ walletTx'[v][i] = walletTx[v][i]
              \/ /\ v = u /\ i = Len(walletTx[u]) + 1
                 /\ walletTx'[v][i].memo = memo /\ walletTx'[v][i].delta = d
         /\ Len(walletTx[u]) + 1 \in DOMAIN walletTx'[u]
         /\ Len(walletTx[u]) + 1 \notin DOMAIN walletTx[u]
         /\ walletTx'[u][Len(walletTx[u]) + 1].memo = memo
         /\ walletTx'[u][Len(walletTx[u]) + 1].delta = d
<1> DEFINE row == WalletTx(d, balance[u] + d, memo)
<1>1. walletTx \in [EndUsers -> Seq(WalletTxRows)]
  BY DEF WalletTypeOK
<1>2. walletTx' = [walletTx EXCEPT ![u] = Append(walletTx[u], row)]
  BY DEF SaveBalance
<1>3. ASSUME NEW v \in EndUsers, v # u PROVE walletTx'[v] = walletTx[v]
  BY <1>1, <1>2, <1>3
<1>4. walletTx'[u] = Append(walletTx[u], row)
  BY <1>1, <1>2
<1>a. row.memo = memo /\ row.delta = d
  BY DEF WalletTx
<1> HIDE DEF row
<1>5. walletTx[u] \in Seq(WalletTxRows)
  BY <1>1
<1>6. /\ DOMAIN walletTx[u] = 1..Len(walletTx[u]) /\ Len(walletTx[u]) \in Nat
      /\ DOMAIN walletTx'[u] = 1..(Len(walletTx[u]) + 1)
      /\ walletTx'[u][Len(walletTx[u]) + 1] = row
      /\ \A i \in 1..Len(walletTx[u]) : walletTx'[u][i] = walletTx[u][i]
  BY <1>4, <1>5
<1>7. QED BY <1>3, <1>6, <1>a

\* A row for one purpose changes nothing for the others.
LEMMA OtherMemosKept ==
  ASSUME WalletTypeOK, NEW u \in EndUsers, NEW d, NEW memo, SaveBalance(u, d, memo),
         NEW other, other # memo
  PROVE  /\ Posted(other)' <=> Posted(other)
         /\ NeverTwice(other) => NeverTwice(other)'
<1>1. \A v \in EndUsers : \A i \in DOMAIN walletTx'[v] :
        walletTx'[v][i].memo = other =>
          i \in DOMAIN walletTx[v] /\ walletTx'[v][i] = walletTx[v][i]
  BY SaveBalanceRows
<1>2. \A v \in EndUsers : \A i \in DOMAIN walletTx[v] :
        i \in DOMAIN walletTx'[v] /\ walletTx'[v][i] = walletTx[v][i]
  BY SaveBalanceRows
<1>3. Posted(other)' <=> Posted(other)
  BY <1>1, <1>2 DEF Posted
<1>4. NeverTwice(other) => NeverTwice(other)'
  BY <1>1, <1>2 DEF NeverTwice
<1>5. QED BY <1>3, <1>4

\* The first row for a purpose is the only one.
LEMMA FirstPosting ==
  ASSUME WalletTypeOK, NEW u \in EndUsers, NEW d, NEW memo, SaveBalance(u, d, memo),
         ~Posted(memo)
  PROVE  Posted(memo)' /\ NeverTwice(memo)'
<1>1. \A v \in EndUsers : \A i \in DOMAIN walletTx'[v] :
        walletTx'[v][i].memo = memo => v = u /\ i = Len(walletTx[u]) + 1
  BY SaveBalanceRows DEF Posted
<1>2. /\ Len(walletTx[u]) + 1 \in DOMAIN walletTx'[u]
      /\ walletTx'[u][Len(walletTx[u]) + 1].memo = memo
  BY SaveBalanceRows
<1>3. Posted(memo)'
  BY <1>2 DEF Posted
<1>4. NeverTwice(memo)'
  BY <1>1 DEF NeverTwice
<1>5. QED BY <1>3, <1>4

\* A top-up is credited when, and only when, its payment is approved, once and in
\* full, for any number of payments and of admins reviewing the same one.
LEMMA CreditedOnceInductive ==
  WalletTypeOK /\ TopUpCreditedOnce /\ [WalletNext]_walletVars => TopUpCreditedOnce'
<1> SUFFICES ASSUME WalletTypeOK, TopUpCreditedOnce, [WalletNext]_walletVars
             PROVE  TopUpCreditedOnce'
  OBVIOUS
<1> DEFINE Memo(p) == <<"topup_approved", p>>
           Good(p) == /\ NeverTwice(Memo(p))
                      /\ Posted(Memo(p)) <=> Approved(p)
                      /\ \A u \in EndUsers : \A i \in DOMAIN walletTx[u] :
                           walletTx[u][i].memo = Memo(p) =>
                             payment[p].user = u /\ payment[p].amount = walletTx[u][i].delta
<1>1. \A p \in PaymentIds : Good(p)
  BY DEF TopUpCreditedOnce
<1>2. SUFFICES ASSUME NEW q \in PaymentIds PROVE Good(q)'
  BY DEF TopUpCreditedOnce
<1>3. Good(q) /\ payment[q] \in Payments \cup {NoPayment}
  BY <1>1 DEF WalletTypeOK
<1>4. ASSUME NEW u \in EndUsers, NEW d, NEW memo, SaveBalance(u, d, memo),
             memo # Memo(q), Approved(q)' <=> Approved(q),
             Approved(q) => payment'[q].user = payment[q].user
                            /\ payment'[q].amount = payment[q].amount
      PROVE  Good(q)'
  <2>1. (Posted(Memo(q))' <=> Posted(Memo(q))) /\ NeverTwice(Memo(q))'
    BY <1>3, <1>4, OtherMemosKept
  <2>2. ASSUME NEW v \in EndUsers, NEW i \in DOMAIN walletTx'[v],
               walletTx'[v][i].memo = Memo(q)
        PROVE  payment'[q].user = v /\ payment'[q].amount = walletTx'[v][i].delta
    <3>1. i \in DOMAIN walletTx[v] /\ walletTx'[v][i] = walletTx[v][i]
      <4>1. \/ i \in DOMAIN walletTx[v] /\ walletTx'[v][i] = walletTx[v][i]
            \/ walletTx'[v][i].memo = memo
        <5> HIDE DEF Memo, Good
        <5>1. \A w \in EndUsers : \A j \in DOMAIN walletTx'[w] :
                \/ j \in DOMAIN walletTx[w] /\ walletTx'[w][j] = walletTx[w][j]
                \/ walletTx'[w][j].memo = memo
          BY <1>4, SaveBalanceRows
        <5>2. QED BY <5>1
      <4>2. QED BY <1>4, <2>2, <4>1
    <3>2. Posted(Memo(q))
      BY <2>2, <3>1 DEF Posted
    <3>3. QED BY <1>3, <1>4, <2>2, <3>1, <3>2
  <2>3. QED BY <1>3, <1>4, <2>1, <2>2
<1>5. ASSUME UNCHANGED walletTx, Approved(q)' <=> Approved(q),
             Approved(q) => payment'[q] = payment[q]
      PROVE  Good(q)'
  <2>1. (Posted(Memo(q))' <=> Posted(Memo(q))) /\ NeverTwice(Memo(q))'
    BY <1>3, <1>5 DEF Posted, NeverTwice
  <2>2. ASSUME NEW v \in EndUsers, NEW i \in DOMAIN walletTx'[v],
               walletTx'[v][i].memo = Memo(q)
        PROVE  payment'[q].user = v /\ payment'[q].amount = walletTx'[v][i].delta
    <3>1. Posted(Memo(q))
      BY <1>5, <2>2 DEF Posted
    <3>2. QED BY <1>3, <1>5, <2>2, <3>1
  <2>3. QED BY <1>3, <1>5, <2>1, <2>2
<1>6. ASSUME NEW u \in EndUsers, NEW d \in Deltas, AdjustWallet(u, d) PROVE Good(q)'
  <2>1. \E x : SaveBalance(u, x, <<"admin_adjust", NoRef>>)
    BY <1>6 DEF AdjustWallet, CreditWallet, DebitWallet
  <2>2. UNCHANGED payment /\ <<"admin_adjust", NoRef>> # Memo(q)
    BY <1>6 DEF AdjustWallet, CreditWallet, DebitWallet
  <2>3. QED BY <1>4, <2>1, <2>2 DEF Approved
<1>7. ASSUME NEW p \in PaymentIds, NEW u \in EndUsers, NEW a \in Amounts \ {0},
             CreatePayment(p, u, a, FALSE)
      PROVE  Good(q)'
  <2>1. UNCHANGED walletTx
    BY <1>7 DEF CreatePayment
  <2>2. CASE p = q
    <3>1. ~Approved(q) /\ ~Approved(q)'
      BY <1>7, <2>2 DEF CreatePayment, Approved, WalletTypeOK
    <3>2. QED BY <1>5, <2>1, <3>1
  <2>3. CASE p # q
    <3>1. payment'[q] = payment[q]
      BY <1>7, <2>3 DEF CreatePayment, WalletTypeOK
    <3>2. QED BY <1>5, <2>1, <3>1 DEF Approved
  <2>4. QED BY <2>2, <2>3
<1>8. ASSUME NEW p \in PaymentIds, ApprovePayment(p) PROVE Good(q)'
  <2> DEFINE u == payment[p].user
             a == payment[p].amount
  <2>1. /\ payment[p] \in Payments /\ payment[p].status = "pending"
        /\ SaveBalance(u, a, Memo(p))
        /\ payment' = [payment EXCEPT ![p].status = "approved"]
    BY <1>8 DEF ApprovePayment, IsPending, WalletTypeOK
  <2>2. u \in EndUsers
    BY <2>1 DEF Payments
  <2>3. CASE p # q
    <3>1. payment'[q] = payment[q] /\ Memo(p) # Memo(q)
      BY <2>1, <2>3 DEF WalletTypeOK
    <3>2. QED BY <1>4, <2>1, <2>2, <3>1 DEF Approved
  <2>4. CASE p = q
    <3>1. ~Approved(q)
      BY <2>1, <2>4 DEF Approved
    <3>2. Posted(Memo(q))' /\ NeverTwice(Memo(q))'
      BY <1>3, <2>1, <2>2, <2>4, <3>1, FirstPosting
    <3>3. /\ payment'[q] = [payment[q] EXCEPT !.status = "approved"]
          /\ payment'[q] \in Payments
      BY <2>1, <2>4 DEF WalletTypeOK, Payments, PaymentStatus
    <3>4. Approved(q)' /\ payment'[q].user = u /\ payment'[q].amount = a
      BY <2>1, <2>4, <3>3, PaymentAssumption DEF Approved, Payments
    <3>5. ASSUME NEW v \in EndUsers, NEW i \in DOMAIN walletTx'[v],
                 walletTx'[v][i].memo = Memo(q)
          PROVE  v = u /\ walletTx'[v][i].delta = a
      <4>1. ~(i \in DOMAIN walletTx[v] /\ walletTx'[v][i] = walletTx[v][i])
        BY <1>3, <3>1, <3>5 DEF Posted
      <4>2. QED BY <2>1, <2>2, <4>1, SaveBalanceRows
    <3>6. QED BY <3>2, <3>4, <3>5
  <2>5. QED BY <2>3, <2>4
<1>9. ASSUME NEW p \in PaymentIds, RejectPayment(p) PROVE Good(q)'
  <2>1. /\ payment[p] \in Payments /\ payment[p].status = "pending"
        /\ UNCHANGED walletTx
        /\ payment' = [payment EXCEPT ![p].status = "rejected"]
    BY <1>9 DEF RejectPayment, IsPending, WalletTypeOK
  <2>2. CASE p # q
    <3>1. payment'[q] = payment[q]
      BY <2>1, <2>2 DEF WalletTypeOK
    <3>2. QED BY <1>5, <2>1, <3>1 DEF Approved
  <2>3. CASE p = q
    <3>1. payment'[q] = [payment[q] EXCEPT !.status = "rejected"]
      BY <2>1, <2>3 DEF WalletTypeOK
    <3>2. ~Approved(q) /\ ~Approved(q)'
      BY <2>1, <2>3, <3>1 DEF Approved, Payments
    <3>3. QED BY <1>5, <2>1, <3>2
  <2>4. QED BY <2>2, <2>3
<1>10. CASE UNCHANGED walletVars
  BY <1>5, <1>10 DEF walletVars, Approved
<1>11. QED BY <1>6, <1>7, <1>8, <1>9, <1>10 DEF WalletNext

\* A top-up is credited when, and only when, its payment is approved: once, in
\* full, to the customer who paid.
THEOREM WalletCreditsOnce == WalletSpec => []TopUpCreditedOnce
<1>1. WalletInit => TopUpCreditedOnce
  <2> SUFFICES ASSUME WalletInit, NEW p \in PaymentIds
               PROVE  /\ NeverTwice(<<"topup_approved", p>>)
                      /\ ~Posted(<<"topup_approved", p>>)
                      /\ ~Approved(p)
                      /\ \A u \in EndUsers : \A i \in DOMAIN walletTx[u] :
                           walletTx[u][i].memo # <<"topup_approved", p>>
    BY DEF TopUpCreditedOnce
  <2>1. \A u \in EndUsers : \A i \in DOMAIN walletTx[u] :
          walletTx[u][i].memo # <<"topup_approved", p>>
    <3> SUFFICES ASSUME NEW u \in EndUsers, NEW i \in DOMAIN walletTx[u]
                 PROVE  walletTx[u][i].memo # <<"topup_approved", p>>
      OBVIOUS
    <3> DEFINE opening == WalletTx(Opening[u], Opening[u], <<"admin_adjust", NoRef>>)
    <3>1. walletTx[u] = IF Opening[u] = 0 THEN <<>> ELSE <<opening>>
      BY DEF WalletInit
    <3>2. opening.memo = <<"admin_adjust", NoRef>>
      BY DEF WalletTx
    <3> HIDE DEF opening
    <3>3. walletTx[u] = <<opening>> /\ i = 1
      BY <3>1
    <3>4. walletTx[u][i] = opening
      BY <3>3
    <3>5. QED BY <3>2, <3>4
  <2>2. ~Approved(p)
    BY DEF WalletInit, Approved
  <2>3. QED BY <2>1, <2>2 DEF Posted, NeverTwice
<1>2. QED BY <1>1, CreditedOnceInductive, WalletTypeCorrect, PTL DEF WalletSpec
=============================================================================
