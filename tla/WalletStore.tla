----------------------------- MODULE WalletStore -----------------------------
(***************************************************************************)
(* The wallet transactions of the store (internal/db/repo.go): the         *)
(* balance_toman column of end_users, the wallet_tx rows and the payments. *)
(* Every operation here is one database transaction that first locks the   *)
(* rows it reads with SELECT ... FOR UPDATE, so it is one atomic action; a *)
(* transaction that fails is rolled back and changes nothing.              *)
(***************************************************************************)
EXTENDS Integers, Sequences, FiniteSets

CONSTANTS
  EndUsers,     \* the customers of one bot
  Amounts,      \* the amounts in toman a transaction may move
  PaymentIds,   \* the rows the payments table may hold
  Refs,         \* what a wallet_tx row may refer to
  NoRef,        \* ref_id 0: an adjustment refers to nothing
  NoPayment,    \* a payments row not created yet
  Opening,      \* the balance each customer has at the start
  MaxTx         \* bound: wallet_tx rows per customer the adjustments may add up to

Reasons == {"plan_purchase", "provision_refund", "topup_approved", "admin_adjust"}

Memos == Reasons \X Refs

PaymentStatus == {"pending", "approved", "rejected"}

\* A payment row; plan says whether it has an order_id.
Payments == [user : EndUsers, amount : Amounts, plan : BOOLEAN, status : PaymentStatus]

ASSUME AmountsAssumption == Amounts \subseteq Nat
ASSUME RefsAssumption    == PaymentIds \subseteq Refs /\ NoRef \in Refs
ASSUME PaymentAssumption == NoPayment \notin Payments
ASSUME OpeningAssumption == Opening \in [EndUsers -> Amounts]
ASSUME MaxTxAssumption   == MaxTx \in Nat

VARIABLES
  balance,    \* end_users.balance_toman
  walletTx,   \* the wallet_tx rows of each customer, oldest first
  payment     \* the payments table

walletVars == <<balance, walletTx, payment>>

Deltas == Amounts \cup {-a : a \in Amounts}

\* A wallet_tx row: balance_after is the balance the same transaction saved.
WalletTx(delta, after, memo) == [delta |-> delta, after |-> after, memo |-> memo]

WalletTxRows == [delta : Deltas, after : Nat, memo : Memos]

WalletTypeOK ==
  /\ balance \in [EndUsers -> Nat]
  /\ walletTx \in [EndUsers -> Seq(WalletTxRows)]
  /\ payment \in [PaymentIds -> Payments \cup {NoPayment}]

WalletInit ==
  /\ balance = Opening
  /\ walletTx = [u \in EndUsers |->
                   IF Opening[u] = 0 THEN <<>>
                   ELSE <<WalletTx(Opening[u], Opening[u], <<"admin_adjust", NoRef>>)>>]
  /\ payment = [p \in PaymentIds |-> NoPayment]

-----------------------------------------------------------------------------
\* A wallet_tx row that records the balance read before the update.
SaveBalanceStaleAfter(u, delta, memo) ==
  /\ balance' = [balance EXCEPT ![u] = @ + delta]
  /\ walletTx' = [walletTx EXCEPT ![u] = Append(@, WalletTx(delta, balance[u], memo))]

\* The tail both wallet transactions and the approval share: save the locked
\* end_users row with the new balance, then create the wallet_tx row.
SaveBalance(u, delta, memo) ==
  /\ balance' = [balance EXCEPT ![u] = @ + delta]
  /\ walletTx' = [walletTx EXCEPT
                    ![u] = Append(@, WalletTx(delta, balance[u] + delta, memo))]

CreditWallet(u, amount, memo) ==
  /\ SaveBalance(u, amount, memo)
  /\ UNCHANGED payment

\* ErrInsufficientBalance is the case in which this action is not enabled.
DebitWallet(u, amount, memo) ==
  /\ balance[u] >= amount
  /\ SaveBalance(u, -amount, memo)
  /\ UNCHANGED payment

CreatePayment(p, u, amount, plan) ==
  /\ payment[p] = NoPayment
  /\ payment' = [payment EXCEPT
                   ![p] = [user |-> u, amount |-> amount, plan |-> plan,
                           status |-> "pending"]]
  /\ UNCHANGED <<balance, walletTx>>

IsPending(p) == payment[p] # NoPayment /\ payment[p].status = "pending"

\* A review that looks only whether the payment exists.
ApprovePaymentAgain(p) ==
  /\ payment[p] # NoPayment
  /\ payment' = [payment EXCEPT ![p].status = "approved"]
  /\ SaveBalance(payment[p].user, payment[p].amount, <<"topup_approved", p>>)

ApprovePayment(p) ==
  /\ IsPending(p)
  /\ payment' = [payment EXCEPT ![p].status = "approved"]
  /\ SaveBalance(payment[p].user, payment[p].amount, <<"topup_approved", p>>)

\* A rejection that does not look at the status it overwrites.
RejectPaymentAnyStatus(p) ==
  /\ payment[p] # NoPayment
  /\ payment' = [payment EXCEPT ![p].status = "rejected"]
  /\ UNCHANGED <<balance, walletTx>>

RejectPayment(p) ==
  /\ IsPending(p)
  /\ payment' = [payment EXCEPT ![p].status = "rejected"]
  /\ UNCHANGED <<balance, walletTx>>

\* BotService.AdjustWallet: a positive delta credits, a negative one debits.
AdjustWallet(u, delta) ==
  /\ Len(walletTx[u]) < MaxTx
  /\ \/ delta > 0 /\ CreditWallet(u, delta, <<"admin_adjust", NoRef>>)
     \/ delta < 0 /\ DebitWallet(u, -delta, <<"admin_adjust", NoRef>>)

WalletNext ==
  \/ \E u \in EndUsers, d \in Deltas : AdjustWallet(u, d)
  \/ \E p \in PaymentIds, u \in EndUsers, a \in Amounts \ {0} :
        CreatePayment(p, u, a, FALSE)
  \/ \E p \in PaymentIds : ApprovePayment(p) \/ RejectPayment(p)

WalletSpec == WalletInit /\ [][WalletNext]_walletVars

-----------------------------------------------------------------------------
\* Some wallet_tx row was written for this purpose.
Posted(memo) ==
  \E u \in EndUsers : \E i \in DOMAIN walletTx[u] : walletTx[u][i].memo = memo

\* No two wallet_tx rows were written for this purpose.
NeverTwice(memo) ==
  \A u, v \in EndUsers : \A i \in DOMAIN walletTx[u], j \in DOMAIN walletTx[v] :
     walletTx[u][i].memo = memo /\ walletTx[v][j].memo = memo => u = v /\ i = j

Approved(p) == payment[p] # NoPayment /\ payment[p].status = "approved"

\* A top-up is credited when, and only when, its payment is approved: once, in
\* full, and to the customer who paid. This is what the lock and the pending
\* check of ApprovePayment and RejectPayment are for when two admins review the
\* same payment.
TopUpCreditedOnce ==
  \A p \in PaymentIds :
    LET memo == <<"topup_approved", p>>
    IN  /\ NeverTwice(memo)
        /\ Posted(memo) <=> Approved(p)
        /\ \A u \in EndUsers : \A i \in DOMAIN walletTx[u] :
             walletTx[u][i].memo = memo =>
               payment[p].user = u /\ payment[p].amount = walletTx[u][i].delta

\* The store implements the wallet every customer is promised.
L == INSTANCE Ledger WITH Users <- EndUsers, history <- walletTx

\* wallet_tx accounts for every toman of every balance: each balance_after is the
\* previous one plus the row's delta, and the last one is the balance
\* (CreditWallet, DebitWallet and ApprovePayment write both rows in one transaction).
HistoryExplainsBalance == L!HistoryExplainsBalance

\* The wallet transactions only ever post to the ledger.
ImplementsLedger == L!Spec
=============================================================================
