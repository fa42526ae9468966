---------------------------- MODULE CheckoutProofs ----------------------------
(***************************************************************************)
(* Proofs about buying from the wallet, for any customers, requests,       *)
(* prices and failures.  Everything rests on one inductive invariant,      *)
(* which says for each call a request may make next what has happened to   *)
(* its money, its order, its panel user and its service so far.            *)
(***************************************************************************)
EXTENDS Checkout, WalletStoreProofs

\* A purchase may post what it posts.
LEMMA PurchaseMemos ==
  ASSUME TypeOK, NEW r \in Requests
  PROVE  /\ buyer[r] \in EndUsers /\ cost[r] \in Amounts
         /\ Charge(r) \in Memos /\ Refund(r) \in Memos
BY PricesAssumption, RequestsAssumption DEF TypeOK, Charge, Refund, Memos, Reasons

\* The wallet half of a credit or a debit: the types are kept.
LEMMA CreditKeepsTypes ==
  ASSUME WalletTypeOK, NEW u \in EndUsers, NEW a \in Amounts, NEW m \in Memos,
         CreditWallet(u, a, m)
  PROVE  WalletTypeOK' /\ L!Next
<1>1. L!Next /\ UNCHANGED payment
  BY CreditPosts DEF CreditWallet
<1>2. QED BY <1>1, LedgerKeepsTypes DEF WalletTypeOK

LEMMA DebitKeepsTypes ==
  ASSUME WalletTypeOK, NEW u \in EndUsers, NEW a \in Amounts, NEW m \in Memos,
         DebitWallet(u, a, m)
  PROVE  WalletTypeOK' /\ L!Next
<1>1. L!Next /\ UNCHANGED payment
  BY DebitPosts DEF DebitWallet
<1>2. QED BY <1>1, LedgerKeepsTypes DEF WalletTypeOK

LEMMA IdleKeepsTypes ==
  ASSUME WalletTypeOK, UNCHANGED walletVars
  PROVE  WalletTypeOK'
BY DEF WalletTypeOK, walletVars

-----------------------------------------------------------------------------
\* What a call of request r does to the wallets: nothing, the charge, or the
\* refund.
LEMMA StepMoney ==
  ASSUME TypeOK, NEW r \in Requests, Step(r)
  PROVE  \/ UNCHANGED walletVars
         \/ /\ pc[r] = "debit" /\ pc' = [pc EXCEPT ![r] = "order"]
            /\ DebitWallet(buyer[r], cost[r], Charge(r))
         \/ /\ pc[r] = "refund" /\ pc' = [pc EXCEPT ![r] = "reject"]
            /\ CreditWallet(buyer[r], cost[r], Refund(r))
<1>1. CASE Debit(r)
  BY <1>1 DEF Debit, GoTo
<1>2. CASE RefundBuyer(r)
  BY <1>2 DEF RefundBuyer, GoTo
<1>3. CASE ~Debit(r) /\ ~RefundBuyer(r)
  BY <1>3 DEF Step, LockPurchases, ReadUser, CheckPrice, CreateOrder, PrepareProvision,
     CreatePanelUser, CreateService, DeletePanelUser, RejectOrder, MarkOrderProvisioned
<1>4. QED BY <1>1, <1>2, <1>3

\* Whatever a request does to the wallets is typed, and a posting or a stutter
\* of the ledger.
LEMMA StepWallet ==
  ASSUME TypeOK, NEW r \in Requests, Step(r)
  PROVE  WalletTypeOK' /\ [L!Next]_(L!ledgerVars)
<1>1. WalletTypeOK
  BY DEF TypeOK
<1>2. CASE UNCHANGED walletVars
  BY <1>1, <1>2, IdleKeepsTypes DEF walletVars, L!ledgerVars
<1>3. CASE DebitWallet(buyer[r], cost[r], Charge(r))
  BY <1>1, <1>3, PurchaseMemos, DebitKeepsTypes
<1>4. CASE CreditWallet(buyer[r], cost[r], Refund(r))
  BY <1>1, <1>4, PurchaseMemos, CreditKeepsTypes
<1>5. QED BY <1>2, <1>3, <1>4, StepMoney

\* The types of everything but the wallets.
RequestTypes ==
  /\ pc \in [Requests -> Calls \cup {"new", "done", "dead"}]
  /\ channel \in [Requests -> {"bot", "miniapp"}]
  /\ buyer \in [Requests -> EndUsers]
  /\ seen \in [Requests -> Nat]
  /\ cost \in [Requests -> Prices]
  /\ buyMu \in [EndUsers -> Requests \cup {Nobody}]
  /\ cancelled \in SUBSET Requests
  /\ order \in [Requests -> {"none", "approved", "provisioned", "rejected"}]
  /\ account \in SUBSET Requests
  /\ service \in SUBSET Requests
  /\ told \in [Requests -> {"nothing", "insufficient", "service_ready", "order_failed"}]
  /\ failed \in [Requests -> SUBSET Droppable]

LEMMA Types == TypeOK <=> WalletTypeOK /\ RequestTypes
BY DEF TypeOK, RequestTypes

\* Each call of a request keeps the types.
LEMMA StepKeepsTypes ==
  ASSUME TypeOK, NEW r \in Requests, Step(r)
  PROVE  TypeOK'
<1>1. WalletTypeOK /\ RequestTypes
  BY Types
<1>2. balance[buyer[r]] \in Nat
  BY <1>1 DEF WalletTypeOK, RequestTypes
<1>a. \A c \in Calls \cup {"new", "done", "dead"} : GoTo(r, c) =>
        pc' \in [Requests -> Calls \cup {"new", "done", "dead"}]
  BY <1>1 DEF RequestTypes, GoTo
<1>b. Return(r) => /\ pc' \in [Requests -> Calls \cup {"new", "done", "dead"}]
                   /\ buyMu' \in [EndUsers -> Requests \cup {Nobody}]
  BY <1>1, <1>a DEF RequestTypes, Return
<1>c. \A t \in {"nothing", "insufficient", "service_ready", "order_failed"} : Tell(r, t) =>
        told' \in [Requests -> {"nothing", "insufficient", "service_ready", "order_failed"}]
  BY <1>1 DEF RequestTypes, Tell
<1>d. pc[r] \in Droppable /\ Drop(r) => failed' \in [Requests -> SUBSET Droppable]
  BY <1>1 DEF RequestTypes, Drop
<1>2a. SUFFICES RequestTypes'
  BY StepWallet DEF TypeOK, RequestTypes
<1>3. CASE LockPurchases(r)
  BY <1>1, <1>3, <1>a DEF RequestTypes, LockPurchases, effectVars, Calls
<1>4. CASE ReadUser(r)
  BY <1>1, <1>2, <1>4, <1>a, <1>b DEF RequestTypes, ReadUser, effectVars, Calls
<1>5. CASE CheckPrice(r)
  BY <1>1, <1>5, <1>a, <1>b, <1>c DEF RequestTypes, CheckPrice, effectVars, Calls
<1>6. CASE Debit(r)
  BY <1>1, <1>6, <1>a, <1>b DEF RequestTypes, Debit, effectVars, Calls
<1>7. CASE CreateOrder(r)
  BY <1>1, <1>7, <1>a, <1>b, <1>d DEF RequestTypes, CreateOrder, Calls, Droppable
<1>8. CASE PrepareProvision(r)
  BY <1>1, <1>8, <1>a DEF RequestTypes, PrepareProvision, effectVars, Calls
<1>9. CASE CreatePanelUser(r)
  BY <1>1, <1>9, <1>a, <1>d DEF RequestTypes, CreatePanelUser, Calls, Droppable
<1>10. CASE CreateService(r)
  BY <1>1, <1>10, <1>a DEF RequestTypes, CreateService, Calls
<1>11. CASE DeletePanelUser(r)
  BY <1>1, <1>11, <1>a, <1>d DEF RequestTypes, DeletePanelUser, Calls, Droppable
<1>12. CASE RefundBuyer(r)
  BY <1>1, <1>12, <1>a, <1>d DEF RequestTypes, RefundBuyer, Calls, Droppable
<1>13. CASE RejectOrder(r)
  BY <1>1, <1>13, <1>b, <1>c, <1>d DEF RequestTypes, RejectOrder, Calls, Droppable
<1>14. CASE MarkOrderProvisioned(r)
  BY <1>1, <1>14, <1>b, <1>c, <1>d DEF RequestTypes, MarkOrderProvisioned, Calls, Droppable
<1>15. QED
  BY <1>3, <1>4, <1>5, <1>6, <1>7, <1>8, <1>9, <1>10, <1>11, <1>12, <1>13, <1>14 DEF Step
\* Everything a step may be: a request's arrival, call or hang-up, another wallet
\* transaction, a crash, or nothing.
LEMMA OtherWalletTypes ==
  ASSUME WalletTypeOK, WalletNext
  PROVE  WalletTypeOK' /\ [L!Next]_(L!ledgerVars)
BY WalletStep

LEMMA NextKeepsTypes ==
  ASSUME TypeOK, [Next]_vars
  PROVE  TypeOK' /\ [L!Next]_(L!ledgerVars)
<1>1. WalletTypeOK /\ RequestTypes
  BY Types
<1>a. UNCHANGED walletVars => WalletTypeOK' /\ [L!Next]_(L!ledgerVars)
  BY <1>1, IdleKeepsTypes DEF walletVars, L!ledgerVars
<1>2. ASSUME NEW r \in Requests, Step(r) PROVE TypeOK' /\ [L!Next]_(L!ledgerVars)
  BY <1>2, StepKeepsTypes, StepWallet
<1>3. ASSUME NEW r \in Requests, Arrive(r) PROVE TypeOK' /\ [L!Next]_(L!ledgerVars)
  <2>1. RequestTypes'
    BY <1>1, <1>3 DEF RequestTypes, Arrive, GoTo, effectVars, Calls
  <2>2. QED BY <1>3, <1>a, <2>1 DEF Arrive, TypeOK, RequestTypes
<1>4. ASSUME NEW r \in Requests, HangUp(r) PROVE TypeOK' /\ [L!Next]_(L!ledgerVars)
  <2>1. RequestTypes'
    BY <1>1, <1>4 DEF RequestTypes, HangUp, effectVars
  <2>2. QED BY <1>4, <1>a, <2>1 DEF HangUp, TypeOK, RequestTypes
<1>5. CASE OtherWalletStep
  <2>1. RequestTypes'
    BY <1>1, <1>5 DEF RequestTypes, OtherWalletStep, requestVars, effectVars
  <2>2. WalletTypeOK' /\ [L!Next]_(L!ledgerVars)
    BY <1>1, <1>5, OtherWalletTypes DEF OtherWalletStep
  <2>3. QED BY <2>1, <2>2 DEF TypeOK, RequestTypes
<1>6. CASE Crash
  <2>1. RequestTypes'
    BY <1>1, <1>6 DEF RequestTypes, Crash, effectVars
  <2>2. QED BY <1>6, <1>a, <2>1 DEF Crash, TypeOK, RequestTypes
<1>7. CASE UNCHANGED vars
  <2>1. RequestTypes'
    BY <1>1, <1>7 DEF RequestTypes, vars, requestVars, effectVars
  <2>2. QED BY <1>7, <1>a, <2>1 DEF vars, TypeOK, RequestTypes
<1>8. QED BY <1>2, <1>3, <1>4, <1>5, <1>6, <1>7 DEF Next

LEMMA CheckoutInitTypes == Init => TypeOK /\ L!Init
<1>1. Init => WalletTypeOK /\ L!Init
  BY InitTypes, InitIsLedgerInit DEF Init
<1>2. Init => RequestTypes
  BY DEF Init, RequestTypes
<1>3. QED BY <1>1, <1>2, Types

\* Type correctness of the checkout: however requests interleave with each other,
\* with failures and with other wallet transactions, no balance is negative.
THEOREM CheckoutTypeCorrect == Spec => []TypeOK
<1>1. TypeOK /\ [Next]_vars => TypeOK'
  BY NextKeepsTypes
<1>2. QED BY <1>1, CheckoutInitTypes, PTL DEF Spec

\* Purchases and the wallet transactions beside them still implement the ledger.
THEOREM CheckoutImplementsLedger == Spec => ImplementsLedger
<1>1. Init => L!Init
  BY CheckoutInitTypes
<1>2. TypeOK /\ [Next]_vars => [L!Next]_(L!ledgerVars)
  BY NextKeepsTypes
<1>3. QED BY <1>1, <1>2, CheckoutTypeCorrect, PTL DEF Spec, ImplementsLedger, L!Spec
-----------------------------------------------------------------------------
\* The wallet_tx rows of a purchase: at most one charge and one refund, each of
\* the price.
MoneyRight(r) ==
  /\ NeverTwice(Charge(r)) /\ NeverTwice(Refund(r))
  /\ \A i \in DOMAIN walletTx[buyer[r]] :
       LET tx == walletTx[buyer[r]][i]
       IN  /\ tx.memo = Charge(r) => tx.delta = -cost[r]
           /\ tx.memo = Refund(r) => tx.delta = cost[r]

\* What has happened to a request's money, panel user, order and service when it
\* is about to make each call, and what is left of it when it is done.
Stage(r) ==
  /\ pc[r] \in {"new", "lock", "read", "plan", "debit"} =>
       /\ ~Charged(r) /\ ~Refunded(r) /\ r \notin service /\ r \notin account
       /\ order[r] = "none" /\ failed[r] = {}
  /\ pc[r] = "order" =>
       /\ Charged(r) /\ ~Refunded(r) /\ r \notin service /\ r \notin account
       /\ order[r] = "none" /\ failed[r] = {}
  /\ pc[r] \in {"prepare", "panel"} =>
       /\ Charged(r) /\ ~Refunded(r) /\ r \notin service /\ r \notin account
       /\ order[r] = "approved" /\ failed[r] = {}
  /\ pc[r] \in {"row", "undo"} =>
       /\ Charged(r) /\ ~Refunded(r) /\ r \notin service /\ r \in account
       /\ order[r] = "approved" /\ failed[r] = {}
  /\ pc[r] = "refund" =>
       /\ Charged(r) /\ ~Refunded(r) /\ r \notin service
       /\ order[r] = "approved"
  /\ pc[r] = "reject" =>
       /\ Charged(r) /\ (Refunded(r) \/ "refund" \in failed[r]) /\ r \notin service
       /\ order[r] = "approved"
  /\ pc[r] = "mark" =>
       /\ Charged(r) /\ ~Refunded(r) /\ r \in service /\ r \in account
       /\ order[r] = "approved"
  /\ pc[r] = "done" =>
       /\ Charged(r) => \/ r \in service \/ Refunded(r)
                        \/ "order" \in failed[r] \/ "refund" \in failed[r]
       /\ order[r] = "approved" => "reject" \in failed[r] \/ "mark" \in failed[r]
  /\ pc[r] \in {"refund", "reject", "done"} /\ r \in account /\ r \notin service =>
       "panel" \in failed[r] \/ "undo" \in failed[r]
  /\ r \in service => Charged(r) /\ ~Refunded(r) /\ r \in account
  /\ Refunded(r) => Charged(r)
  /\ order[r] = "provisioned" => r \in service
  /\ order[r] = "rejected" => r \notin service

\* The inductive invariant.
IInv == TypeOK /\ \A r \in Requests : MoneyRight(r) /\ Stage(r)

\* A wallet step for another purpose leaves a purchase's rows as they are.
LEMMA OtherMoneyKept ==
  ASSUME TypeOK, NEW r \in Requests, MoneyRight(r), buyer' = buyer, cost' = cost,
         \/ UNCHANGED walletTx
         \/ \E u \in EndUsers : \E d : \E m : /\ m # Charge(r) /\ m # Refund(r)
                                            /\ SaveBalance(u, d, m)
  PROVE  MoneyRight(r)' /\ (Charged(r)' <=> Charged(r)) /\ (Refunded(r)' <=> Refunded(r))
<1>1. CASE UNCHANGED walletTx
  BY <1>1 DEF MoneyRight, Charged, Refunded, Posted, NeverTwice, Charge, Refund
<1>2. ASSUME NEW u \in EndUsers, NEW d, NEW m, m # Charge(r), m # Refund(r),
             SaveBalance(u, d, m)
      PROVE  MoneyRight(r)' /\ (Charged(r)' <=> Charged(r)) /\ (Refunded(r)' <=> Refunded(r))
  <2>1. WalletTypeOK /\ buyer[r] \in EndUsers
    BY DEF TypeOK
  <2> DEFINE C == Charge(r)
             R == Refund(r)
  <2>2. C' = C /\ R' = R
    BY DEF Charge, Refund
  <2>3. /\ Posted(C)' <=> Posted(C)
        /\ NeverTwice(C) => NeverTwice(C)'
    BY <1>2, <2>1, OtherMemosKept DEF Charge
  <2>4. /\ Posted(R)' <=> Posted(R)
        /\ NeverTwice(R) => NeverTwice(R)'
    BY <1>2, <2>1, OtherMemosKept DEF Refund
  <2>5. \A i \in DOMAIN walletTx'[buyer[r]] :
          \/ i \in DOMAIN walletTx[buyer[r]] /\ walletTx'[buyer[r]][i] = walletTx[buyer[r]][i]
          \/ walletTx'[buyer[r]][i].memo # Charge(r) /\ walletTx'[buyer[r]][i].memo # Refund(r)
    BY <1>2, <2>1, SaveBalanceRows
  <2>6. MoneyRight(r)'
    BY <2>3, <2>4, <2>5 DEF MoneyRight, Charge, Refund
  <2>7. QED BY <2>3, <2>4, <2>6 DEF Charged, Refunded
<1>3. QED BY <1>1, <1>2

\* The first charge of a request, and its first refund, are right.
LEMMA OwnMoney ==
  ASSUME TypeOK, NEW r \in Requests, MoneyRight(r), buyer' = buyer, cost' = cost
  PROVE  /\ ~Charged(r) /\ SaveBalance(buyer[r], -cost[r], Charge(r)) =>
              MoneyRight(r)' /\ Charged(r)' /\ (Refunded(r)' <=> Refunded(r))
         /\ ~Refunded(r) /\ SaveBalance(buyer[r], cost[r], Refund(r)) =>
              MoneyRight(r)' /\ Refunded(r)' /\ (Charged(r)' <=> Charged(r))
<1>1. WalletTypeOK /\ buyer[r] \in EndUsers
  BY DEF TypeOK
<1>2. Charge(r) # Refund(r)
  BY DEF Charge, Refund
<1>3. ASSUME ~Charged(r), SaveBalance(buyer[r], -cost[r], Charge(r))
      PROVE  MoneyRight(r)' /\ Charged(r)' /\ (Refunded(r)' <=> Refunded(r))
  <2>1. Posted(Charge(r))' /\ NeverTwice(Charge(r))'
    BY <1>1, <1>3, FirstPosting DEF Charged, Charge
  <2>2. (Posted(Refund(r))' <=> Posted(Refund(r))) /\ NeverTwice(Refund(r))'
    BY <1>1, <1>2, <1>3, OtherMemosKept DEF MoneyRight, Refund
  <2>3. \A i \in DOMAIN walletTx'[buyer[r]] :
          \/ i \in DOMAIN walletTx[buyer[r]] /\ walletTx'[buyer[r]][i] = walletTx[buyer[r]][i]
          \/ walletTx'[buyer[r]][i].memo = Charge(r) /\ walletTx'[buyer[r]][i].delta = -cost[r]
    BY <1>1, <1>3, SaveBalanceRows
  <2>4. MoneyRight(r)'
    BY <1>2, <2>1, <2>2, <2>3 DEF MoneyRight, Charge, Refund
  <2>5. QED BY <2>1, <2>2, <2>4 DEF Charged, Refunded
<1>4. ASSUME ~Refunded(r), SaveBalance(buyer[r], cost[r], Refund(r))
      PROVE  MoneyRight(r)' /\ Refunded(r)' /\ (Charged(r)' <=> Charged(r))
  <2>1. Posted(Refund(r))' /\ NeverTwice(Refund(r))'
    BY <1>1, <1>4, FirstPosting DEF Refunded, Refund
  <2>2. (Posted(Charge(r))' <=> Posted(Charge(r))) /\ NeverTwice(Charge(r))'
    BY <1>1, <1>2, <1>4, OtherMemosKept DEF MoneyRight, Charge
  <2>3. \A i \in DOMAIN walletTx'[buyer[r]] :
          \/ i \in DOMAIN walletTx[buyer[r]] /\ walletTx'[buyer[r]][i] = walletTx[buyer[r]][i]
          \/ walletTx'[buyer[r]][i].memo = Refund(r) /\ walletTx'[buyer[r]][i].delta = cost[r]
    BY <1>1, <1>4, SaveBalanceRows
  <2>4. MoneyRight(r)'
    BY <1>2, <2>1, <2>2, <2>3 DEF MoneyRight, Charge, Refund
  <2>5. QED BY <2>1, <2>2, <2>4 DEF Charged, Refunded
<1>5. QED BY <1>3, <1>4
\* A call of a request takes it from one stage to the next.
LEMMA StageStep ==
  ASSUME TypeOK, NEW r \in Requests, MoneyRight(r), Stage(r), Step(r)
  PROVE  MoneyRight(r)' /\ Stage(r)'
<1>1. /\ pc \in [Requests -> Calls \cup {"new", "done", "dead"}]
      /\ order \in [Requests -> {"none", "approved", "provisioned", "rejected"}]
      /\ failed \in [Requests -> SUBSET Droppable]
  BY DEF TypeOK
<1>3. buyer' = buyer /\ cost' = cost
  BY DEF Step, LockPurchases, ReadUser, CheckPrice, Debit, CreateOrder, PrepareProvision,
     CreatePanelUser, CreateService, DeletePanelUser, RefundBuyer, RejectOrder,
     MarkOrderProvisioned
<1>2. UNCHANGED walletVars =>
        MoneyRight(r)' /\ (Charged(r)' <=> Charged(r)) /\ (Refunded(r)' <=> Refunded(r))
  BY <1>3, OtherMoneyKept DEF walletVars
<1>4. CASE LockPurchases(r)
  BY <1>1, <1>2, <1>4 DEF Stage, LockPurchases, GoTo, effectVars
<1>5. CASE ReadUser(r)
  BY <1>1, <1>2, <1>5 DEF Stage, ReadUser, GoTo, Return, effectVars
<1>6. CASE CheckPrice(r)
  BY <1>1, <1>2, <1>6 DEF Stage, CheckPrice, GoTo, Return, effectVars
<1>7. CASE CreateOrder(r)
  BY <1>1, <1>2, <1>7 DEF Stage, CreateOrder, GoTo, Return, Drop
<1>8. CASE PrepareProvision(r)
  BY <1>1, <1>2, <1>8 DEF Stage, PrepareProvision, GoTo, effectVars
<1>9. CASE CreatePanelUser(r)
  BY <1>1, <1>2, <1>9 DEF Stage, CreatePanelUser, GoTo, Drop
<1>10. CASE CreateService(r)
  BY <1>1, <1>2, <1>10 DEF Stage, CreateService, GoTo
<1>11. CASE DeletePanelUser(r)
  BY <1>1, <1>2, <1>11 DEF Stage, DeletePanelUser, GoTo, Drop
<1>12. CASE RejectOrder(r)
  BY <1>1, <1>2, <1>12 DEF Stage, RejectOrder, GoTo, Return, Drop
<1>13. CASE MarkOrderProvisioned(r)
  BY <1>1, <1>2, <1>13 DEF Stage, MarkOrderProvisioned, GoTo, Return, Drop
<1>14. CASE Debit(r)
  <2>1. CASE DebitWallet(buyer[r], cost[r], Charge(r)) /\ GoTo(r, "order")
    <3>1. ~Charged(r) /\ SaveBalance(buyer[r], -cost[r], Charge(r))
      BY <1>14, <2>1 DEF Debit, DebitWallet, Stage
    <3>2. MoneyRight(r)' /\ Charged(r)' /\ (Refunded(r)' <=> Refunded(r))
      BY <1>3, <3>1, OwnMoney
    <3>3. QED BY <1>1, <1>14, <2>1, <3>2 DEF Debit, Stage, GoTo, effectVars
  <2>2. CASE Return(r) /\ UNCHANGED walletVars
    BY <1>1, <1>2, <1>14, <2>2 DEF Debit, Stage, Return, GoTo, effectVars
  <2>3. QED BY <1>14, <2>1, <2>2 DEF Debit
<1>15. CASE RefundBuyer(r)
  <2>1. CASE CreditWallet(buyer[r], cost[r], Refund(r)) /\ UNCHANGED failed
    <3>1. ~Refunded(r) /\ SaveBalance(buyer[r], cost[r], Refund(r))
      BY <1>15, <2>1 DEF RefundBuyer, CreditWallet, Stage
    <3>2. MoneyRight(r)' /\ Refunded(r)' /\ (Charged(r)' <=> Charged(r))
      BY <1>3, <3>1, OwnMoney
    <3>3. QED BY <1>1, <1>15, <2>1, <3>2 DEF RefundBuyer, Stage, GoTo
  <2>2. CASE Drop(r) /\ UNCHANGED walletVars
    BY <1>1, <1>2, <1>15, <2>2 DEF RefundBuyer, Stage, Drop, GoTo
  <2>3. QED BY <1>15, <2>1, <2>2 DEF RefundBuyer
<1>16. QED BY <1>4, <1>5, <1>6, <1>7, <1>8, <1>9, <1>10, <1>11, <1>12, <1>13, <1>14, <1>15 DEF Step

\* What a request has come to depends on its own calls only.
LEMMA StageKept ==
  ASSUME NEW s \in Requests, Stage(s),
         pc'[s] = pc[s], order'[s] = order[s], failed'[s] = failed[s],
         s \in account' <=> s \in account, s \in service' <=> s \in service,
         Charged(s)' <=> Charged(s), Refunded(s)' <=> Refunded(s)
  PROVE  Stage(s)'
BY DEF Stage

\* The calls of one request leave the others where they are.
LEMMA OthersKept ==
  ASSUME TypeOK, NEW r \in Requests, NEW s \in Requests, r # s,
         MoneyRight(s), Stage(s), Step(r)
  PROVE  /\ MoneyRight(s)' /\ Stage(s)'
         /\ Charged(s)' <=> Charged(s)
         /\ Refunded(s)' <=> Refunded(s)
         /\ Delivered(s)' <=> Delivered(s)
<1>1. /\ pc'[s] = pc[s] /\ order'[s] = order[s] /\ failed'[s] = failed[s]
      /\ s \in account' <=> s \in account
      /\ s \in service' <=> s \in service
      /\ buyer' = buyer /\ cost' = cost
  BY DEF TypeOK, Step, LockPurchases, ReadUser, CheckPrice, Debit, CreateOrder,
     PrepareProvision, CreatePanelUser, CreateService, DeletePanelUser, RefundBuyer,
     RejectOrder, MarkOrderProvisioned, GoTo, Return, Drop, effectVars
<1>2. /\ Charge(r) # Charge(s) /\ Charge(r) # Refund(s)
      /\ Refund(r) # Charge(s) /\ Refund(r) # Refund(s)
  BY DEF Charge, Refund
<1>3. \/ UNCHANGED walletTx
      \/ \E u \in EndUsers : \E d : \E m : /\ m # Charge(s) /\ m # Refund(s)
                                         /\ SaveBalance(u, d, m)
  BY <1>2, StepMoney, PurchaseMemos DEF walletVars, DebitWallet, CreditWallet
<1>4. MoneyRight(s)' /\ (Charged(s)' <=> Charged(s)) /\ (Refunded(s)' <=> Refunded(s))
  BY <1>1, <1>3, OtherMoneyKept
<1>5. QED BY <1>1, <1>4, StageKept DEF Delivered

\* No other wallet transaction posts for a purchase.
LEMMA OtherWalletKept ==
  ASSUME TypeOK, NEW s \in Requests, MoneyRight(s), buyer' = buyer, cost' = cost, WalletNext
  PROVE  MoneyRight(s)' /\ (Charged(s)' <=> Charged(s)) /\ (Refunded(s)' <=> Refunded(s))
<1> DEFINE Other == \/ UNCHANGED walletTx
                    \/ \E u \in EndUsers : \E d : \E m : /\ m # Charge(s) /\ m # Refund(s)
                                                       /\ SaveBalance(u, d, m)
<1>1. \A p : /\ <<"admin_adjust", NoRef>> # Charge(s) /\ <<"admin_adjust", NoRef>> # Refund(s)
             /\ <<"topup_approved", p>> # Charge(s) /\ <<"topup_approved", p>> # Refund(s)
  BY DEF Charge, Refund
<1>2. ASSUME NEW u \in EndUsers, NEW d \in Deltas, AdjustWallet(u, d) PROVE Other
  BY <1>1, <1>2 DEF AdjustWallet, CreditWallet, DebitWallet
<1>3. ASSUME NEW p \in PaymentIds, ApprovePayment(p) PROVE Other
  <2>1. payment[p].user \in EndUsers
    BY <1>3 DEF TypeOK, WalletTypeOK, ApprovePayment, IsPending, Payments
  <2>2. SaveBalance(payment[p].user, payment[p].amount, <<"topup_approved", p>>)
    BY <1>3 DEF ApprovePayment
  <2>3. QED BY <1>1, <2>1, <2>2
<1>4. Other
  BY <1>2, <1>3 DEF WalletNext, CreatePayment, RejectPayment
<1>5. QED BY <1>4, OtherMoneyKept

\* The invariant is inductive.
LEMMA IInvInit == Init => IInv
<1> SUFFICES ASSUME Init, NEW r \in Requests PROVE MoneyRight(r) /\ Stage(r)
  BY CheckoutInitTypes DEF IInv
<1>1. \A u \in EndUsers : \A i \in DOMAIN walletTx[u] :
        walletTx[u][i].memo # Charge(r) /\ walletTx[u][i].memo # Refund(r)
  <2> SUFFICES ASSUME NEW u \in EndUsers, NEW i \in DOMAIN walletTx[u]
               PROVE  walletTx[u][i].memo # Charge(r) /\ walletTx[u][i].memo # Refund(r)
    OBVIOUS
  <2> DEFINE opening == WalletTx(Opening[u], Opening[u], <<"admin_adjust", NoRef>>)
  <2>1. walletTx[u] = IF Opening[u] = 0 THEN <<>> ELSE <<opening>>
    BY DEF Init, WalletInit
  <2>2. opening.memo = <<"admin_adjust", NoRef>>
    BY DEF WalletTx
  <2> HIDE DEF opening
  <2>3. walletTx[u] = <<opening>> /\ i = 1
    BY <2>1
  <2>4. walletTx[u][i] = opening
    BY <2>3
  <2>5. QED BY <2>2, <2>4 DEF Charge, Refund
<1>2. buyer[r] \in EndUsers
  BY DEF Init
<1>3. ~Charged(r) /\ ~Refunded(r) /\ MoneyRight(r)
  BY <1>1, <1>2 DEF Charged, Refunded, Posted, MoneyRight, NeverTwice
<1>4. QED BY <1>3 DEF Init, Stage

LEMMA IInvNext == IInv /\ [Next]_vars => IInv'
<1> SUFFICES ASSUME IInv, [Next]_vars, NEW s \in Requests
             PROVE  MoneyRight(s)' /\ Stage(s)'
  BY NextKeepsTypes DEF IInv
<1>1. TypeOK /\ MoneyRight(s) /\ Stage(s)
  BY DEF IInv
<1>2. UNCHANGED <<walletTx, buyer, cost>> =>
        MoneyRight(s)' /\ (Charged(s)' <=> Charged(s)) /\ (Refunded(s)' <=> Refunded(s))
  BY <1>1, OtherMoneyKept
<1>3. ASSUME NEW r \in Requests, Step(r) PROVE MoneyRight(s)' /\ Stage(s)'
  BY <1>1, <1>3, StageStep, OthersKept
<1>4. ASSUME NEW r \in Requests, Arrive(r) PROVE MoneyRight(s)' /\ Stage(s)'
  BY <1>1, <1>2, <1>4 DEF Arrive, GoTo, walletVars, effectVars, TypeOK, Stage
<1>5. ASSUME NEW r \in Requests, HangUp(r) PROVE MoneyRight(s)' /\ Stage(s)'
  BY <1>1, <1>2, <1>5, StageKept DEF HangUp, walletVars, effectVars
<1>6. CASE OtherWalletStep
  BY <1>1, <1>6, OtherWalletKept, StageKept DEF OtherWalletStep, requestVars, effectVars
<1>7. CASE Crash
  <2>1. pc'[s] = pc[s] \/ pc'[s] = "dead"
    BY <1>7 DEF Crash
  <2>2. QED BY <1>1, <1>2, <1>7, <2>1 DEF Crash, walletVars, effectVars, Stage
<1>8. CASE UNCHANGED vars
  BY <1>1, <1>2, <1>8, StageKept DEF vars, walletVars, requestVars, effectVars
<1>9. QED BY <1>3, <1>4, <1>5, <1>6, <1>7, <1>8 DEF Next

LEMMA Invariant == Spec => []IInv
BY IInvInit, IInvNext, PTL DEF Spec

\* A customer never gets both the service and the money back, nor either without
\* having paid, however purchases, failures, hang-ups and crashes interleave.
THEOREM CheckoutPaidOnceOrRefunded == Spec => []PaidOnceOrRefunded
<1>1. IInv => PaidOnceOrRefunded
  BY DEF IInv, MoneyRight, Stage, PaidOnceOrRefunded, Delivered
<1>2. QED BY <1>1, Invariant, PTL

\* A handler that ran to its end left a charge unanswered only where creating the
\* order or the refund itself failed.
THEOREM CheckoutAnswersCharge == Spec => []ChargeIsAnswered
<1>1. IInv => ChargeIsAnswered
  BY DEF IInv, Stage, ChargeIsAnswered, Delivered
<1>2. QED BY <1>1, Invariant, PTL

\* The order of a purchase tells what came of it.
THEOREM CheckoutOrderTellsOutcome == Spec => []OrderTellsOutcome
<1>1. IInv => OrderTellsOutcome
  BY DEF IInv, Stage, OrderTellsOutcome, Delivered
<1>2. QED BY <1>1, Invariant, PTL

\* Every services row has its panel user, and a panel user that nobody pays for
\* remains only where the panel call or the delete failed, or the server died.
THEOREM CheckoutPanelMatchesServices == Spec => []PanelMatchesServices
<1>1. IInv => PanelMatchesServices
  BY DEF IInv, TypeOK, Stage, PanelMatchesServices
<1>2. QED BY <1>1, Invariant, PTL
-----------------------------------------------------------------------------
\* What a customer sees of a request is kept.
SameOutcome(s) ==
  /\ Charged(s)' <=> Charged(s)
  /\ Refunded(s)' <=> Refunded(s)
  /\ Delivered(s)' <=> Delivered(s)

LEMMA SamePhase ==
  ASSUME NEW s \in Requests, SameOutcome(s)
  PROVE  Phase'[s] = Phase[s]
BY DEF SameOutcome, Phase

\* A call of a request keeps its outcome, or charges it, delivers it or refunds it.
LEMMA StepOutcome ==
  ASSUME IInv, NEW r \in Requests, Step(r)
  PROVE  \/ SameOutcome(r)
         \/ /\ ~Charged(r) /\ ~Refunded(r) /\ ~Delivered(r)
            /\ Charged(r)' /\ ~Refunded(r)' /\ ~Delivered(r)'
         \/ /\ Charged(r) /\ ~Refunded(r) /\ ~Delivered(r)
            /\ Charged(r)' /\ ~Refunded(r)' /\ Delivered(r)'
         \/ /\ Charged(r) /\ ~Refunded(r) /\ ~Delivered(r)
            /\ Charged(r)' /\ Refunded(r)' /\ ~Delivered(r)'
<1>1. TypeOK /\ MoneyRight(r) /\ Stage(r)
  BY DEF IInv
<1>2. buyer' = buyer /\ cost' = cost
  BY DEF Step, LockPurchases, ReadUser, CheckPrice, Debit, CreateOrder, PrepareProvision,
     CreatePanelUser, CreateService, DeletePanelUser, RefundBuyer, RejectOrder,
     MarkOrderProvisioned
<1>3. CASE /\ pc[r] = "debit" /\ pc' = [pc EXCEPT ![r] = "order"]
           /\ DebitWallet(buyer[r], cost[r], Charge(r))
  <2>1. ~Charged(r) /\ SaveBalance(buyer[r], -cost[r], Charge(r))
    BY <1>1, <1>3 DEF Stage, DebitWallet
  <2>2. Charged(r)' /\ (Refunded(r)' <=> Refunded(r))
    BY <1>1, <1>2, <2>1, OwnMoney
  <2>3. service' = service
    BY <1>3 DEF Step, LockPurchases, ReadUser, CheckPrice, Debit, CreateOrder,
       PrepareProvision, CreatePanelUser, CreateService, DeletePanelUser, RefundBuyer,
       RejectOrder, MarkOrderProvisioned, effectVars
  <2>4. QED BY <1>1, <1>3, <2>2, <2>3 DEF Stage, Delivered
<1>4. CASE /\ pc[r] = "refund" /\ pc' = [pc EXCEPT ![r] = "reject"]
           /\ CreditWallet(buyer[r], cost[r], Refund(r))
  <2>1. ~Refunded(r) /\ SaveBalance(buyer[r], cost[r], Refund(r))
    BY <1>1, <1>4 DEF Stage, CreditWallet
  <2>2. Refunded(r)' /\ (Charged(r)' <=> Charged(r))
    BY <1>1, <1>2, <2>1, OwnMoney
  <2>3. service' = service
    BY <1>4 DEF Step, LockPurchases, ReadUser, CheckPrice, Debit, CreateOrder,
       PrepareProvision, CreatePanelUser, CreateService, DeletePanelUser, RefundBuyer,
       RejectOrder, MarkOrderProvisioned, effectVars
  <2>4. QED BY <1>1, <1>4, <2>2, <2>3 DEF Stage, Delivered
<1>5. CASE UNCHANGED walletVars
  <2>1. (Charged(r)' <=> Charged(r)) /\ (Refunded(r)' <=> Refunded(r))
    BY <1>1, <1>2, <1>5, OtherMoneyKept DEF walletVars
  <2>2. CASE service' = service
    BY <2>1, <2>2 DEF SameOutcome, Delivered
  <2>3. CASE pc[r] = "row" /\ service' = service \cup {r}
    BY <1>1, <2>1, <2>3 DEF Stage, Delivered
  <2>4. QED
    BY <2>2, <2>3 DEF Step, LockPurchases, ReadUser, CheckPrice, Debit, CreateOrder,
       PrepareProvision, CreatePanelUser, CreateService, DeletePanelUser, RefundBuyer,
       RejectOrder, MarkOrderProvisioned, effectVars
<1>6. QED BY <1>1, <1>3, <1>4, <1>5, StepMoney

\* Buying from the wallet, from either channel, is a purchase: it starts open, and
\* every step of the system charges, delivers or refunds one request or leaves
\* every customer's view as it was.
THEOREM CheckoutImplementsPurchase == Spec => ImplementsPurchase
<1>1. Init => P!Init
  <2> SUFFICES ASSUME Init, NEW r \in Requests PROVE Phase[r] = "open"
    BY DEF P!Init, Phase
  <2>1. Stage(r) /\ pc[r] = "new"
    BY IInvInit DEF IInv, Init
  <2>2. QED BY <2>1 DEF Stage, Phase, Delivered
<1>2. IInv /\ [Next]_vars => [P!Next]_Phase
  <2> SUFFICES ASSUME IInv, [Next]_vars PROVE [P!Next]_Phase
    OBVIOUS
  <2>1. Phase = [s \in Requests |-> Phase[s]] /\ Phase' = [s \in Requests |-> Phase'[s]]
    BY DEF Phase
  <2>2. (\A s \in Requests : SameOutcome(s)) => Phase' = Phase
    BY <2>1, SamePhase
  <2>3. ASSUME UNCHANGED <<walletTx, buyer, cost, service>> PROVE Phase' = Phase
    <3>1. \A s \in Requests : SameOutcome(s)
      BY <2>3, OtherMoneyKept DEF IInv, SameOutcome, Delivered
    <3>2. QED BY <2>2, <3>1
  <2>4. ASSUME NEW r \in Requests, Step(r) PROVE [P!Next]_Phase
    <3>1. \A s \in Requests \ {r} : Phase'[s] = Phase[s]
      BY <2>4, OthersKept, SamePhase DEF IInv, SameOutcome
    <3>2. \A x : Phase'[r] = x => Phase' = [Phase EXCEPT ![r] = x]
      BY <2>1, <3>1
    <3>3. CASE SameOutcome(r)
      BY <2>1, <3>1, <3>3, SamePhase
    <3>4. CASE /\ ~Charged(r) /\ ~Refunded(r) /\ ~Delivered(r)
               /\ Charged(r)' /\ ~Refunded(r)' /\ ~Delivered(r)'
      <4>1. Phase[r] = "open" /\ Phase'[r] = "charged"
        BY <3>4 DEF Phase
      <4>2. QED BY <3>2, <4>1 DEF P!Next, P!Charge
    <3>5. CASE /\ Charged(r) /\ ~Refunded(r) /\ ~Delivered(r)
               /\ Charged(r)' /\ ~Refunded(r)' /\ Delivered(r)'
      <4>1. Phase[r] = "charged" /\ Phase'[r] = "delivered"
        BY <3>5 DEF Phase
      <4>2. QED BY <3>2, <4>1 DEF P!Next, P!Deliver
    <3>6. CASE /\ Charged(r) /\ ~Refunded(r) /\ ~Delivered(r)
               /\ Charged(r)' /\ Refunded(r)' /\ ~Delivered(r)'
      <4>1. Phase[r] = "charged" /\ Phase'[r] = "refunded"
        BY <3>6 DEF Phase
      <4>2. QED BY <3>2, <4>1 DEF P!Next, P!Refund
    <3>7. QED BY <2>4, <3>3, <3>4, <3>5, <3>6, StepOutcome
  <2>5. ASSUME NEW r \in Requests, Arrive(r) \/ HangUp(r) PROVE Phase' = Phase
    BY <2>3, <2>5 DEF Arrive, HangUp, walletVars, effectVars
  <2>6. CASE OtherWalletStep
    <3>1. \A s \in Requests : SameOutcome(s)
      BY <2>6, OtherWalletKept
      DEF IInv, OtherWalletStep, requestVars, effectVars, SameOutcome, Delivered
    <3>2. QED BY <2>2, <3>1
  <2>7. CASE Crash
    BY <2>3, <2>7 DEF Crash, walletVars, effectVars
  <2>8. CASE UNCHANGED vars
    BY <2>3, <2>8 DEF vars, walletVars, requestVars, effectVars
  <2>9. QED BY <2>4, <2>5, <2>6, <2>7, <2>8 DEF Next
<1>3. QED BY <1>1, <1>2, Invariant, PTL DEF Spec, ImplementsPurchase, P!Spec
=============================================================================
