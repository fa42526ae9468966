------------------------------- MODULE Checkout -------------------------------
(***************************************************************************)
(* Buying a plan from the wallet: the bot handler buyPlan                  *)
(* (internal/telegram/manager.go), the mini app handler createOrder        *)
(* (internal/miniapp/api.go), and what both call: PurchaseFromWallet,      *)
(* ProvisionFromOrder, the refund and MarkOrderProvisioned.  Each request  *)
(* is a goroutine of its own; a step is one store transaction, one call to *)
(* the VPN panel, or the taking of the customer's purchase mutex.          *)
(*                                                                         *)
(* Every call takes the context of the HTTP request.  When the client      *)
(* hangs up the context is cancelled, and from then on every call of that  *)
(* request fails, the compensating ones included.                          *)
(***************************************************************************)
EXTENDS WalletStore

CONSTANTS
  Requests,      \* purchase requests; a request makes at most one order
  Prices,        \* what a plan may cost
  Nobody,        \* no one holds a purchase mutex
  StoreFaults    \* whether the database may fail a call on its own

ASSUME RequestsAssumption == Requests \subseteq Refs
ASSUME PricesAssumption   == Prices \subseteq Amounts
ASSUME NobodyAssumption   == Nobody \notin Requests
ASSUME FaultsAssumption   == StoreFaults \in BOOLEAN

VARIABLES
  pc,          \* the call each request makes next
  channel,     \* "bot" or "miniapp"
  buyer,       \* the customer a request belongs to
  seen,        \* the balance the handler read
  cost,        \* plan.PriceToman as the handler read it
  buyMu,       \* Manager.buyMu: who holds the purchase mutex of a customer
  cancelled,   \* requests whose context is cancelled
  order,       \* status of the order each request created
  account,     \* requests with a user on the VPN panel
  service,     \* requests with a services row
  told,        \* what the customer was told at the end
  failed       \* history: the calls of a request whose error the code drops

requestVars == <<pc, channel, buyer, seen, cost, buyMu, cancelled, told>>
effectVars  == <<order, account, service, failed>>
vars == <<walletVars, requestVars, effectVars>>

\* What the wallet_tx rows of a purchase are for. The debit's row refers to the
\* plan, the refund's to the order; both are named here by the request.
Charge(r) == <<"plan_purchase", r>>
Refund(r) == <<"provision_refund", r>>

Calls == {"lock", "read", "plan", "debit", "order", "prepare", "panel",
          "row", "undo", "refund", "reject", "mark"}

\* The calls whose failure leaves something behind that no later step repairs.
Droppable == {"order", "panel", "undo", "refund", "reject", "mark"}

TypeOK ==
  /\ WalletTypeOK
  /\ pc \in [Requests -> Calls \cup {"new", "done", "dead"}]
  /\ channel \in [Requests -> {"bot", "miniapp"}]
  /\ buyer \in [Requests -> EndUsers]
  /\ seen \in [Requests -> Nat]
  /\ cost \in [Requests -> Prices]
  /\ buyMu \in [EndUsers -> Requests \cup {Nobody}]
  /\ cancelled \in SUBSET Requests
  /\ order \in [Requests -> {"none", "approved", "provisioned", "rejected"}]
  /\ account \in SUBSET Requests
  /\ service \in SUBSET Requests
  /\ told \in [Requests -> {"nothing", "insufficient", "service_ready", "order_failed"}]
  /\ failed \in [Requests -> SUBSET Droppable]

Init ==
  /\ WalletInit
  /\ pc = [r \in Requests |-> "new"]
  /\ channel \in [Requests -> {"bot", "miniapp"}]
  /\ buyer \in [Requests -> EndUsers]
  /\ cost \in [Requests -> Prices]
  /\ seen = [r \in Requests |-> 0]
  /\ buyMu = [u \in EndUsers |-> Nobody]
  /\ cancelled = {}
  /\ order = [r \in Requests |-> "none"]
  /\ account = {}
  /\ service = {}
  /\ told = [r \in Requests |-> "nothing"]
  /\ failed = [r \in Requests |-> {}]

-----------------------------------------------------------------------------
Running(r) == pc[r] \in Calls

GoTo(r, next) == pc' = [pc EXCEPT ![r] = next]

\* A call of the store may succeed while the context lives; it fails when the
\* context is cancelled or when the database is at fault.
StoreWorks(r) == r \notin cancelled
StoreFails(r) == r \in cancelled \/ StoreFaults

Drop(r) == failed' = [failed EXCEPT ![r] = @ \cup {pc[r]}]

\* A handler that unlocks only at the end of a successful purchase.
ReturnLocked(r) ==
  /\ GoTo(r, "done")
  /\ buyMu' = IF channel[r] = "bot" /\ r \in service
              THEN [buyMu EXCEPT ![buyer[r]] = Nobody] ELSE buyMu

\* The handler returns; the bot handler's deferred Unlock runs on every path.
Return(r) ==
  /\ GoTo(r, "done")
  /\ buyMu' = IF channel[r] = "bot" THEN [buyMu EXCEPT ![buyer[r]] = Nobody] ELSE buyMu

\* The answer reaches the customer, or is lost; a cancelled request sends none.
Tell(r, text) ==
  \/ told' = told
  \/ r \notin cancelled /\ told' = [told EXCEPT ![r] = text]

\* A request arrives: the bot handler goes for the customer's mutex, the mini
\* app handler has no mutex and reads the customer's row at once.
Arrive(r) ==
  /\ pc[r] = "new"
  /\ GoTo(r, IF channel[r] = "bot" THEN "lock" ELSE "read")
  /\ UNCHANGED <<walletVars, channel, buyer, seen, cost, buyMu, cancelled, told, effectVars>>

LockPurchases(r) ==
  /\ pc[r] = "lock"
  /\ buyMu[buyer[r]] = Nobody
  /\ buyMu' = [buyMu EXCEPT ![buyer[r]] = r]
  /\ GoTo(r, "read")
  /\ UNCHANGED <<walletVars, channel, buyer, seen, cost, cancelled, told, effectVars>>

\* GetEndUser under the mutex (bot), or the row auth returned (mini app).
ReadUser(r) ==
  /\ pc[r] = "read"
  /\ \/ StoreWorks(r) /\ GoTo(r, "plan") /\ seen' = [seen EXCEPT ![r] = balance[buyer[r]]]
        /\ UNCHANGED buyMu
     \/ StoreFails(r) /\ Return(r) /\ UNCHANGED seen
  /\ UNCHANGED <<walletVars, channel, buyer, cost, cancelled, told, effectVars>>

\* GetPlan, then the comparison of the balance read before with the price.
CheckPrice(r) ==
  /\ pc[r] = "plan"
  /\ \/ /\ StoreWorks(r) /\ seen[r] >= cost[r]
        /\ GoTo(r, "debit") /\ UNCHANGED <<buyMu, told>>
     \/ /\ StoreWorks(r) /\ seen[r] < cost[r]
        /\ Return(r) /\ Tell(r, "insufficient")
     \/ StoreFails(r) /\ Return(r) /\ UNCHANGED told
  /\ UNCHANGED <<walletVars, channel, buyer, seen, cost, cancelled, effectVars>>

\* A purchase that goes on whether or not the debit was made.
DebitUnchecked(r) ==
  /\ pc[r] = "debit"
  /\ GoTo(r, "order")
  /\ \/ StoreWorks(r) /\ DebitWallet(buyer[r], cost[r], Charge(r))
     \/ (StoreFails(r) \/ balance[buyer[r]] < cost[r]) /\ UNCHANGED walletVars
  /\ UNCHANGED <<channel, buyer, seen, cost, buyMu, cancelled, told, effectVars>>

\* PurchaseFromWallet, first transaction: the debit looks at the balance again.
Debit(r) ==
  /\ pc[r] = "debit"
  /\ \/ /\ StoreWorks(r)
        /\ DebitWallet(buyer[r], cost[r], Charge(r))
        /\ GoTo(r, "order") /\ UNCHANGED buyMu
     \/ /\ StoreFails(r) \/ balance[buyer[r]] < cost[r]
        /\ Return(r) /\ UNCHANGED walletVars
  /\ UNCHANGED <<channel, buyer, seen, cost, cancelled, told, effectVars>>

\* PurchaseFromWallet, second write: when the order cannot be created the
\* handler returns, and the debit stays.
CreateOrder(r) ==
  /\ pc[r] = "order"
  /\ \/ /\ StoreWorks(r)
        /\ order' = [order EXCEPT ![r] = "approved"]
        /\ GoTo(r, "prepare") /\ UNCHANGED <<buyMu, failed>>
     \/ StoreFails(r) /\ Drop(r) /\ Return(r) /\ UNCHANGED order
  /\ UNCHANGED <<walletVars, channel, buyer, seen, cost, cancelled, told, account, service>>

\* ProvisionFromOrder up to the panel call: GetPlan, GetBot, BotHasPanel and
\* Panels.Get; the plan may also have lost its panel meanwhile.
PrepareProvision(r) ==
  /\ pc[r] = "prepare"
  /\ \/ StoreWorks(r) /\ GoTo(r, "panel")
     \/ GoTo(r, "refund")
  /\ UNCHANGED <<walletVars, channel, buyer, seen, cost, buyMu, cancelled, told, effectVars>>

\* client.CreateUser: created; refused; or an error although the user exists
\* (a lost answer, or the 3x-ui client whose read after the POST fails).
CreatePanelUser(r) ==
  /\ pc[r] = "panel"
  /\ \/ /\ StoreWorks(r)
        /\ account' = account \cup {r} /\ GoTo(r, "row") /\ UNCHANGED failed
     \/ UNCHANGED <<account, failed>> /\ GoTo(r, "refund")
     \/ account' = account \cup {r} /\ Drop(r) /\ GoTo(r, "refund")
  /\ UNCHANGED <<walletVars, channel, buyer, seen, cost, buyMu, cancelled, told, order, service>>

CreateService(r) ==
  /\ pc[r] = "row"
  /\ \/ StoreWorks(r) /\ service' = service \cup {r} /\ GoTo(r, "mark")
     \/ StoreFails(r) /\ UNCHANGED service /\ GoTo(r, "undo")
  /\ UNCHANGED <<walletVars, channel, buyer, seen, cost, buyMu, cancelled, told,
                 order, account, failed>>

\* A failure of CreateService that returns without deleting the panel user.
KeepPanelUser(r) ==
  /\ pc[r] = "undo"
  /\ GoTo(r, "refund")
  /\ UNCHANGED <<walletVars, channel, buyer, seen, cost, buyMu, cancelled, told, effectVars>>

\* The panel user without a services row is deleted; the error is dropped.
DeletePanelUser(r) ==
  /\ pc[r] = "undo"
  /\ GoTo(r, "refund")
  /\ \/ r \notin cancelled /\ account' = account \ {r} /\ UNCHANGED failed
     \/ UNCHANGED account /\ Drop(r)
  /\ UNCHANGED <<walletVars, channel, buyer, seen, cost, buyMu, cancelled, told, order, service>>

\* A failed purchase that forgets the money.
SkipRefund(r) ==
  /\ pc[r] = "refund"
  /\ GoTo(r, "reject")
  /\ UNCHANGED <<walletVars, channel, buyer, seen, cost, buyMu, cancelled, told, effectVars>>

\* A refund that is tried again when its answer is lost.
RefundBuyerRetried(r) ==
  /\ pc[r] = "refund"
  /\ StoreWorks(r)
  /\ CreditWallet(buyer[r], cost[r], Refund(r))
  /\ GoTo(r, "reject") \/ GoTo(r, "refund")
  /\ UNCHANGED <<channel, buyer, seen, cost, buyMu, cancelled, told, effectVars>>

\* Provisioning failed: Credit the price back; the error is dropped.
RefundBuyer(r) ==
  /\ pc[r] = "refund"
  /\ GoTo(r, "reject")
  /\ \/ /\ StoreWorks(r)
        /\ CreditWallet(buyer[r], cost[r], Refund(r)) /\ UNCHANGED failed
     \/ StoreFails(r) /\ Drop(r) /\ UNCHANGED walletVars
  /\ UNCHANGED <<channel, buyer, seen, cost, buyMu, cancelled, told, order, account, service>>

\* A failed purchase that leaves its order as it is.
ReturnWithoutRejecting(r) ==
  /\ pc[r] = "reject"
  /\ Return(r)
  /\ UNCHANGED <<walletVars, channel, buyer, seen, cost, cancelled, told, effectVars>>

\* The order is saved as rejected, the error dropped; the bot tells the customer.
RejectOrder(r) ==
  /\ pc[r] = "reject"
  /\ Return(r)
  /\ \/ StoreWorks(r) /\ order' = [order EXCEPT ![r] = "rejected"] /\ UNCHANGED failed
     \/ StoreFails(r) /\ Drop(r) /\ UNCHANGED order
  /\ IF channel[r] = "bot" THEN Tell(r, "order_failed") ELSE UNCHANGED told
  /\ UNCHANGED <<walletVars, channel, buyer, seen, cost, cancelled, account, service>>

\* MarkOrderProvisioned, the error dropped; the customer gets the link.
MarkOrderProvisioned(r) ==
  /\ pc[r] = "mark"
  /\ Return(r)
  /\ \/ StoreWorks(r) /\ order' = [order EXCEPT ![r] = "provisioned"] /\ UNCHANGED failed
     \/ StoreFails(r) /\ Drop(r) /\ UNCHANGED order
  /\ Tell(r, "service_ready")
  /\ UNCHANGED <<walletVars, channel, buyer, seen, cost, cancelled, account, service>>

Step(r) ==
  \/ LockPurchases(r) \/ ReadUser(r) \/ CheckPrice(r) \/ Debit(r) \/ CreateOrder(r)
  \/ PrepareProvision(r) \/ CreatePanelUser(r) \/ CreateService(r) \/ DeletePanelUser(r)
  \/ RefundBuyer(r) \/ RejectOrder(r) \/ MarkOrderProvisioned(r)

\* The client of a running request hangs up.
HangUp(r) ==
  /\ Running(r) /\ r \notin cancelled
  /\ cancelled' = cancelled \cup {r}
  /\ UNCHANGED <<walletVars, pc, channel, buyer, seen, cost, buyMu, told, effectVars>>

\* The server process dies and restarts: its goroutines and mutexes are gone.
Crash ==
  /\ \E r \in Requests : Running(r)
  /\ pc' = [r \in Requests |-> IF Running(r) THEN "dead" ELSE pc[r]]
  /\ buyMu' = [u \in EndUsers |-> Nobody]
  /\ UNCHANGED <<walletVars, channel, buyer, seen, cost, cancelled, told, effectVars>>

\* Admins adjust the wallet and review top-ups while purchases run.
OtherWalletStep == WalletNext /\ UNCHANGED <<requestVars, effectVars>>

Next ==
  \/ \E r \in Requests : Arrive(r) \/ Step(r) \/ HangUp(r)
  \/ OtherWalletStep
  \/ Crash

Spec == Init /\ [][Next]_vars

\* A goroutine goes on until it returns: database and panel calls have timeouts.
Fairness == \A r \in Requests : WF_vars(Step(r))

FairSpec == Spec /\ Fairness

-----------------------------------------------------------------------------
Charged(r)  == Posted(Charge(r))
Refunded(r) == Posted(Refund(r))
Delivered(r) == r \in service

\* A customer never gets both the service and the money, and never gets either
\* without having paid: a service has one charge of the price and no refund, a
\* refund follows one charge and returns the whole of it, once.
PaidOnceOrRefunded ==
  \A r \in Requests :
    /\ NeverTwice(Charge(r)) /\ NeverTwice(Refund(r))
    /\ Delivered(r) => Charged(r) /\ ~Refunded(r)
    /\ Refunded(r) => Charged(r)
    /\ \A i \in DOMAIN walletTx[buyer[r]] :
         LET tx == walletTx[buyer[r]][i]
         IN  /\ tx.memo = Charge(r) => tx.delta = -cost[r]
             /\ tx.memo = Refund(r) => tx.delta = cost[r]

\* A handler that ran to its end leaves no charge unanswered: whatever the panel
\* did, the purchase was delivered or refunded, unless creating the order or the
\* refund itself failed. buyPlan and createOrder drop exactly those two errors.
ChargeIsAnswered ==
  \A r \in Requests :
    pc[r] = "done" /\ Charged(r) /\ failed[r] \cap {"order", "refund"} = {}
      => Delivered(r) \/ Refunded(r)

\* What the orders table says agrees with what happened: a provisioned order has
\* its service, a rejected one has none, and an order is left approved only when
\* its last write failed or the server died.
OrderTellsOutcome ==
  \A r \in Requests :
    /\ order[r] = "provisioned" => Delivered(r)
    /\ order[r] = "rejected" => ~Delivered(r)
    /\ pc[r] = "done" /\ order[r] = "approved" => failed[r] \cap {"reject", "mark"} # {}

\* Panel and database agree: a services row always has its panel user, and a
\* panel user that nobody pays for remains only if the panel's answer was lost,
\* the delete failed, or the server died.
PanelMatchesServices ==
  /\ service \subseteq account
  /\ \A r \in account \ service :
       pc[r] = "done" => failed[r] \cap {"panel", "undo"} # {}

\* A purchase request always ends, so the purchase mutex of its customer is
\* always free again.
EveryRequestEnds == \A r \in Requests : Running(r) ~> pc[r] \in {"done", "dead"}

\* i18n.go tells the customer "Order failed and the amount was refunded to your
\* wallet": this says that it was.
ToldRefundedIsRefunded ==
  \A r \in Requests : told[r] = "order_failed" => Refunded(r)

\* What a customer can observe of a request; "both" is no phase of a purchase.
Phase == [r \in Requests |->
            CASE Delivered(r) /\ Refunded(r)  -> "both"
              [] Delivered(r) /\ ~Refunded(r) -> "delivered"
              [] Refunded(r) /\ ~Delivered(r) -> "refunded"
              [] OTHER                        -> IF Charged(r) THEN "charged" ELSE "open"]

P == INSTANCE Purchase WITH phase <- Phase

\* Both handlers implement the purchase a customer may expect.
ImplementsPurchase == P!Spec
=============================================================================
